-------------------------- MODULE Operators_proofs --------------------------
(***************************************************************************)
(* What is proved of Operators, for every set of widths that CInt's        *)
(* assumption allows, every operand, every set of options and every number *)
(* of calls.  OperatorsInv says what a chosen, drawn and printed operator  *)
(* may be; the four properties follow from it and from what the wrappers   *)
(* compute.  From the bottom up: powers of two and ranges, conversions and *)
(* arithmetic in C, the scalar wrappers, xor and and on bits, the wrappers *)
(* on vectors, warp and atomic calls, the choice of an operator, the       *)
(* invariant.                                                              *)
(***************************************************************************)
EXTENDS Operators, SequenceTheorems, WellFoundedInduction, TLAPS

-----------------------------------------------------------------------------
(* Arithmetic. *)

LEMMA MulNat == \A a, b \in Nat : a * b \in Nat
    BY SMT

\* A product of naturals grows with its first factor.
LEMMA MulUp ==
    ASSUME NEW a \in Int, NEW b \in Int, NEW d \in Nat, a <= b
    PROVE  a * d <= b * d
<1>1. (b - a) * d \in Nat BY MulNat
<1>2. (b - a) * d = b * d - a * d BY SMT
<1> QED BY <1>1, <1>2

\* A positive factor keeps the order of integers.
LEMMA MulLess ==
    ASSUME NEW a \in Int, NEW b \in Int, NEW d \in Nat \ {0}, a < b
    PROVE  a * d + d <= b * d
<1>1. (a + 1) * d <= b * d BY MulUp
<1>2. (a + 1) * d = a * d + d BY SMT
<1> QED BY <1>1, <1>2

\* Division with remainder.
LEMMA DivMod ==
    ASSUME NEW x \in Int, NEW d \in Nat \ {0}
    PROVE  /\ x \div d \in Int /\ x % d \in 0..(d - 1)
           /\ x = (x \div d) * d + (x % d)
    BY SMT

\* Quotient and remainder are determined by what they add up to.
LEMMA DivUnique ==
    ASSUME NEW x \in Int, NEW d \in Nat \ {0}, NEW q \in Int, NEW r \in 0..(d - 1), x = q * d + r
    PROVE  x \div d = q /\ x % d = r
<1> DEFINE p == x \div d
           s == x % d
<1>1. p \in Int /\ s \in 0..(d - 1) /\ x = p * d + s BY DivMod
<1> HIDE DEF p, s
<1>2. ~(p < q)
    <2> SUFFICES ASSUME p < q PROVE FALSE OBVIOUS
    <2>1. p * d + d <= q * d BY <1>1, MulLess
    <2> QED BY <1>1, <2>1
<1>3. ~(q < p)
    <2> SUFFICES ASSUME q < p PROVE FALSE OBVIOUS
    <2>1. q * d + d <= p * d BY <1>1, MulLess
    <2> QED BY <1>1, <2>1
<1>4. p = q BY <1>1, <1>2, <1>3
<1> QED BY <1>1, <1>4 DEF p, s

\* A quotient of naturals is between 0 and the dividend.
LEMMA DivNat ==
    ASSUME NEW x \in Nat, NEW d \in Nat \ {0}
    PROVE  x \div d \in 0..x
<1> DEFINE k == x \div d
<1>1. k \in Int /\ x % d \in 0..(d - 1) /\ x = k * d + (x % d) BY DivMod
<1> HIDE DEF k
<1>2. k >= 0
    <2> SUFFICES ASSUME k < 0 PROVE FALSE BY <1>1
    <2>1. k * d + d <= 0 * d BY <1>1, MulLess
    <2> QED BY <1>1, <2>1
<1>3. k <= x
    <2>1. 1 * k <= d * k BY <1>1, <1>2, MulUp
    <2>2. d * k = k * d BY <1>1, SMT
    <2> QED BY <1>1, <2>1, <2>2
<1> QED BY <1>1, <1>2, <1>3 DEF k

\* A limit divided by d separates the numbers whose product with d exceeds it.
LEMMA DivMax ==
    ASSUME NEW m \in Int, NEW x \in Int, NEW d \in Nat \ {0}
    PROVE  x > m \div d <=> x * d > m
<1> DEFINE q == m \div d
           r == m % d
<1>1. q \in Int /\ r \in 0..(d - 1) /\ m = q * d + r BY DivMod
<1> HIDE DEF q, r
<1>2. x > q => x * d > m
    <2> SUFFICES ASSUME x > q PROVE x * d > m OBVIOUS
    <2>1. q * d + d <= x * d BY <1>1, MulLess
    <2> QED BY <1>1, <2>1
<1>3. x <= q => x * d <= m
    <2> SUFFICES ASSUME x <= q PROVE x * d <= m OBVIOUS
    <2>1. x * d <= q * d BY <1>1, MulUp
    <2> QED BY <1>1, <2>1
<1> QED BY <1>1, <1>2, <1>3 DEF q

\* A set that holds 0 and with n holds n + 1 holds every natural number.
LEMMA NaturalSet ==
    ASSUME NEW S, 0 \in S, \A n \in Nat : n \in S => n + 1 \in S
    PROVE  Nat \subseteq S
<1> DEFINE T == Nat \ S
<1> SUFFICES ASSUME T # {} PROVE FALSE OBVIOUS
<1>1. PICK m \in T : \A n \in T : ~(<<n, m>> \in OpToRel(<, Nat))
    BY NatLessThanWellFounded, WFMin
<1>2. \A n \in T : ~(<<n, m>> \in {ss \in Nat \X Nat : ss[1] < ss[2]})
    BY <1>1, Zenon DEF OpToRel
<1>3. m \in Nat /\ m # 0 OBVIOUS
<1>4. m - 1 \in T => <<m - 1, m>> \in {ss \in Nat \X Nat : ss[1] < ss[2]} BY <1>3
<1>5. m - 1 \notin T BY <1>2, <1>4, Zenon
<1>6. m - 1 \in Nat /\ m - 1 + 1 = m BY <1>3
<1>7. m \in S BY <1>5, <1>6
<1> QED BY <1>7

\* A function on 0..n is given by its first value and by what follows from each.
Recursive(f, n, b, h) == f = [i \in 0..n |-> IF i = 0 THEN b ELSE h[<<f[i - 1], i>>]]

\* A recursive function over 0..n exists, with values where its step keeps them.
LEMMA Recursion ==
    ASSUME NEW T, NEW n \in Nat, NEW b \in T, NEW h, h \in [T \X (1..n) -> T]
    PROVE  \E f \in [0..n -> T] : Recursive(f, n, b, h)
<1> DEFINE Is(f, k) == f = [i \in 0..k |-> IF i = 0 THEN b ELSE h[<<f[i - 1], i>>]]
           S == {k \in Nat : k <= n => \E f \in [0..k -> T] : Is(f, k)}
<1>1. 0 \in S
    <2> DEFINE f == [i \in 0..0 |-> b]
    <2>1. f \in [0..0 -> T] OBVIOUS
    <2>2. Is(f, 0) OBVIOUS
    <2> HIDE DEF f
    <2> QED BY <2>1, <2>2
<1>2. ASSUME NEW k \in Nat, k \in S PROVE k + 1 \in S
    <2> SUFFICES ASSUME k + 1 <= n PROVE \E f \in [0..k + 1 -> T] : Is(f, k + 1) OBVIOUS
    <2>1. PICK f \in [0..k -> T] : Is(f, k) BY <1>2
    <2> DEFINE e == h[<<f[k], k + 1>>]
               g == [i \in 0..k + 1 |-> IF i = k + 1 THEN e ELSE f[i]]
    <2>2. f[k] \in T BY <2>1
    <2>3. <<f[k], k + 1>> \in T \X (1..n) BY <2>2
    <2>4. e \in T BY <2>3
    <2>5. g \in [0..k + 1 -> T]
        <3>1. \A i \in 0..k + 1 : i # k + 1 => i \in 0..k OBVIOUS
        <3> QED BY <2>4, <3>1
    <2>6. ASSUME NEW i \in 0..k + 1 PROVE g[i] = IF i = 0 THEN b ELSE h[<<g[i - 1], i>>]
        <3>1. CASE i = 0
            <4>1. g[0] = f[0] /\ f[0] = b BY <2>1
            <4> QED BY <3>1, <4>1
        <3>2. CASE i = k + 1
            <4>1. g[i] = e /\ g[i - 1] = f[k] /\ i # 0 BY <3>2
            <4>2. h[<<g[i - 1], i>>] = e BY <3>2, <4>1
            <4> HIDE DEF g, e
            <4> QED BY <4>1, <4>2
        <3>3. CASE i # 0 /\ i # k + 1
            <4>1. i \in 0..k /\ i - 1 \in 0..k BY <3>3
            <4>2. g[i] = f[i] /\ g[i - 1] = f[i - 1] BY <4>1
            <4>3. f[i] = h[<<f[i - 1], i>>] BY <2>1, <3>3, <4>1
            <4> QED BY <3>3, <4>2, <4>3
        <3> QED BY <3>1, <3>2, <3>3
    <2>7. g = [i \in 0..k + 1 |-> g[i]] OBVIOUS
    <2> HIDE DEF g
    <2>8. Is(g, k + 1) BY <2>6, <2>7
    <2> QED BY <2>5, <2>8
<1>3. n \in S BY <1>1, <1>2, NaturalSet
<1> QED BY <1>3 DEF Recursive

\* What holds of 0 and passes on holds up to n.
LEMMA Upto ==
    ASSUME NEW n \in Nat, NEW S, 0 \in S, \A i \in 0..(n - 1) : i \in S => i + 1 \in S
    PROVE  0..n \subseteq S
<1> DEFINE R == {i \in Nat : i <= n => i \in S}
<1>1. 0 \in R OBVIOUS
<1>2. ASSUME NEW i \in Nat, i \in R PROVE i + 1 \in R BY <1>2
<1>3. Nat \subseteq R BY <1>1, <1>2, NaturalSet
<1> QED BY <1>3

-----------------------------------------------------------------------------
(* Widths and powers of two. *)

PowTop == 2 * Bits[4] + 2

LEMMA WidthFacts ==
    /\ \A n \in 1..4 : Bits[n] \in Nat \ {0}
    /\ Bits[1] < Bits[2] /\ Bits[2] < Bits[3] /\ Bits[3] < Bits[4]
    /\ 2 * Bits[1] < Bits[3] /\ 2 * Bits[2] = Bits[3]
    /\ PowTop \in Nat
    BY BitsAssumption DEF PowTop

LEMMA Pow2Def ==
    /\ Pow2 \in [0..PowTop -> Nat \ {0}]
    /\ Pow2[0] = 1
    /\ \A i \in 0..(PowTop - 1) : Pow2[i + 1] = 2 * Pow2[i]
<1> DEFINE n == PowTop
           T == Nat \ {0}
           h == [x \in T \X (1..n) |-> 2 * x[1]]
           Is(f) == f = [i \in 0..n |-> IF i = 0 THEN 1 ELSE 2 * f[i - 1]]
           c == CHOOSE f : Is(f)
<1>1. n \in Nat BY WidthFacts
<1>2. h \in [T \X (1..n) -> T] /\ 1 \in T OBVIOUS
<1>3. PICK f \in [0..n -> T] : Recursive(f, n, 1, h)
    <2> HIDE DEF n, h, T
    <2> QED BY <1>1, <1>2, Recursion
<1>4. \A i \in 0..n : i # 0 => h[<<f[i - 1], i>>] = 2 * f[i - 1]
    <2> SUFFICES ASSUME NEW i \in 0..n, i # 0 PROVE h[<<f[i - 1], i>>] = 2 * f[i - 1] OBVIOUS
    <2>1. i - 1 \in 0..n /\ i \in 1..n BY <1>1
    <2>2. f[i - 1] \in T BY <1>3, <2>1
    <2> QED BY <2>1, <2>2
<1>5. Is(f)
    <2> HIDE DEF h, n
    <2> QED BY <1>3, <1>4 DEF Recursive
<1>6. Is(c) BY <1>5, Zenon
<1>7. c = Pow2 BY Zenon DEF Pow2, PowTop
<1> HIDE DEF n
<1>8. Is(Pow2) BY <1>6, <1>7
<1>9. Pow2[0] = 1 /\ \A i \in 1..n : Pow2[i] = 2 * Pow2[i - 1] BY <1>1, <1>8
<1>10. \A i \in 0..(n - 1) : Pow2[i + 1] = 2 * Pow2[i]
    <2> SUFFICES ASSUME NEW i \in 0..(n - 1) PROVE Pow2[i + 1] = 2 * Pow2[i] OBVIOUS
    <2>1. i + 1 \in 1..n /\ i + 1 - 1 = i BY <1>1
    <2> QED BY <1>9, <2>1
<1>11. 0..n \subseteq {i \in 0..n : Pow2[i] \in T}
    <2>1. 0 \in {i \in 0..n : Pow2[i] \in T} BY <1>1, <1>9
    <2>2. \A i \in 0..(n - 1) : i \in {j \in 0..n : Pow2[j] \in T} => i + 1 \in {j \in 0..n : Pow2[j] \in T}
        BY <1>1, <1>10
    <2> QED BY <1>1, <2>1, <2>2, Upto
<1>12. Pow2 \in [0..n -> T] BY <1>8, <1>11
<1> QED BY <1>9, <1>10, <1>12 DEF n

LEMMA PowNat == \A i \in 0..PowTop : Pow2[i] \in Nat \ {0}
    BY Pow2Def

\* Powers multiply as their exponents add.
LEMMA PowAdd ==
    ASSUME NEW i \in Nat, NEW j \in Nat, i + j <= PowTop
    PROVE  Pow2[i + j] = Pow2[i] * Pow2[j]
<1> DEFINE S == {k \in 0..j : Pow2[i + k] = Pow2[i] * Pow2[k]}
<1>1. 0 \in S
    <2>1. Pow2[i] \in Nat BY WidthFacts, PowNat
    <2> QED BY <2>1, Pow2Def
<1>2. ASSUME NEW k \in 0..(j - 1), k \in S PROVE k + 1 \in S
    <2>1. Pow2[i + k] = Pow2[i] * Pow2[k] BY <1>2
    <2>2. i + k \in 0..(PowTop - 1) /\ k \in 0..(PowTop - 1) BY WidthFacts
    <2>3. Pow2[(i + k) + 1] = 2 * Pow2[i + k] /\ Pow2[k + 1] = 2 * Pow2[k] BY <2>2, Pow2Def
    <2>4. Pow2[i] \in Nat /\ Pow2[k] \in Nat BY <2>2, WidthFacts, PowNat
    <2>5. Pow2[i] * (2 * Pow2[k]) = 2 * (Pow2[i] * Pow2[k]) BY <2>4, SMT
    <2>6. (i + k) + 1 = i + (k + 1) OBVIOUS
    <2>7. Pow2[i + (k + 1)] = Pow2[i] * Pow2[k + 1] BY <2>1, <2>3, <2>5, <2>6
    <2> QED BY <2>7
<1>3. 0..j \subseteq S BY <1>1, <1>2, Upto
<1> QED BY <1>3

\* Each power of two is at least twice any smaller one.
LEMMA PowUp ==
    ASSUME NEW i \in Nat, NEW j \in 0..PowTop, i < j
    PROVE  2 * Pow2[i] <= Pow2[j]
<1>1. j - i - 1 \in Nat /\ i + 1 \in Nat /\ i + 1 + (j - i - 1) = j OBVIOUS
<1>2. Pow2[j] = Pow2[i + 1] * Pow2[j - i - 1] BY <1>1, PowAdd
<1>3. Pow2[i + 1] = 2 * Pow2[i] BY WidthFacts, Pow2Def
<1>4. i + 1 \in 0..PowTop /\ j - i - 1 \in 0..PowTop BY WidthFacts
<1>5. Pow2[i + 1] \in Nat /\ Pow2[j - i - 1] \in Nat \ {0} BY <1>4, PowNat
<1>6. 1 * Pow2[i + 1] <= Pow2[j - i - 1] * Pow2[i + 1] BY <1>5, MulUp
<1>7. Pow2[j - i - 1] * Pow2[i + 1] = Pow2[i + 1] * Pow2[j - i - 1] BY <1>5, SMT
<1> QED BY <1>2, <1>3, <1>5, <1>6, <1>7

-----------------------------------------------------------------------------
(* The types. *)

\* Half the values of a type of width w: the sign bit.
Half(T) == Pow2[Width(T) - 1]

\* Ranges of the integer types; no mathematical result of two operands reaches Undef.
LEMMA TypeFacts ==
    ASSUME NEW T \in IntTypes
    PROVE  /\ Width(T) \in Nat \ {0} /\ Width(T) \in 1..Bits[4] /\ Width(T) - 1 \in 0..(Bits[4] - 1)
           /\ Half(T) \in Nat \ {0} /\ Pow2[Width(T)] \in Nat \ {0} /\ Pow2[Width(T)] = 2 * Half(T)
           /\ MinOf(T) = IF T.sign THEN -Half(T) ELSE 0
           /\ MaxOf(T) = IF T.sign THEN Half(T) - 1 ELSE 2 * Half(T) - 1
           /\ MinOf(T) \in Int /\ MaxOf(T) \in Nat
           /\ Values(T) = {z \in Int : MinOf(T) <= z /\ z <= MaxOf(T)}
           /\ 4 * Pow2[2 * Bits[4]] = Undef /\ Undef \in Nat
           /\ Half(T) * Half(T) <= Pow2[2 * Bits[4]] /\ 2 * Half(T) <= Pow2[2 * Bits[4]]
           /\ 2 * Half(T) * (2 * Half(T)) <= Pow2[2 * Bits[4]]
<1> DEFINE w == Width(T)
<1>1. T.size \in 1..4 BY DEF IntTypes
<1>2. w \in Nat \ {0} /\ w <= Bits[4] BY <1>1, WidthFacts DEF Width
<1> HIDE DEF w
<1>3. w \in 0..PowTop /\ w - 1 \in 0..(PowTop - 1) /\ Bits[4] \in Nat BY <1>2, WidthFacts DEF PowTop
<1>4. Half(T) \in Nat \ {0} /\ Pow2[w] \in Nat \ {0} BY <1>3, WidthFacts, PowNat DEF Half, w
<1>5. Pow2[w] = 2 * Half(T)
    <2>1. Pow2[(w - 1) + 1] = 2 * Pow2[w - 1] BY <1>3, Pow2Def
    <2>2. (w - 1) + 1 = w BY <1>3
    <2> QED BY <2>1, <2>2 DEF Half, w
<1>6. /\ MinOf(T) = IF T.sign THEN -Half(T) ELSE 0
      /\ MaxOf(T) = IF T.sign THEN Half(T) - 1 ELSE 2 * Half(T) - 1
    BY <1>4, <1>5 DEF MinOf, MaxOf, Half, w
<1>7. MinOf(T) \in Int /\ MaxOf(T) \in Nat BY <1>4, <1>6
<1>8. Values(T) = {z \in Int : MinOf(T) <= z /\ z <= MaxOf(T)} BY <1>7 DEF Values
<1> DEFINE t == 2 * Bits[4]
<1>9. t \in 0..(PowTop - 2) BY <1>3 DEF PowTop
<1>10. Pow2[t] \in Nat \ {0} /\ Pow2[t + 1] = 2 * Pow2[t] /\ Pow2[t + 2] = 2 * Pow2[t + 1]
    <2>1. t \in 0..(PowTop - 1) /\ t + 1 \in 0..(PowTop - 1) /\ (t + 1) + 1 = t + 2 /\ t \in 0..PowTop BY <1>9, WidthFacts
    <2> HIDE DEF t
    <2>2. Pow2[t + 1] = 2 * Pow2[t] /\ Pow2[(t + 1) + 1] = 2 * Pow2[t + 1] BY <2>1, Pow2Def
    <2> QED BY <2>1, <2>2, PowNat
<1>11. Undef = Pow2[t + 2] BY DEF Undef
<1>12. Pow2[2 * w] = Pow2[w] * Pow2[w]
    <2>1. w + w <= PowTop /\ w + w = 2 * w BY <1>2, <1>3 DEF PowTop
    <2> QED BY <1>2, <2>1, PowAdd
<1>13. Pow2[2 * w] <= Pow2[t]
    <2>1. CASE w = Bits[4] BY <2>1, <1>10
    <2>2. CASE w < Bits[4]
        <3>1. 2 * w \in Nat /\ t \in 0..PowTop /\ 2 * w < t /\ 2 * w \in 0..PowTop BY <1>2, <1>3, <1>9, <2>2, WidthFacts
        <3> HIDE DEF t
        <3>2. 2 * Pow2[2 * w] <= Pow2[t] /\ Pow2[2 * w] \in Nat BY <3>1, PowUp, PowNat
        <3> QED BY <3>2, <1>10
    <2> QED BY <1>2, <1>3, <2>1, <2>2
<1> DEFINE a == Half(T)
<1>14. 2 * a * (2 * a) <= Pow2[t] BY <1>5, <1>12, <1>13
<1>15. a * a <= 2 * a * (2 * a) /\ 2 * a <= 2 * a * (2 * a)
    <2> HIDE DEF a
    <2>1. a \in Nat \ {0} BY <1>4 DEF a
    <2>2. 1 * a <= a * a /\ a * a \in Nat BY <2>1, MulUp, MulNat
    <2>3. 2 * a * (2 * a) = 4 * (a * a) BY <2>1, SMT
    <2> QED BY <2>1, <2>2, <2>3
<1>16. a * a \in Nat /\ 2 * a * (2 * a) \in Nat /\ 2 * a \in Nat BY <1>4, MulNat
<1>17. a * a <= Pow2[t] /\ 2 * a <= Pow2[t]
    <2> HIDE DEF a, t
    <2> QED BY <1>10, <1>14, <1>15, <1>16
<1>18. /\ Width(T) \in Nat \ {0} /\ Width(T) \in 1..Bits[4] /\ Width(T) - 1 \in 0..(Bits[4] - 1)
    BY <1>2, <1>3 DEF w
<1>19. 4 * Pow2[2 * Bits[4]] = Undef /\ Undef \in Nat
    <2> HIDE DEF t
    <2>1. 4 * Pow2[t] = Undef /\ Undef \in Nat BY <1>10, <1>11
    <2> QED BY <2>1 DEF t
<1>20. a * a <= Pow2[2 * Bits[4]] /\ 2 * a <= Pow2[2 * Bits[4]] /\ 2 * a * (2 * a) <= Pow2[2 * Bits[4]]
    BY <1>14, <1>17
<1> HIDE DEF t
<1> QED BY <1>4, <1>5, <1>6, <1>7, <1>8, <1>18, <1>19, <1>20 DEF w, a

\* A value of a type is a number smaller than Undef.
LEMMA ValueFacts ==
    ASSUME NEW T \in IntTypes, NEW z \in Values(T)
    PROVE  z \in Int /\ MinOf(T) <= z /\ z <= MaxOf(T) /\ z # Undef /\ -z # Undef
<1> USE TypeFacts
<1>1. z \in Int /\ MinOf(T) <= z /\ z <= MaxOf(T) OBVIOUS
<1>2. -2 * Half(T) <= z /\ z < 2 * Half(T) BY <1>1
<1>3. 2 * Half(T) <= Pow2[2 * Bits[4]] /\ 4 * Pow2[2 * Bits[4]] = Undef /\ Undef \in Nat /\ Half(T) \in Nat \ {0} OBVIOUS
<1>4. Pow2[2 * Bits[4]] \in Nat BY WidthFacts, PowNat DEF PowTop
<1>5. z < Undef /\ -z < Undef
    <2> HIDE TypeFacts
    <2> QED BY <1>1, <1>2, <1>3, <1>4
<1> HIDE TypeFacts
<1> QED BY <1>1, <1>3, <1>5

\* A result that its type holds is C's result.
LEMMA ArithFits ==
    ASSUME NEW T \in IntTypes, NEW z \in Values(T)
    PROVE  Arith(T, z) = z
<1>1. CASE T.sign BY <1>1 DEF Arith
<1>2. CASE ~T.sign
    <2>1. z \in Int /\ 0 <= z /\ z <= 2 * Half(T) - 1 BY <1>2, TypeFacts, ValueFacts
    <2>2. z = 0 * Pow2[Width(T)] + z /\ z \in 0..(Pow2[Width(T)] - 1) /\ Pow2[Width(T)] \in Nat \ {0}
        BY <2>1, TypeFacts
    <2>3. z % Pow2[Width(T)] = z BY <2>1, <2>2, DivUnique
    <2> QED BY <1>2, <2>3 DEF Arith
<1> QED BY <1>1, <1>2

\* Unsigned arithmetic wraps.
LEMMA ArithWraps ==
    ASSUME NEW T \in IntTypes, ~T.sign, NEW z \in Int
    PROVE  Arith(T, z) = z % Pow2[Width(T)] /\ Arith(T, z) \in Values(T)
<1>1. Pow2[Width(T)] \in Nat \ {0} /\ Pow2[Width(T)] = 2 * Half(T) /\ Half(T) \in Nat BY TypeFacts
<1>2. z % Pow2[Width(T)] \in 0..(Pow2[Width(T)] - 1) BY <1>1, DivMod
<1>3. z % Pow2[Width(T)] \in Values(T) BY <1>1, <1>2, TypeFacts
<1> QED BY <1>3 DEF Arith

\* A conversion yields a value, and keeps those there are.
LEMMA ConvertValue ==
    ASSUME NEW T \in IntTypes, NEW z \in Int, z # Undef
    PROVE  Convert(T, z) \in Values(T)
<1> DEFINE u == z % Pow2[Width(T)]
<1>1. Pow2[Width(T)] \in Nat \ {0} /\ Pow2[Width(T)] = 2 * Half(T) /\ Half(T) \in Nat BY TypeFacts
<1>2. u \in 0..(2 * Half(T) - 1) BY <1>1, DivMod
<1>3. Convert(T, z) = IF T.sign /\ u > MaxOf(T) THEN u - Pow2[Width(T)] ELSE u BY DEF Convert
<1> HIDE DEF u
<1> QED BY <1>1, <1>2, <1>3, TypeFacts

\* A conversion keeps a value that the new type holds,
LEMMA ConvertFits ==
    ASSUME NEW T \in IntTypes, NEW z \in Values(T)
    PROVE  Convert(T, z) = z
<1> DEFINE u == z % Pow2[Width(T)]
<1>1. Pow2[Width(T)] \in Nat \ {0} /\ Pow2[Width(T)] = 2 * Half(T) /\ Half(T) \in Nat BY TypeFacts
<1>2. z \in Int /\ MinOf(T) <= z /\ z <= MaxOf(T) /\ z # Undef BY ValueFacts
<1>3. z >= 0 => u = z
    <2> SUFFICES ASSUME z >= 0 PROVE u = z OBVIOUS
    <2>1. z \in 0..(Pow2[Width(T)] - 1) BY <1>1, <1>2, TypeFacts
    <2>2. z = 0 * Pow2[Width(T)] + z BY <1>1, <1>2
    <2> QED BY <1>1, <1>2, <2>1, <2>2, DivUnique
<1>4. z < 0 => u = z + Pow2[Width(T)]
    <2> SUFFICES ASSUME z < 0 PROVE u = z + Pow2[Width(T)] OBVIOUS
    <2>1. z + Pow2[Width(T)] \in 0..(Pow2[Width(T)] - 1) BY <1>1, <1>2, TypeFacts
    <2>2. z = (-1) * Pow2[Width(T)] + (z + Pow2[Width(T)]) BY <1>1, <1>2
    <2> QED BY <1>1, <1>2, <2>1, <2>2, DivUnique
<1>5. Convert(T, z) = IF T.sign /\ u > MaxOf(T) THEN u - Pow2[Width(T)] ELSE u BY <1>2 DEF Convert
<1> HIDE DEF u
<1> QED BY <1>1, <1>2, <1>3, <1>4, <1>5, TypeFacts

\* What is reduced to the width of a larger type first converts to the same value.
LEMMA ModMod ==
    ASSUME NEW z \in Int, NEW a \in Nat, NEW b \in 0..PowTop, a <= b
    PROVE  (z % Pow2[b]) % Pow2[a] = z % Pow2[a]
<1> DEFINE B == Pow2[b]
           A == Pow2[a]
           C == Pow2[b - a]
<1>1. A \in Nat \ {0} /\ B \in Nat \ {0} /\ C \in Nat \ {0} BY WidthFacts, PowNat
<1>2. B = A * C
    <2>1. b - a \in Nat /\ a + (b - a) = b BY WidthFacts
    <2> QED BY <2>1, WidthFacts, PowAdd
<1> HIDE DEF A, B, C
<1>3. z = (z \div B) * B + (z % B) /\ z \div B \in Int /\ z % B \in Int BY <1>1, DivMod
<1> DEFINE q == z \div B
           r == z % B
<1>4. r = (r \div A) * A + (r % A) /\ r \div A \in Int /\ r % A \in 0..(A - 1) BY <1>1, <1>3, DivMod
<1> DEFINE p == r \div A
           s == r % A
<1> HIDE DEF q, r, p, s
<1>5. q \in Int /\ p \in Int /\ s \in 0..(A - 1) /\ z = q * (A * C) + (p * A + s)
    BY <1>2, <1>3, <1>4 DEF q, r, p, s
<1>6. q * (A * C) + (p * A + s) = (q * C + p) * A + s /\ q * C + p \in Int BY <1>1, <1>5, SMT
<1>7. z % A = s BY <1>1, <1>5, <1>6, DivUnique
<1> QED BY <1>7 DEF s, r, A, B

\* and one that went through a type at least as wide comes out the same.
LEMMA ConvertMod ==
    ASSUME NEW T \in IntTypes, NEW S \in IntTypes, NEW z \in Int, z # Undef, Width(T) <= Width(S)
    PROVE  Convert(T, z % Pow2[Width(S)]) = Convert(T, z) /\ z % Pow2[Width(S)] \in Int
<1> DEFINE r == z % Pow2[Width(S)]
<1>1. Pow2[Width(S)] \in Nat \ {0} /\ Pow2[Width(S)] = 2 * Half(S) BY TypeFacts
<1>2. r \in 0..(2 * Half(S) - 1) BY <1>1, DivMod
<1>3. r # Undef
    <2>1. 2 * Half(S) <= Pow2[2 * Bits[4]] /\ 4 * Pow2[2 * Bits[4]] = Undef /\ Half(S) \in Nat BY TypeFacts
    <2>2. Pow2[2 * Bits[4]] \in Nat BY WidthFacts, PowNat DEF PowTop
    <2> HIDE DEF r
    <2> QED BY <1>2, <2>1, <2>2
<1>4. Width(T) \in Nat /\ Width(S) \in 0..PowTop BY TypeFacts, WidthFacts DEF PowTop
<1>5. r % Pow2[Width(T)] = z % Pow2[Width(T)] BY <1>4, ModMod
<1> HIDE DEF r
<1>6. Convert(T, r) = Convert(T, z) BY <1>3, <1>5 DEF Convert
<1> QED BY <1>2, <1>6, TypeFacts DEF r

\* Promotion keeps the values; chars and shorts are computed with as ints, and an
\* int holds sums of two and products of two signed ones.
LEMMA PromoteFacts ==
    ASSUME NEW T \in IntTypes
    PROVE  /\ Promote(T) \in IntTypes /\ Values(T) \subseteq Values(Promote(T))
           /\ Width(Promote(T)) >= Bits[3] /\ Width(T) <= Width(Promote(T))
           /\ T.size >= 3 => Promote(T) = T
           /\ T.size < 3 => /\ Promote(T) = eInt /\ Promote(T).sign
                            /\ 4 * Half(T) <= Half(eInt)
                            /\ 2 * (Half(T) * Half(T)) <= Half(eInt)
<1>0. T.size \in 1..4 /\ T.sign \in BOOLEAN BY DEF IntTypes
<1>1. CASE T.size >= 3
    <2>1. Promote(T) = T BY <1>0, <1>1 DEF Promote
    <2>2. Width(T) >= Bits[3] BY <1>0, <1>1, WidthFacts DEF Width
    <2>3. Width(T) \in Nat BY TypeFacts
    <2> QED BY <1>1, <2>1, <2>2, <2>3, <1>0
<1>2. CASE T.size < 3
    <2>1. Promote(T) = eInt /\ eInt \in IntTypes /\ eInt.sign /\ eInt.size = 3
        BY <1>2 DEF Promote, eInt, IntTypes
    <2>2. Width(eInt) = Bits[3] BY <2>1 DEF Width
    <2> DEFINE w == Width(T)
               v == Bits[3]
    <2>3. w \in Nat \ {0} /\ v \in Nat /\ w + 2 <= v /\ 2 * w <= v /\ v \in 0..PowTop
        BY <1>0, <1>2, WidthFacts DEF Width, PowTop
    <2>4. Half(T) \in Nat \ {0} /\ Half(eInt) \in Nat \ {0} /\ Half(eInt) = Pow2[v - 1] /\ Pow2[v] = 2 * Half(eInt)
        BY <2>1, <2>2, TypeFacts DEF Half
    <2>5. Half(T) = Pow2[w - 1] /\ Pow2[w] = 2 * Half(T) BY TypeFacts DEF Half
    <2> HIDE DEF w, v
    <2>6. Pow2[w + 1] = 4 * Half(T)
        <3>1. w \in 0..(PowTop - 1) BY <2>3, WidthFacts
        <3>2. Pow2[w + 1] = 2 * Pow2[w] BY <3>1, Pow2Def
        <3> QED BY <2>4, <2>5, <3>2
    <2>7. Pow2[w + 1] <= Pow2[v - 1]
        <3>1. CASE w + 1 = v - 1 BY <3>1, <2>4, <2>6
        <3>2. CASE w + 1 < v - 1
            <4>1. v - 1 \in 0..PowTop /\ w + 1 \in Nat BY <2>3, WidthFacts
            <4>2. 2 * Pow2[w + 1] <= Pow2[v - 1] BY <3>2, <4>1, PowUp
            <4> QED BY <4>2, <2>4, <2>6
        <3> QED BY <2>3, <3>1, <3>2
    <2>8. Pow2[2 * w] = 4 * (Half(T) * Half(T))
        <3>1. w + w = 2 * w /\ w + w <= PowTop BY <2>3, WidthFacts
        <3>2. Pow2[2 * w] = Pow2[w] * Pow2[w] BY <2>3, <3>1, PowAdd
        <3>3. 2 * Half(T) * (2 * Half(T)) = 4 * (Half(T) * Half(T)) BY <2>4, SMT
        <3> QED BY <2>5, <3>2, <3>3
    <2>9. Half(T) * Half(T) \in Nat BY <2>4, MulNat
    <2>10. Pow2[2 * w] <= Pow2[v]
        <3>1. CASE 2 * w = v BY <3>1, <2>4
        <3>2. CASE 2 * w < v
            <4>1. 2 * w \in Nat BY <2>3
            <4>2. 2 * Pow2[2 * w] <= Pow2[v] BY <3>2, <4>1, <2>3, PowUp
            <4> QED BY <4>2, <2>4, <2>8, <2>9
        <3> QED BY <2>3, <3>1, <3>2
    <2>11. 2 * (Half(T) * Half(T)) <= Half(eInt) BY <2>4, <2>8, <2>9, <2>10
    <2>12. 4 * Half(T) <= Half(eInt) BY <2>4, <2>6, <2>7
    <2>13. Values(T) \subseteq Values(eInt) BY <2>1, <2>4, <2>12, TypeFacts
    <2>14. Width(T) <= Width(eInt) /\ Width(eInt) >= Bits[3] BY <2>2, <2>3, WidthFacts DEF w, v
    <2> QED BY <1>0, <1>2, <2>1, <2>11, <2>12, <2>13, <2>14
<1> QED BY <1>0, <1>1, <1>2

-----------------------------------------------------------------------------
(* Scalar wrappers. *)

LEMMA UndefFacts == Undef \in Nat /\ 0 # Undef /\ 1 # Undef
<1>1. eInt \in IntTypes BY DEF eInt, IntTypes
<1>2. 4 * Pow2[2 * Bits[4]] = Undef /\ Undef \in Nat BY <1>1, TypeFacts
<1>3. Pow2[2 * Bits[4]] \in Nat \ {0} BY WidthFacts, PowNat DEF PowTop
<1> QED BY <1>2, <1>3

\* What is between the products of two values is not Undef.
LEMMA NotUndef ==
    ASSUME NEW z \in Int, z <= 2 * Pow2[2 * Bits[4]]
    PROVE  z # Undef
<1>1. eInt \in IntTypes BY DEF eInt, IntTypes
<1>2. 4 * Pow2[2 * Bits[4]] = Undef BY <1>1, TypeFacts
<1>3. Pow2[2 * Bits[4]] \in Nat \ {0} BY WidthFacts, PowNat DEF PowTop
<1> QED BY <1>2, <1>3

\* The magnitude of a product is at most the product of the magnitudes.
LEMMA ProductBound ==
    ASSUME NEW a \in Nat, NEW x \in Int, NEW y \in Int, -a <= x, x <= a, -a <= y, y <= a
    PROVE  x * y \in Int /\ -(a * a) <= x * y /\ x * y <= a * a
<1>1. \A u, v \in 0..a : u * v \in 0..(a * a)
    <2> SUFFICES ASSUME NEW u \in 0..a, NEW v \in 0..a PROVE u * v \in 0..(a * a) OBVIOUS
    <2>1. u * v \in Nat /\ a * a \in Nat BY MulNat
    <2>2. u * v <= a * v BY MulUp
    <2>3. v * a <= a * a BY MulUp
    <2>4. a * v = v * a /\ a * v \in Nat BY SMT
    <2> QED BY <2>1, <2>2, <2>3, <2>4
<1>2. CASE x >= 0 /\ y >= 0 BY <1>1, <1>2, MulNat
<1>3. CASE x >= 0 /\ y < 0
    <2>1. x * (-y) \in 0..(a * a) BY <1>1, <1>3
    <2>2. x * y = -(x * (-y)) BY SMT
    <2> QED BY <2>1, <2>2, MulNat
<1>4. CASE x < 0 /\ y >= 0
    <2>1. (-x) * y \in 0..(a * a) BY <1>1, <1>4
    <2>2. x * y = -((-x) * y) BY SMT
    <2> QED BY <2>1, <2>2, MulNat
<1>5. CASE x < 0 /\ y < 0
    <2>1. (-x) * (-y) \in 0..(a * a) BY <1>1, <1>5
    <2>2. x * y = (-x) * (-y) BY SMT
    <2> QED BY <2>1, <2>2, MulNat
<1> QED BY <1>2, <1>3, <1>4, <1>5

\* The mathematical results are integers, none of them Undef.
LEMMA ResultFacts ==
    ASSUME NEW T \in IntTypes, NEW x \in Values(T), NEW y \in Values(T)
    PROVE  /\ -x \in Int /\ -x # Undef
           /\ x + y \in Int /\ x + y # Undef
           /\ x - y \in Int /\ x - y # Undef
           /\ x * y \in Int /\ x * y # Undef
           /\ T.sign => x * y <= Half(T) * Half(T) /\ -(Half(T) * Half(T)) <= x * y
<1> DEFINE h == Half(T)
<1>1. h \in Nat \ {0} /\ MinOf(T) = (IF T.sign THEN -h ELSE 0) /\ MaxOf(T) = (IF T.sign THEN h - 1 ELSE 2 * h - 1)
      /\ h * h <= Pow2[2 * Bits[4]] /\ 2 * h <= Pow2[2 * Bits[4]] /\ 2 * h * (2 * h) <= Pow2[2 * Bits[4]]
    BY TypeFacts
<1>2. x \in Int /\ y \in Int /\ MinOf(T) <= x /\ x <= MaxOf(T) /\ MinOf(T) <= y /\ y <= MaxOf(T)
    BY ValueFacts
<1>3. Pow2[2 * Bits[4]] \in Nat \ {0} BY WidthFacts, PowNat DEF PowTop
<1> HIDE DEF h
<1>4. T.sign => -h <= x /\ x <= h /\ -h <= y /\ y <= h BY <1>1, <1>2
<1>5. -(2 * h) <= x /\ x <= 2 * h /\ -(2 * h) <= y /\ y <= 2 * h /\ 2 * h \in Nat BY <1>1, <1>2
<1>6. x * y \in Int /\ x * y <= 2 * h * (2 * h) BY <1>2, <1>5, ProductBound
<1>7. T.sign => x * y <= h * h /\ -(h * h) <= x * y BY <1>1, <1>2, <1>4, ProductBound
<1>8. 2 * h * (2 * h) \in Nat BY <1>5, MulNat
<1>9. x * y <= 2 * Pow2[2 * Bits[4]] BY <1>1, <1>3, <1>6, <1>8
<1>10. /\ -x \in Int /\ -x <= 2 * Pow2[2 * Bits[4]]
       /\ x + y \in Int /\ x + y <= 2 * Pow2[2 * Bits[4]]
       /\ x - y \in Int /\ x - y <= 2 * Pow2[2 * Bits[4]]
    BY <1>1, <1>2, <1>3, <1>5
<1> QED BY <1>6, <1>7, <1>9, <1>10, NotUndef DEF h

\* An operation that is defined in the promoted type converts to what its result does.
LEMMA Computed ==
    ASSUME NEW T \in IntTypes, NEW z \in Int, z # Undef, z \in Values(Promote(T)) \/ ~Promote(T).sign
    PROVE  Convert(T, Arith(Promote(T), z)) = Convert(T, z)
<1> DEFINE P == Promote(T)
<1>1. P \in IntTypes /\ Width(T) <= Width(P) BY PromoteFacts
<1>2. CASE z \in Values(P) BY <1>1, <1>2, ArithFits
<1>3. CASE ~P.sign BY <1>1, <1>3, ArithWraps, ConvertMod
<1> QED BY <1>2, <1>3

\* A type is signed and narrow, unsigned and narrow, or computed in itself.
LEMMA SumsFit ==
    ASSUME NEW T \in IntTypes, T.size < 3, NEW x \in Values(T), NEW y \in Values(T)
    PROVE  /\ -x \in Values(Promote(T)) /\ x + y \in Values(Promote(T)) /\ x - y \in Values(Promote(T))
           /\ MaxOf(T) - y \in Values(Promote(T)) /\ MinOf(T) - y \in Values(Promote(T))
           /\ MaxOf(T) + y \in Values(Promote(T)) /\ MinOf(T) + y \in Values(Promote(T))
           /\ T.sign => x * y \in Values(Promote(T))
<1> DEFINE h == Half(T)
           k == Half(eInt)
<1>1. h \in Nat \ {0} /\ MinOf(T) = (IF T.sign THEN -h ELSE 0) /\ MaxOf(T) = (IF T.sign THEN h - 1 ELSE 2 * h - 1)
    BY TypeFacts
<1>2. Promote(T) = eInt /\ eInt.sign /\ eInt \in IntTypes /\ 4 * h <= k /\ 2 * (h * h) <= k BY PromoteFacts
<1>3. k \in Nat \ {0} /\ Values(eInt) = {z \in Int : -k <= z /\ z <= k - 1} BY <1>2, TypeFacts
<1>4. x \in Int /\ y \in Int /\ MinOf(T) <= x /\ x <= MaxOf(T) /\ MinOf(T) <= y /\ y <= MaxOf(T)
    BY ValueFacts
<1>5. x * y \in Int /\ (T.sign => x * y <= h * h /\ -(h * h) <= x * y) BY ResultFacts
<1>6. h * h \in Nat \ {0}
    <2>1. 1 * h <= h * h BY <1>1, MulUp
    <2> QED BY <1>1, <2>1, MulNat
<1> HIDE DEF h, k
<1>7. /\ -k <= -x /\ -x <= k - 1 /\ -k <= x + y /\ x + y <= k - 1 /\ -k <= x - y /\ x - y <= k - 1
      /\ -k <= MaxOf(T) - y /\ MaxOf(T) - y <= k - 1 /\ -k <= MinOf(T) - y /\ MinOf(T) - y <= k - 1
      /\ -k <= MaxOf(T) + y /\ MaxOf(T) + y <= k - 1 /\ -k <= MinOf(T) + y /\ MinOf(T) + y <= k - 1
    BY <1>1, <1>2, <1>3, <1>4
<1>8. T.sign => -k <= x * y /\ x * y <= k - 1 BY <1>2, <1>3, <1>5, <1>6
<1>9. MaxOf(T) \in Int /\ MinOf(T) \in Int BY <1>1
<1> QED BY <1>2, <1>3, <1>4, <1>5, <1>7, <1>8, <1>9

\* A wrapper of a narrow type ignores its test.
LEMMA GuardedIf ==
    ASSUME NEW form, NEW T \in IntTypes, NEW c \in {0, 1}, NEW x, NEW e
    PROVE  CIf(Guarded(form, T, c), x, e) = IF T.size >= 3 /\ c = 1 THEN x ELSE e
    BY UndefFacts DEF CIf, Guarded

LEMMA SizeCases == \A T \in IntTypes : T.size \in Nat /\ (T.size < 3 \/ T.size >= 3)
    BY DEF IntTypes

\* The scalar wrappers mean the guarded operations, one lemma for each operator; Sub
\* needs the bits of its mask and comes after them.
LEMMA MinusMeans ==
    ASSUME NEW form, NEW T \in IntTypes, NEW x \in Values(T), NEW y
    PROVE  ScalarWrapper(form, "Minus", T, x, y) = Meaning("Minus", T, x, y)
<1>1. -x \in Int /\ -x # Undef /\ x \in Int BY ValueFacts
<1>2. Meaning("Minus", T, x, y) = Exact(T, -x, x) BY DEF Meaning
<1>3. CASE T.sign
    <2> DEFINE c == Test({}, x = MinOf(T))
    <2>1. c \in {0, 1} /\ (c = 1 <=> x = MinOf(T)) BY DEF Test
    <2>2. ScalarWrapper(form, "Minus", T, x, y) =
              IF T.size >= 3 /\ c = 1 THEN x ELSE Convert(T, Arith(Promote(T), -x))
        <3> HIDE DEF c
        <3>1. ScalarWrapper(form, "Minus", T, x, y) =
                  CIf(Guarded(form, T, c), x, Convert(T, Arith(Promote(T), -x)))
            BY <1>3 DEF ScalarWrapper, unary_minus_s, c
        <3> QED BY <2>1, <3>1, GuardedIf
    <2> HIDE DEF c
    <2>3. CASE T.size < 3
        <3>1. Convert(T, Arith(Promote(T), -x)) = Convert(T, -x) BY <1>1, <2>3, SumsFit, Computed
        <3> QED BY <1>2, <2>2, <2>3, <3>1, SizeCases DEF Exact
    <2>4. CASE T.size >= 3
        <3>1. -x \in Values(T) <=> x # MinOf(T) BY <1>3, TypeFacts, ValueFacts
        <3>2. -x \in Values(T) => Convert(T, Arith(Promote(T), -x)) = -x
            BY <2>4, PromoteFacts, ArithFits, ConvertFits
        <3> QED BY <1>2, <1>3, <2>1, <2>2, <2>4, <3>1, <3>2 DEF Exact
    <2> QED BY <2>3, <2>4, SizeCases
<1>4. CASE ~T.sign
    <2>1. ScalarWrapper(form, "Minus", T, x, y) = Convert(T, Arith(Promote(T), -x))
        BY <1>4 DEF ScalarWrapper, unary_minus_u
    <2>2. -x \in Values(Promote(T)) \/ ~Promote(T).sign BY <1>4, SumsFit, PromoteFacts, SizeCases
    <2>3. Convert(T, Arith(Promote(T), -x)) = Convert(T, -x) BY <1>1, <2>2, Computed
    <2> QED BY <1>2, <1>4, <2>1, <2>3 DEF Exact
<1> QED BY <1>3, <1>4

LEMMA AddMeans ==
    ASSUME NEW form, NEW T \in IntTypes, NEW x \in Values(T), NEW y \in Values(T)
    PROVE  ScalarWrapper(form, "Add", T, x, y) = Meaning("Add", T, x, y)
<1> DEFINE P == Promote(T)
<1>1. x + y \in Int /\ x + y # Undef /\ x \in Int BY ResultFacts, ValueFacts
<1>2. Meaning("Add", T, x, y) = Exact(T, x + y, x) BY DEF Meaning
<1>3. CASE T.sign
    <2> DEFINE hi == Arith(P, MaxOf(T) - y)
               lo == Arith(P, MinOf(T) - y)
               over == IF x > 0 /\ y > 0 THEN Test({hi}, x > hi) ELSE 0
               under == IF x < 0 /\ y < 0 THEN Test({lo}, x < lo) ELSE 0
               c == COr(over, under)
    <2>1. /\ y > 0 => hi = MaxOf(T) - y /\ hi # Undef
          /\ y < 0 => lo = MinOf(T) - y /\ lo # Undef
        <3>1. CASE T.size < 3
            <4>1. MaxOf(T) - y \in Values(P) /\ MinOf(T) - y \in Values(P) /\ P \in IntTypes
                BY <3>1, SumsFit, PromoteFacts
            <4> QED BY <4>1, ArithFits, ValueFacts
        <3>2. CASE T.size >= 3
            <4>1. P = T BY <3>2, PromoteFacts
            <4>2. /\ y > 0 => MaxOf(T) - y \in Values(T)
                  /\ y < 0 => MinOf(T) - y \in Values(T)
                BY <1>3, TypeFacts, ValueFacts
            <4> QED BY <4>1, <4>2, ArithFits, ValueFacts
        <3> QED BY <3>1, <3>2, SizeCases
    <2> HIDE DEF hi, lo
    <2>2. over = (IF x > 0 /\ y > 0 /\ x > MaxOf(T) - y THEN 1 ELSE 0)
        BY <2>1 DEF Test
    <2>3. under = (IF x < 0 /\ y < 0 /\ x < MinOf(T) - y THEN 1 ELSE 0)
        BY <2>1 DEF Test
    <2> HIDE DEF over, under
    <2>4. c \in {0, 1} /\ (c = 1 <=> \/ x > 0 /\ y > 0 /\ x > MaxOf(T) - y
                                     \/ x < 0 /\ y < 0 /\ x < MinOf(T) - y)
        BY <2>2, <2>3 DEF COr
    <2>5. ScalarWrapper(form, "Add", T, x, y) =
              CIf(Guarded(form, T, c), x, Convert(T, Arith(P, x + y)))
        BY <1>3 DEF ScalarWrapper, add_s_s, c, over, under, hi, lo
    <2> HIDE DEF c
    <2>6. ScalarWrapper(form, "Add", T, x, y) =
              IF T.size >= 3 /\ c = 1 THEN x ELSE Convert(T, Arith(P, x + y))
        BY <2>4, <2>5, GuardedIf
    <2>7. CASE T.size < 3
        <3>1. Convert(T, Arith(P, x + y)) = Convert(T, x + y) BY <1>1, <2>7, SumsFit, Computed
        <3> QED BY <1>2, <2>6, <2>7, <3>1, SizeCases DEF Exact
    <2>8. CASE T.size >= 3
        <3>1. x + y \in Values(T) <=> c # 1 BY <1>3, <2>4, TypeFacts, ValueFacts
        <3>2. x + y \in Values(T) => Convert(T, Arith(P, x + y)) = x + y
            BY <2>8, PromoteFacts, ArithFits, ConvertFits
        <3> HIDE DEF P
        <3> QED BY <1>2, <1>3, <2>4, <2>6, <2>8, <3>1, <3>2 DEF Exact
    <2> QED BY <2>7, <2>8, SizeCases
<1>4. CASE ~T.sign
    <2>1. ScalarWrapper(form, "Add", T, x, y) = Convert(T, Arith(P, x + y))
        BY <1>4 DEF ScalarWrapper, add_u_u
    <2>2. x + y \in Values(P) \/ ~P.sign BY <1>4, SumsFit, PromoteFacts, SizeCases
    <2>3. Convert(T, Arith(P, x + y)) = Convert(T, x + y) BY <1>1, <2>2, Computed
    <2> QED BY <1>2, <1>4, <2>1, <2>3 DEF Exact
<1> QED BY <1>3, <1>4

\* The test of a product divides the limit instead of multiplying; d and e are the
\* magnitudes of the factors, m that of the limit.
LEMMA QuotientOf ==
    ASSUME NEW x \in Int, NEW y \in Int, y # 0
    PROVE  /\ Magnitude(x) \in Nat /\ Magnitude(y) \in Nat \ {0}
           /\ Quotient(x, y) = (IF (x < 0) # (y < 0) THEN -(Magnitude(x) \div Magnitude(y))
                                ELSE Magnitude(x) \div Magnitude(y))
           /\ Magnitude(x) \div Magnitude(y) \in 0..Magnitude(x)
           /\ Quotient(x, y) \in Int
<1> DEFINE a == Magnitude(x)
           b == Magnitude(y)
           k == a \div b
<1>1. a \in Nat /\ b \in Nat \ {0} BY DEF Magnitude
<1>2. Quotient(x, y) = IF (x < 0) # (y < 0) THEN -k ELSE k BY DEF Quotient
<1> HIDE DEF a, b
<1>3. k \in 0..a BY <1>1, DivNat
<1> HIDE DEF k
<1>4. Quotient(x, y) \in Int BY <1>1, <1>2, <1>3
<1> QED BY <1>1, <1>2, <1>3, <1>4 DEF a, b, k

\* The quotient of two values is a value but for the least one and -1; the remainder
\* is between 0 and the dividend.
LEMMA QuotientFacts ==
    ASSUME NEW T \in IntTypes, NEW x \in Values(T), NEW y \in Values(T), y # 0
    PROVE  /\ Quotient(x, y) \in Int /\ x - y * Quotient(x, y) \in Values(T)
           /\ Quotient(x, y) \in Values(T) <=> ~(T.sign /\ x = MinOf(T) /\ y = -1)
<1> DEFINE a == Magnitude(x)
           b == Magnitude(y)
           k == a \div b
           q == Quotient(x, y)
           h == Half(T)
<1>1. x \in Int /\ y \in Int /\ MinOf(T) <= x /\ x <= MaxOf(T) /\ MinOf(T) <= y /\ y <= MaxOf(T)
    BY ValueFacts
<1>2. h \in Nat \ {0} /\ MinOf(T) = (IF T.sign THEN -h ELSE 0) /\ MaxOf(T) = (IF T.sign THEN h - 1 ELSE 2 * h - 1)
      /\ Values(T) = {z \in Int : MinOf(T) <= z /\ z <= MaxOf(T)}
    BY TypeFacts
<1>3. /\ a = (IF x < 0 THEN -x ELSE x) /\ b = (IF y < 0 THEN -y ELSE y) /\ a \in Nat /\ b \in Nat \ {0}
      /\ q = (IF (x < 0) # (y < 0) THEN -k ELSE k) /\ k \in 0..a /\ q \in Int
    <2>1. a = (IF x < 0 THEN -x ELSE x) /\ b = (IF y < 0 THEN -y ELSE y) BY DEF Magnitude
    <2>2. a \in Nat /\ b \in Nat \ {0} /\ q = (IF (x < 0) # (y < 0) THEN -k ELSE k) /\ k \in 0..a /\ q \in Int
        BY <1>1, QuotientOf
    <2> QED BY <2>1, <2>2
<1> HIDE DEF a, b, q, h
<1>4. a = k * b + (a % b) /\ a % b \in 0..(b - 1)
    <2>1. a \in Int /\ b \in Nat \ {0} BY <1>3
    <2> QED BY <2>1, DivMod
<1> HIDE DEF k
<1>5. k * b \in 0..a
    <2>1. k * b \in Nat BY <1>3, MulNat
    <2> QED BY <1>3, <1>4, <2>1
<1>6. y * q = IF x < 0 THEN -(k * b) ELSE k * b
    <2>1. CASE y < 0 /\ x < 0
        <3>1. y * k = -(k * (-y)) BY <1>1, <1>3, SMT
        <3> QED BY <1>3, <2>1, <3>1
    <2>2. CASE y < 0 /\ ~(x < 0)
        <3>1. y * (-k) = k * (-y) BY <1>1, <1>3, SMT
        <3> QED BY <1>3, <2>2, <3>1
    <2>3. CASE ~(y < 0) /\ x < 0
        <3>1. y * (-k) = -(k * y) BY <1>1, <1>3, SMT
        <3> QED BY <1>3, <2>3, <3>1
    <2>4. CASE ~(y < 0) /\ ~(x < 0)
        <3>1. y * k = k * y BY <1>1, <1>3, SMT
        <3> QED BY <1>3, <2>4, <3>1
    <2> QED BY <2>1, <2>2, <2>3, <2>4
<1>7. x - y * q \in Values(T)
    <2> DEFINE p == k * b
    <2>1. p \in Nat /\ p <= a BY <1>3, <1>5
    <2> HIDE DEF p
    <2>2. y * q = IF x < 0 THEN -p ELSE p BY <1>6 DEF p
    <2>3. CASE x < 0
        <3>1. x - y * q = x + p /\ x <= x + p /\ x + p <= 0 /\ x + p \in Int BY <1>1, <1>3, <2>1, <2>2, <2>3
        <3> QED BY <1>1, <1>2, <3>1
    <2>4. CASE ~(x < 0)
        <3>1. x - y * q = x - p /\ x - p <= x /\ 0 <= x - p /\ x - p \in Int BY <1>1, <1>3, <2>1, <2>2, <2>4
        <3> QED BY <1>1, <1>2, <3>1
    <2> QED BY <2>3, <2>4
<1>8. b # 1 => 2 * k <= a
    <2> SUFFICES ASSUME b # 1 PROVE 2 * k <= a OBVIOUS
    <2>1. 2 * k <= b * k BY <1>3, MulUp
    <2>2. b * k = k * b BY <1>3, SMT
    <2> QED BY <1>3, <1>5, <2>1, <2>2
<1>9. b = 1 => k = a
    <2> SUFFICES ASSUME b = 1 PROVE k = a OBVIOUS
    <2>1. k * 1 = k BY <1>3
    <2> QED BY <1>3, <1>4, <2>1
<1>10. q \in Values(T) <=> ~(T.sign /\ x = MinOf(T) /\ y = -1)
    <2>1. CASE T.sign
        <3>1. a <= h /\ (a = h <=> x = -h) BY <1>1, <1>2, <1>3, <2>1
        <3>2. q \in Values(T) <=> -h <= q /\ q <= h - 1 BY <1>2, <1>3, <2>1
        <3>3. CASE b # 1 BY <1>1, <1>2, <1>3, <1>8, <2>1, <3>1, <3>2, <3>3
        <3>4. CASE b = 1 BY <1>1, <1>2, <1>3, <1>9, <2>1, <3>1, <3>2, <3>4
        <3> QED BY <3>3, <3>4
    <2>2. CASE ~T.sign BY <1>1, <1>2, <1>3, <2>2
    <2> QED BY <2>1, <2>2
<1> QED BY <1>3, <1>7, <1>10 DEF q

\* The four tests of a product compare one factor with a limit divided by the other.
LEMMA ProductTest ==
    ASSUME NEW T \in IntTypes, T.sign, NEW x \in Values(T), NEW y \in Values(T)
    PROVE  /\ x > 0 /\ y > 0 => (x > Quotient(MaxOf(T), y) <=> x * y \notin Values(T))
           /\ x > 0 /\ y <= 0 => (y < Quotient(MinOf(T), x) <=> x * y \notin Values(T))
           /\ x <= 0 /\ y > 0 => (x < Quotient(MinOf(T), y) <=> x * y \notin Values(T))
           /\ x < 0 /\ y <= 0 => (y < Quotient(MaxOf(T), x) <=> x * y \notin Values(T))
           /\ x = 0 => x * y \in Values(T)
<1> DEFINE h == Half(T)
           max == MaxOf(T)
           min == MinOf(T)
<1>1. h \in Nat \ {0} /\ min = -h /\ max = h - 1 /\ max \in Nat
      /\ Values(T) = {z \in Int : min <= z /\ z <= max}
    BY TypeFacts
<1>2. x \in Int /\ y \in Int BY ValueFacts
<1> HIDE DEF h, max, min
<1>3. x * y \in Int /\ (x * y \notin Values(T) <=> (x * y < -h \/ x * y > h - 1)) BY <1>1, <1>2
<1>4. \A d \in Int : d > 0 => /\ Quotient(max, d) = max \div d
                              /\ Quotient(min, d) = -(h \div d)
    <2> SUFFICES ASSUME NEW d \in Int, d > 0
                 PROVE  Quotient(max, d) = max \div d /\ Quotient(min, d) = -(h \div d)
        OBVIOUS
    <2>1. Magnitude(max) = max /\ Magnitude(min) = h /\ Magnitude(d) = d BY <1>1 DEF Magnitude
    <2> QED BY <1>1, <2>1 DEF Quotient
<1>5. \A d \in Int : d < 0 => Quotient(max, d) = -(max \div (-d))
    <2> SUFFICES ASSUME NEW d \in Int, d < 0 PROVE Quotient(max, d) = -(max \div (-d)) OBVIOUS
    <2>1. Magnitude(max) = max /\ Magnitude(d) = -d BY <1>1 DEF Magnitude
    <2> QED BY <1>1, <2>1 DEF Quotient
<1>6. \A u, v \in Nat : u * v \in Nat BY MulNat
<1>7. x > 0 /\ y > 0 => (x > Quotient(max, y) <=> x * y \notin Values(T))
    <2> SUFFICES ASSUME x > 0, y > 0 PROVE x > Quotient(max, y) <=> x * y \notin Values(T) OBVIOUS
    <2>1. x > max \div y <=> x * y > max BY <1>1, <1>2, DivMax
    <2>2. x * y \in Nat BY <1>2, <1>6
    <2> QED BY <1>1, <1>2, <1>3, <1>4, <2>1, <2>2
<1>8. x > 0 /\ y <= 0 => (y < Quotient(min, x) <=> x * y \notin Values(T))
    <2> SUFFICES ASSUME x > 0, y <= 0 PROVE y < Quotient(min, x) <=> x * y \notin Values(T) OBVIOUS
    <2>1. -y > h \div x <=> (-y) * x > h /\ h \div x \in Int BY <1>1, <1>2, DivMax, DivMod
    <2>2. (-y) * x \in Nat /\ x * y = -((-y) * x) BY <1>2, <1>6, SMT
    <2>3. h \div x \in Int BY <1>1, <1>2, DivMod
    <2> QED BY <1>1, <1>2, <1>3, <1>4, <2>1, <2>2, <2>3
<1>9. x <= 0 /\ y > 0 => (x < Quotient(min, y) <=> x * y \notin Values(T))
    <2> SUFFICES ASSUME x <= 0, y > 0 PROVE x < Quotient(min, y) <=> x * y \notin Values(T) OBVIOUS
    <2>1. -x > h \div y <=> (-x) * y > h BY <1>1, <1>2, DivMax
    <2>2. (-x) * y \in Nat /\ x * y = -((-x) * y) BY <1>2, <1>6, SMT
    <2>3. h \div y \in Int BY <1>1, <1>2, DivMod
    <2> QED BY <1>1, <1>2, <1>3, <1>4, <2>1, <2>2, <2>3
<1>10. x < 0 /\ y <= 0 => (y < Quotient(max, x) <=> x * y \notin Values(T))
    <2> SUFFICES ASSUME x < 0, y <= 0 PROVE y < Quotient(max, x) <=> x * y \notin Values(T) OBVIOUS
    <2>1. -y > max \div (-x) <=> (-y) * (-x) > max BY <1>1, <1>2, DivMax
    <2>2. (-y) * (-x) \in Nat /\ x * y = (-y) * (-x) BY <1>2, <1>6, SMT
    <2>3. max \div (-x) \in Int BY <1>1, <1>2, DivMod
    <2> QED BY <1>1, <1>2, <1>3, <1>5, <2>1, <2>2, <2>3
<1>11. x = 0 => x * y \in Values(T)
    <2> SUFFICES ASSUME x = 0 PROVE x * y \in Values(T) OBVIOUS
    <2>1. 0 * y = 0 BY <1>2
    <2> QED BY <1>1, <2>1
<1> QED BY <1>7, <1>8, <1>9, <1>10, <1>11 DEF max, min

LEMMA MulMeans ==
    ASSUME NEW form, NEW T \in IntTypes, NEW x \in Values(T), NEW y \in Values(T)
    PROVE  ScalarWrapper(form, "Mul", T, x, y) = Meaning("Mul", T, x, y)
<1> DEFINE P == Promote(T)
<1>1. x * y \in Int /\ x * y # Undef /\ x \in Int /\ y \in Int BY ResultFacts, ValueFacts
<1>2. Meaning("Mul", T, x, y) = Exact(T, x * y, x) BY DEF Meaning
<1>3. CASE T.sign
    <2>0. P \in IntTypes /\ P.sign /\ Values(T) \subseteq Values(P) BY <1>3, PromoteFacts, SizeCases
    <2> DEFINE q(lim, d) == CDiv(P, lim, d)
               c == CASE x > 0  /\ y > 0  -> Test({q(MaxOf(T), y)}, x > q(MaxOf(T), y))
                      [] x > 0  /\ y <= 0 -> Test({q(MinOf(T), x)}, y < q(MinOf(T), x))
                      [] x <= 0 /\ y > 0  -> Test({q(MinOf(T), y)}, x < q(MinOf(T), y))
                      [] x < 0  /\ y <= 0 -> Test({q(MaxOf(T), x)}, y < q(MaxOf(T), x))
                      [] OTHER -> 0
    <2>1. ScalarWrapper(form, "Mul", T, x, y) = CIf(Guarded(form, T, c), x, Convert(T, Arith(P, x * y)))
        BY <1>3 DEF ScalarWrapper, mul_s_s
    <2>2. ASSUME NEW lim \in {MinOf(T), MaxOf(T)}, NEW d \in Values(T), d # 0, ~(lim = MinOf(T) /\ d = -1)
          PROVE  CDiv(P, lim, d) = Quotient(lim, d) /\ Quotient(lim, d) # Undef
        <3>1. lim \in Values(T) BY TypeFacts
        <3>2. Quotient(lim, d) \in Values(T) BY <2>2, <3>1, QuotientFacts
        <3>3. CDiv(P, lim, d) = Quotient(lim, d) BY <2>0, <2>2, <3>2, ArithFits DEF CDiv
        <3> QED BY <3>2, <3>3, ValueFacts
    <2>3. MinOf(T) # MaxOf(T) BY <1>3, TypeFacts
    <2>4. c \in {0, 1} /\ (c = 1 <=> x * y \notin Values(T))
        <3>1. CASE x > 0 /\ y > 0
            <4>1. c = Test({q(MaxOf(T), y)}, x > q(MaxOf(T), y)) BY <1>1, <3>1
            <4>2. CDiv(P, MaxOf(T), y) = Quotient(MaxOf(T), y) /\ Quotient(MaxOf(T), y) # Undef
                BY <1>1, <2>2, <2>3, <3>1
            <4> QED BY <1>3, <3>1, <4>1, <4>2, ProductTest DEF Test
        <3>2. CASE x > 0 /\ y <= 0
            <4>1. c = Test({q(MinOf(T), x)}, y < q(MinOf(T), x)) BY <1>1, <3>2
            <4>2. CDiv(P, MinOf(T), x) = Quotient(MinOf(T), x) /\ Quotient(MinOf(T), x) # Undef
                BY <1>1, <2>2, <2>3, <3>2
            <4> QED BY <1>3, <3>2, <4>1, <4>2, ProductTest DEF Test
        <3>3. CASE x <= 0 /\ y > 0
            <4>1. c = Test({q(MinOf(T), y)}, x < q(MinOf(T), y)) BY <1>1, <3>3
            <4>2. CDiv(P, MinOf(T), y) = Quotient(MinOf(T), y) /\ Quotient(MinOf(T), y) # Undef
                BY <1>1, <2>2, <2>3, <3>3
            <4> QED BY <1>3, <3>3, <4>1, <4>2, ProductTest DEF Test
        <3>4. CASE x < 0 /\ y <= 0
            <4>1. c = Test({q(MaxOf(T), x)}, y < q(MaxOf(T), x)) BY <1>1, <3>4
            <4>2. CDiv(P, MaxOf(T), x) = Quotient(MaxOf(T), x) /\ Quotient(MaxOf(T), x) # Undef
                BY <1>1, <2>2, <2>3, <3>4
            <4> QED BY <1>3, <3>4, <4>1, <4>2, ProductTest DEF Test
        <3>5. CASE x = 0 /\ y <= 0
            <4>1. c = 0 BY <1>1, <3>5
            <4> QED BY <1>3, <3>5, <4>1, ProductTest
        <3> QED BY <1>1, <3>1, <3>2, <3>3, <3>4, <3>5
    <2> HIDE DEF c
    <2>6. ScalarWrapper(form, "Mul", T, x, y) =
              IF T.size >= 3 /\ c = 1 THEN x ELSE Convert(T, Arith(P, x * y))
        BY <2>1, <2>4, GuardedIf
    <2>7. CASE T.size < 3
        <3>1. Convert(T, Arith(P, x * y)) = Convert(T, x * y) BY <1>1, <1>3, <2>7, SumsFit, Computed
        <3> QED BY <1>2, <2>6, <2>7, <3>1, SizeCases DEF Exact
    <2>8. CASE T.size >= 3
        <3>2. x * y \in Values(T) => Convert(T, Arith(P, x * y)) = x * y
            BY <2>8, PromoteFacts, ArithFits, ConvertFits
        <3> HIDE DEF P
        <3> QED BY <1>2, <1>3, <2>4, <2>6, <2>8, <3>2 DEF Exact
    <2> QED BY <2>7, <2>8, SizeCases
<1>4. CASE ~T.sign
    <2> DEFINE S == IF T.size = 4 THEN T ELSE eUInt
    <2>1. ScalarWrapper(form, "Mul", T, x, y) = Convert(T, Arith(S, x * y))
        BY <1>4 DEF ScalarWrapper, mul_u_u
    <2>2. S \in IntTypes /\ ~S.sign /\ Width(T) <= Width(S)
        <3>1. eUInt \in IntTypes /\ ~eUInt.sign /\ Width(eUInt) = Bits[3] BY DEF eUInt, IntTypes, Width
        <3>2. T.size \in 1..4 BY DEF IntTypes
        <3>3. T.size # 4 => Width(T) <= Bits[3] BY <3>2, WidthFacts DEF Width
        <3>4. Width(T) \in Nat BY TypeFacts
        <3> QED BY <1>4, <3>1, <3>3, <3>4
    <2> HIDE DEF S
    <2>3. Convert(T, Arith(S, x * y)) = Convert(T, x * y) BY <1>1, <2>2, ArithWraps, ConvertMod
    <2> QED BY <1>2, <1>4, <2>1, <2>3 DEF Exact
<1> QED BY <1>3, <1>4

\* A quotient that is refused is one the type cannot hold, and one that is computed in
\* the promoted type is exact.
LEMMA DivisionFacts ==
    ASSUME NEW T \in IntTypes, NEW S \in IntTypes, Values(T) \subseteq Values(S),
           NEW x \in Values(T), NEW y \in Values(T)
    PROVE  /\ y # 0 /\ Quotient(x, y) \in Values(T) =>
                  /\ Convert(T, CDiv(S, x, y)) = Quotient(x, y)
                  /\ Convert(T, CMod(S, x, y)) = x - y * Quotient(x, y)
                  /\ CDiv(S, x, y) = Quotient(x, y)
                  /\ CMod(S, x, y) = x - y * Quotient(x, y)
           /\ y # 0 => (Quotient(x, y) \notin Values(T) <=> T.sign /\ x = MinOf(T) /\ y = -1)
<1> SUFFICES ASSUME y # 0
             PROVE  /\ Quotient(x, y) \in Values(T) =>
                          /\ Convert(T, CDiv(S, x, y)) = Quotient(x, y)
                          /\ Convert(T, CMod(S, x, y)) = x - y * Quotient(x, y)
                          /\ CDiv(S, x, y) = Quotient(x, y)
                          /\ CMod(S, x, y) = x - y * Quotient(x, y)
                    /\ Quotient(x, y) \notin Values(T) <=> T.sign /\ x = MinOf(T) /\ y = -1
    OBVIOUS
<1> DEFINE q == Quotient(x, y)
           r == x - y * Quotient(x, y)
<1>1. q \in Int /\ r \in Values(T) /\ (q \in Values(T) <=> ~(T.sign /\ x = MinOf(T) /\ y = -1))
    BY QuotientFacts
<1>3. ASSUME q \in Values(T) PROVE /\ Convert(T, CDiv(S, x, y)) = q /\ Convert(T, CMod(S, x, y)) = r
                                   /\ CDiv(S, x, y) = q /\ CMod(S, x, y) = r
    <2>1. CDiv(S, x, y) = Arith(S, q) BY DEF CDiv
    <2>2. CMod(S, x, y) = IF CDiv(S, x, y) = Undef THEN Undef ELSE r BY DEF CMod
    <2> HIDE DEF q, r
    <2>3. CDiv(S, x, y) = q /\ q # Undef BY <1>3, <2>1, ArithFits, ValueFacts
    <2>4. CMod(S, x, y) = r BY <2>2, <2>3
    <2> QED BY <1>1, <1>3, <2>3, <2>4, ConvertFits
<1> QED BY <1>1, <1>3

LEMMA DivMeans ==
    ASSUME NEW form, NEW T \in IntTypes, NEW x \in Values(T), NEW y \in Values(T)
    PROVE  /\ ScalarWrapper(form, "Div", T, x, y) = Meaning("Div", T, x, y)
           /\ ScalarWrapper(form, "Mod", T, x, y) = Meaning("Mod", T, x, y)
<1> DEFINE P == Promote(T)
           c == y = 0 \/ (T.sign /\ x = MinOf(T) /\ y = -1)
           d == IF c THEN 1 ELSE 0
<1>0. P \in IntTypes /\ Values(T) \subseteq Values(P) BY PromoteFacts
<1>1. ~T.sign => y # -1 BY TypeFacts, ValueFacts
<1>2. ScalarWrapper(form, "Div", T, x, y) = CIf(d, x, Convert(T, CDiv(P, x, y)))
    <2>1. CASE T.sign BY <2>1 DEF ScalarWrapper, div_s_s, DivRefused, Test
    <2>2. CASE ~T.sign BY <2>2 DEF ScalarWrapper, div_u_u, Test
    <2> QED BY <2>1, <2>2
<1>3. ScalarWrapper(form, "Mod", T, x, y) = CIf(d, x, Convert(T, CMod(P, x, y)))
    <2>1. CASE T.sign BY <2>1 DEF ScalarWrapper, mod_s_s, DivRefused, Test
    <2>2. CASE ~T.sign BY <2>2 DEF ScalarWrapper, mod_u_u, Test
    <2> QED BY <2>1, <2>2
<1>4. Meaning("Div", T, x, y) = IF y = 0 \/ Quotient(x, y) \notin Values(T) THEN x ELSE Quotient(x, y)
    BY DEF Meaning
<1>5. Meaning("Mod", T, x, y) = IF y = 0 \/ Quotient(x, y) \notin Values(T) THEN x ELSE x - y * Quotient(x, y)
    BY DEF Meaning
<1>6. y # 0 /\ Quotient(x, y) \in Values(T) =>
          /\ Convert(T, CDiv(P, x, y)) = Quotient(x, y)
          /\ Convert(T, CMod(P, x, y)) = x - y * Quotient(x, y)
    BY <1>0, DivisionFacts
<1>7. y # 0 => (Quotient(x, y) \notin Values(T) <=> T.sign /\ x = MinOf(T) /\ y = -1) BY <1>0, DivisionFacts
<1> DEFINE a == Convert(T, CDiv(P, x, y))
           b == Convert(T, CMod(P, x, y))
           q == Quotient(x, y)
           r == x - y * Quotient(x, y)
<1> HIDE DEF a, b, q, r
<1>8. c <=> y = 0 \/ q \notin Values(T) BY <1>7 DEF q
<1> HIDE DEF c
<1>9. CIf(d, x, a) = (IF c THEN x ELSE a) /\ CIf(d, x, b) = (IF c THEN x ELSE b) BY UndefFacts DEF CIf
<1>10. ~c => a = q /\ b = r BY <1>6, <1>8 DEF a, b, q, r
<1> QED BY <1>2, <1>3, <1>4, <1>5, <1>8, <1>9, <1>10 DEF a, b, q, r

\* Shifting by less than the width of int: to the left what the test lets pass fits.
LEMMA ShiftFacts ==
    ASSUME NEW T \in IntTypes, NEW S \in IntTypes, Values(T) \subseteq Values(S),
           NEW x \in Values(T), x >= 0, NEW y \in Nat, y < Width(S)
    PROVE  /\ CShr(S, MaxOf(T), y) = MaxOf(T) \div Pow2[y] /\ CShr(S, MaxOf(T), y) # Undef
           /\ x > MaxOf(T) \div Pow2[y] <=> x * Pow2[y] > MaxOf(T)
           /\ x * Pow2[y] <= MaxOf(T) => x * Pow2[y] \in Values(T) /\ CShl(S, x, y) = x * Pow2[y]
           /\ x \div Pow2[y] \in Values(T) /\ CShr(S, x, y) = x \div Pow2[y]
<1> DEFINE p == Pow2[y]
           max == MaxOf(T)
<1>1. p \in Nat \ {0} BY TypeFacts, WidthFacts, PowNat DEF PowTop
<1>2. x \in Nat /\ x <= max /\ max \in Nat /\ Width(S) \in Nat BY TypeFacts, ValueFacts
<1>3. max \in Values(T) /\ Values(T) = {z \in Int : MinOf(T) <= z /\ z <= max} /\ MinOf(T) \in Int /\ MinOf(T) <= 0
    BY TypeFacts
<1>4. CShr(S, max, y) = max \div p /\ CShr(S, x, y) = x \div p BY <1>2 DEF CShr
<1>5. ASSUME NEW z \in Nat, z <= max PROVE z \div p \in Values(T)
    <2> HIDE DEF p, max
    <2>1. z \div p \in 0..z BY <1>1, DivNat
    <2> QED BY <1>2, <1>3, <1>5, <2>1
<1>6. max \div p # Undef
    <2> HIDE DEF p, max
    <2>1. max \div p \in Values(T) BY <1>2, <1>5
    <2> QED BY <2>1, ValueFacts
<1>7. x > max \div p <=> x * p > max
    <2> HIDE DEF p, max
    <2> QED BY <1>1, <1>2, DivMax
<1>8. ASSUME x * p <= max PROVE x * p \in Values(T) /\ CShl(S, x, y) = x * p
    <2>1. x * p \in Nat BY <1>1, <1>2, MulNat
    <2>2. x * p \in Values(T)
        <3> DEFINE z == x * p
        <3> HIDE DEF z
        <3>1. z \in Nat /\ z <= max BY <1>8, <2>1 DEF z
        <3>2. z \in Values(T) BY <1>2, <1>3, <3>1
        <3> QED BY <3>2 DEF z
    <2>3. x * p \in Values(S) BY <2>2
    <2>4. x * p < Pow2[Width(S)]
        <3> DEFINE z == x * p
        <3> HIDE DEF z
        <3>1. z \in Values(S) BY <2>3 DEF z
        <3>2. z < Pow2[Width(S)] BY <3>1, TypeFacts, ValueFacts
        <3> QED BY <3>2 DEF z
    <2>5. CShl(S, x, y) = Convert(S, x * p)
        <3>1. ~(x * p >= Pow2[Width(S)])
            <4>1. Pow2[Width(S)] \in Nat BY TypeFacts
            <4> QED BY <2>1, <2>4, <4>1
        <3>2. ~(y < 0) /\ ~(y >= Width(S)) /\ ~(x < 0) BY <1>2
        <3> QED BY <3>1, <3>2 DEF CShl
    <2> QED BY <2>2, <2>3, <2>5, ConvertFits
<1> QED BY <1>2, <1>4, <1>5, <1>6, <1>7, <1>8

LEMMA ShiftMeans ==
    ASSUME NEW form, NEW T \in IntTypes, NEW x \in Values(T), NEW y \in Int
    PROVE  /\ ScalarWrapper(form, "LShift", T, x, y) = Meaning("LShift", T, x, y)
           /\ ScalarWrapper(form, "RShift", T, x, y) = Meaning("RShift", T, x, y)
           /\ Meaning("LShift", T, x, y) \in Values(T) /\ Meaning("RShift", T, x, y) \in Values(T)
<1> DEFINE P == Promote(T)
           c == x < 0 \/ y < 0 \/ y >= maxshift
           most == CShr(P, MaxOf(T), y)
           l == Convert(T, CShl(P, x, y))
           r == Convert(T, CShr(P, x, y))
<1>1. x \in Int /\ (~T.sign => x >= 0) BY TypeFacts, ValueFacts
<1>2. maxshift = Bits[3] /\ Bits[3] \in Nat BY WidthFacts DEF maxshift
<1>3. P \in IntTypes /\ Values(T) \subseteq Values(P) /\ Width(P) >= Bits[3] /\ Width(P) \in Nat
    BY PromoteFacts, TypeFacts
<1>4. c <=> (x < 0 \/ y \notin 0..(Bits[3] - 1)) BY <1>1, <1>2
<1>5. ScalarWrapper(form, "LShift", T, x, y) = CIf(COr(IF c THEN 1 ELSE 0, Test({most}, x > most)), x, l)
    <2>1. CASE T.sign BY <2>1 DEF ScalarWrapper, lshift_s, Test
    <2>2. CASE ~T.sign
        <3>1. ScalarWrapper(form, "LShift", T, x, y) = lshift_u(T, x, y) BY <2>2 DEF ScalarWrapper
        <3>2. c <=> (y < 0 \/ y >= maxshift) BY <1>1, <2>2
        <3> HIDE DEF c
        <3> QED BY <3>1, <3>2 DEF lshift_u, Test
    <2> QED BY <2>1, <2>2
<1>6. ScalarWrapper(form, "RShift", T, x, y) = CIf(IF c THEN 1 ELSE 0, x, r)
    <2>1. CASE T.sign BY <2>1 DEF ScalarWrapper, rshift_s, Test
    <2>2. CASE ~T.sign
        <3>1. ScalarWrapper(form, "RShift", T, x, y) = rshift_u(T, x, y) BY <2>2 DEF ScalarWrapper
        <3>2. c <=> (y < 0 \/ y >= maxshift) BY <1>1, <2>2
        <3> HIDE DEF c
        <3> QED BY <3>1, <3>2 DEF rshift_u, Test
    <2> QED BY <2>1, <2>2
<1>7. Meaning("LShift", T, x, y) = IF x < 0 \/ y \notin 0..(Bits[3] - 1) \/ x * Pow2[y] > MaxOf(T) THEN x ELSE x * Pow2[y]
    BY DEF Meaning
<1>8. Meaning("RShift", T, x, y) = IF x < 0 \/ y \notin 0..(Bits[3] - 1) THEN x ELSE x \div Pow2[y]
    BY DEF Meaning
<1>9. CASE c
    <2>1. Meaning("LShift", T, x, y) = x /\ Meaning("RShift", T, x, y) = x BY <1>4, <1>7, <1>8, <1>9
    <2> HIDE DEF c, most, l, r
    <2> QED BY <1>5, <1>6, <1>9, <2>1, UndefFacts DEF CIf, COr
<1>10. CASE ~c
    <2>1. x >= 0 /\ y \in Nat /\ y < Width(P) BY <1>1, <1>2, <1>3, <1>4, <1>10
    <2> HIDE DEF P, c
    <2>2. /\ most = MaxOf(T) \div Pow2[y] /\ most # Undef
          /\ x > MaxOf(T) \div Pow2[y] <=> x * Pow2[y] > MaxOf(T)
          /\ x * Pow2[y] <= MaxOf(T) => x * Pow2[y] \in Values(T) /\ CShl(P, x, y) = x * Pow2[y]
          /\ x \div Pow2[y] \in Values(T) /\ CShr(P, x, y) = x \div Pow2[y]
        BY <1>3, <2>1, ShiftFacts
    <2>3. r = x \div Pow2[y] BY <2>2, ConvertFits
    <2>4. x * Pow2[y] <= MaxOf(T) => l = x * Pow2[y] BY <2>2, ConvertFits
    <2>5. x * Pow2[y] \in Int /\ MaxOf(T) \in Int
        <3>1. Pow2[y] \in Int BY <1>3, <2>1, TypeFacts, WidthFacts, PowNat DEF PowTop
        <3> QED BY <1>1, <3>1, TypeFacts
    <2> HIDE DEF most, l, r
    <2> DEFINE z == x * Pow2[y]
    <2> HIDE DEF z
    <2>6. Meaning("LShift", T, x, y) = IF z > MaxOf(T) THEN x ELSE z BY <1>4, <1>7, <1>10 DEF z
    <2>7. Meaning("RShift", T, x, y) = x \div Pow2[y] BY <1>4, <1>8, <1>10
    <2>8. ScalarWrapper(form, "RShift", T, x, y) = r BY <1>6, <1>10, UndefFacts DEF CIf
    <2>9. ScalarWrapper(form, "LShift", T, x, y) = IF z > MaxOf(T) THEN x ELSE l
        <3>1. Test({most}, x > most) = IF z > MaxOf(T) THEN 1 ELSE 0 BY <2>2 DEF Test, z
        <3> QED BY <1>5, <1>10, <3>1, UndefFacts DEF CIf, COr
    <2>10. z <= MaxOf(T) => l = z /\ z \in Values(T) BY <2>2, <2>4 DEF z
    <2>11. z \in Int /\ MaxOf(T) \in Int BY <2>5 DEF z
    <2> QED BY <2>2, <2>3, <2>6, <2>7, <2>8, <2>9, <2>10, <2>11
<1> QED BY <1>9, <1>10

-----------------------------------------------------------------------------
(* Bits. *)

\* f adds up the powers whose exponents are in S.
Counts(f, w, S) ==
    /\ f \in [0..w -> Nat] /\ f[0] = 0
    /\ \A i \in 0..(w - 1) : f[i + 1] = f[i] + (IF i \in S THEN Pow2[i] ELSE 0)

\* Number is what its recursive function yields.
LEMMA NumberDef ==
    ASSUME NEW w \in 0..PowTop, NEW S
    PROVE  \E f : Counts(f, w, S) /\ Number(w, S) = f[w]
<1> DEFINE add(i) == IF i - 1 \in S THEN Pow2[i - 1] ELSE 0
           h == [x \in Nat \X (1..w) |-> x[1] + add(x[2])]
           Is(f) == f = [i \in 0..w |-> IF i = 0 THEN 0 ELSE f[i - 1] + add(i)]
           c == CHOOSE f : Is(f)
<1>1. w \in Nat BY WidthFacts
<1>2. \A i \in 1..w : add(i) \in Nat BY WidthFacts, PowNat
<1>3. h \in [Nat \X (1..w) -> Nat]
    <2> HIDE DEF add
    <2> QED BY <1>2
<1>4. PICK f \in [0..w -> Nat] : Recursive(f, w, 0, h)
    <2> HIDE DEF h
    <2> QED BY <1>1, <1>3, Recursion
<1>5. \A i \in 0..w : i # 0 => h[<<f[i - 1], i>>] = f[i - 1] + add(i)
    <2> SUFFICES ASSUME NEW i \in 0..w, i # 0 PROVE h[<<f[i - 1], i>>] = f[i - 1] + add(i) OBVIOUS
    <2>1. i - 1 \in 0..w /\ i \in 1..w BY <1>1
    <2>2. f[i - 1] \in Nat BY <1>4, <2>1
    <2> HIDE DEF add
    <2> QED BY <2>1, <2>2
<1>6. Is(f)
    <2> HIDE DEF h, add
    <2> QED BY <1>4, <1>5 DEF Recursive
<1>7. Is(c) BY <1>6, Zenon
<1>8. Number(w, S) = c[w] BY DEF Number
<1> HIDE DEF c
<1>9. c[0] = 0 /\ \A i \in 1..w : c[i] = c[i - 1] + add(i)
    <2> HIDE DEF add
    <2> QED BY <1>1, <1>7
<1>10. \A i \in 0..(w - 1) : c[i + 1] = c[i] + (IF i \in S THEN Pow2[i] ELSE 0)
    <2> SUFFICES ASSUME NEW i \in 0..(w - 1) PROVE c[i + 1] = c[i] + (IF i \in S THEN Pow2[i] ELSE 0) OBVIOUS
    <2>1. i + 1 \in 1..w /\ i + 1 - 1 = i BY <1>1
    <2> QED BY <1>9, <2>1
<1>11. 0..w \subseteq {i \in 0..w : c[i] \in Nat}
    <2>1. 0 \in {i \in 0..w : c[i] \in Nat} BY <1>1, <1>9
    <2>2. ASSUME NEW i \in 0..(w - 1), i \in {j \in 0..w : c[j] \in Nat} PROVE i + 1 \in {j \in 0..w : c[j] \in Nat}
        <3>1. i \in 0..PowTop /\ i + 1 \in 0..w BY <1>1, WidthFacts
        <3>2. c[i] \in Nat BY <2>2
        <3>3. c[i + 1] = c[i] + (IF i \in S THEN Pow2[i] ELSE 0) BY <1>10
        <3>4. Pow2[i] \in Nat BY <3>1, PowNat
        <3>5. c[i + 1] \in Nat BY <3>2, <3>3, <3>4
        <3> QED BY <3>1, <3>5
    <2> QED BY <1>1, <2>1, <2>2, Upto
<1>12. Counts(c, w, S) BY <1>7, <1>9, <1>10, <1>11 DEF Counts
<1> QED BY <1>8, <1>12

\* The sums stay below the powers: the bits above do not interfere.
LEMMA CountsBelow ==
    ASSUME NEW w \in 0..PowTop, NEW S, NEW f, Counts(f, w, S)
    PROVE  \A i \in 0..w : f[i] \in 0..(Pow2[i] - 1)
<1> DEFINE G == {i \in 0..w : f[i] \in 0..(Pow2[i] - 1)}
<1>1. 0 \in G BY WidthFacts, Pow2Def DEF Counts
<1>2. ASSUME NEW i \in 0..(w - 1), i \in G PROVE i + 1 \in G
    <2>1. i \in 0..(PowTop - 1) /\ i \in 0..PowTop /\ i + 1 \in 0..w BY WidthFacts
    <2>2. Pow2[i] \in Nat \ {0} /\ Pow2[i + 1] = 2 * Pow2[i] BY <2>1, Pow2Def, PowNat
    <2>3. f[i + 1] = f[i] + (IF i \in S THEN Pow2[i] ELSE 0) BY DEF Counts
    <2> QED BY <1>2, <2>1, <2>2, <2>3
<1>3. w \in Nat BY WidthFacts
<1>4. 0..w \subseteq G BY <1>1, <1>2, <1>3, Upto
<1> QED BY <1>4

\* The highest bit decides whether a number is in the upper half.
LEMMA NumberFacts ==
    ASSUME NEW w \in 1..PowTop, NEW S
    PROVE  Number(w, S) \in 0..(Pow2[w] - 1) /\ (w - 1 \in S <=> Number(w, S) >= Pow2[w - 1])
<1>1. w \in 0..PowTop /\ w \in Nat /\ w \in 0..w /\ w - 1 \in 0..w /\ w - 1 \in 0..(w - 1) /\ w - 1 \in 0..PowTop
    BY WidthFacts
<1>2. PICK f : Counts(f, w, S) /\ Number(w, S) = f[w] BY <1>1, NumberDef
<1>3. f[w] \in 0..(Pow2[w] - 1) /\ f[w - 1] \in 0..(Pow2[w - 1] - 1) BY <1>1, <1>2, CountsBelow
<1>4. f[(w - 1) + 1] = f[w - 1] + (IF w - 1 \in S THEN Pow2[w - 1] ELSE 0) BY <1>1, <1>2 DEF Counts
<1>5. (w - 1) + 1 = w BY <1>1
<1>6. Pow2[w - 1] \in Nat BY <1>1, PowNat
<1> QED BY <1>2, <1>3, <1>4, <1>5, <1>6

\* One more bit adds its power.
LEMMA NumberFlip ==
    ASSUME NEW w \in 0..PowTop, NEW S, NEW k \in 0..(w - 1), k \notin S
    PROVE  Number(w, S \cup {k}) = Number(w, S) + Pow2[k]
<1>1. w \in Nat /\ k \in 0..PowTop BY WidthFacts
<1>2. PICK f : Counts(f, w, S) /\ Number(w, S) = f[w] BY NumberDef
<1>3. PICK g : Counts(g, w, S \cup {k}) /\ Number(w, S \cup {k}) = g[w] BY NumberDef
<1> DEFINE G == {i \in 0..w : g[i] = f[i] + (IF i > k THEN Pow2[k] ELSE 0)}
<1>4. 0 \in G BY <1>1, <1>2, <1>3 DEF Counts
<1>5. ASSUME NEW i \in 0..(w - 1), i \in G PROVE i + 1 \in G
    <2>1. i + 1 \in 0..w /\ i \in Nat /\ i \in 0..w /\ i \in 0..PowTop BY <1>1, WidthFacts
    <2>2. g[i + 1] = g[i] + (IF i \in S \cup {k} THEN Pow2[i] ELSE 0) BY <1>3 DEF Counts
    <2>3. f[i + 1] = f[i] + (IF i \in S THEN Pow2[i] ELSE 0) BY <1>2 DEF Counts
    <2>4. f[i] \in Nat /\ Pow2[i] \in Nat /\ Pow2[k] \in Nat BY <1>1, <1>2, <2>1, PowNat DEF Counts
    <2>5. g[i] = f[i] + (IF i > k THEN Pow2[k] ELSE 0) BY <1>5
    <2>6. CASE i = k BY <1>1, <2>1, <2>2, <2>3, <2>4, <2>5, <2>6
    <2>7. CASE i # k
        <3>1. i \in S \cup {k} <=> i \in S BY <2>7
        <3>2. i > k <=> i + 1 > k BY <1>1, <2>1, <2>7
        <3>3. g[i + 1] = f[i + 1] + (IF i + 1 > k THEN Pow2[k] ELSE 0) BY <2>2, <2>3, <2>4, <2>5, <3>1, <3>2
        <3> QED BY <2>1, <3>3
    <2> QED BY <2>6, <2>7
<1>6. 0..w \subseteq G BY <1>1, <1>4, <1>5, Upto
<1>7. w \in G /\ w > k BY <1>1, <1>6
<1> QED BY <1>2, <1>3, <1>7

\* The bits of a number, put together again.
LEMMA NumberOnes ==
    ASSUME NEW w \in 0..PowTop, NEW x \in Int
    PROVE  Number(w, {i \in 0..(w - 1) : (x \div Pow2[i]) % 2 = 1}) = x % Pow2[w]
<1> DEFINE S == {i \in 0..(w - 1) : (x \div Pow2[i]) % 2 = 1}
<1>1. w \in Nat BY WidthFacts
<1>2. PICK f : Counts(f, w, S) /\ Number(w, S) = f[w] BY NumberDef
<1> DEFINE G == {i \in 0..w : f[i] = x % Pow2[i]}
<1>3. 0 \in G
    <2>1. Pow2[0] = 1 /\ x % 1 = 0 /\ f[0] = 0 BY <1>2, Pow2Def DEF Counts
    <2> QED BY <1>1, <2>1
<1>4. ASSUME NEW i \in 0..(w - 1), i \in G PROVE i + 1 \in G
    <2> DEFINE p == Pow2[i]
               q == x \div p
    <2>1. i + 1 \in 0..w /\ i \in 0..(PowTop - 1) /\ i \in 0..PowTop BY <1>1, WidthFacts
    <2>2. p \in Nat \ {0} /\ Pow2[i + 1] = 2 * p BY <2>1, Pow2Def, PowNat
    <2>3. f[i + 1] = f[i] + (IF i \in S THEN p ELSE 0) BY <1>2 DEF Counts
    <2>4. i \in S <=> q % 2 = 1 OBVIOUS
    <2>5. f[i] = x % p BY <1>4
    <2> HIDE DEF p, S, G
    <2>6. q \in Int /\ x % p \in 0..(p - 1) /\ x = q * p + (x % p) BY <2>2, DivMod
    <2> HIDE DEF q
    <2> DEFINE m == q \div 2
               b == q % 2
    <2>7. m \in Int /\ b \in 0..1 /\ q = m * 2 + b BY <2>6
    <2>8. f[i + 1] = b * p + (x % p) BY <2>2, <2>3, <2>4, <2>5, <2>6, <2>7
    <2> HIDE DEF m, b
    <2>9. x = m * (2 * p) + (b * p + (x % p))
        <3>1. (m * 2 + b) * p = m * (2 * p) + b * p BY <2>2, <2>7, SMT
        <3> QED BY <2>2, <2>6, <2>7, <3>1
    <2>10. b * p + (x % p) \in 0..(2 * p - 1) BY <2>2, <2>6, <2>7
    <2>11. x % (2 * p) = b * p + (x % p)
        <3>1. 2 * p \in Nat \ {0} BY <2>2
        <3> QED BY <2>7, <2>9, <2>10, <3>1, DivUnique
    <2> QED BY <2>1, <2>2, <2>8, <2>11 DEF G
<1>5. 0..w \subseteq G BY <1>1, <1>3, <1>4, Upto
<1>6. w \in G BY <1>1, <1>5
<1> QED BY <1>2, <1>6

Signed(T) == T \in IntTypes /\ T.sign

LEMMA SignedFacts ==
    ASSUME NEW T, Signed(T)
    PROVE  /\ T \in IntTypes /\ Width(T) \in 1..PowTop /\ Width(T) \in 0..PowTop /\ Width(T) \in Nat
           /\ Half(T) \in Nat \ {0} /\ Pow2[Width(T)] = 2 * Half(T) /\ Half(T) = Pow2[Width(T) - 1]
           /\ MaxOf(T) = Half(T) - 1 /\ MinOf(T) = -Half(T)
           /\ Values(T) = {z \in Int : -Half(T) <= z /\ z <= Half(T) - 1}
           /\ 4 * Half(T) # Undef /\ \A z \in Int : z <= 2 * Half(T) => z # Undef
<1>1. T \in IntTypes /\ T.sign BY DEF Signed
<1>2. Width(T) \in 1..PowTop /\ Width(T) \in 0..PowTop /\ Width(T) \in Nat
    BY <1>1, TypeFacts, WidthFacts DEF PowTop
<1>3. 2 * Half(T) <= Pow2[2 * Bits[4]] /\ Half(T) \in Nat \ {0} BY <1>1, TypeFacts
<1>4. Pow2[2 * Bits[4]] \in Nat BY WidthFacts, PowNat DEF PowTop
<1>5. 4 * Half(T) # Undef BY <1>3, <1>4, NotUndef
<1>6. \A z \in Int : z <= 2 * Half(T) => z # Undef
    <2> SUFFICES ASSUME NEW z \in Int, z <= 2 * Half(T) PROVE z # Undef OBVIOUS
    <2>1. z <= 2 * Pow2[2 * Bits[4]] BY <1>3, <1>4
    <2> QED BY <2>1, NotUndef
<1>7. /\ Pow2[Width(T)] = 2 * Half(T) /\ MaxOf(T) = Half(T) - 1 /\ MinOf(T) = -Half(T)
      /\ Values(T) = {z \in Int : -Half(T) <= z /\ z <= Half(T) - 1}
    BY <1>1, TypeFacts
<1> QED BY <1>1, <1>2, <1>3, <1>5, <1>6, <1>7 DEF Half

\* A number below twice the half of a signed type is the value itself or exceeds it by
\* the number of values.
LEMMA ConvertSigned ==
    ASSUME NEW T, Signed(T), NEW n \in 0..(2 * Half(T) - 1)
    PROVE  Convert(T, n) = IF n >= Half(T) THEN n - 2 * Half(T) ELSE n
<1> USE SignedFacts
<1>1. n \in Int /\ n # Undef OBVIOUS
<1>2. n = 0 * Pow2[Width(T)] + n /\ Pow2[Width(T)] \in Nat \ {0} /\ n \in 0..(Pow2[Width(T)] - 1) BY <1>1
<1>3. n % Pow2[Width(T)] = n BY <1>1, <1>2, DivUnique
<1>4. T.sign BY DEF Signed
<1> QED BY <1>1, <1>3, <1>4 DEF Convert

\* The sign of a number read from its bits.
LEMMA SignOfNumber ==
    ASSUME NEW T, Signed(T), NEW S
    PROVE  /\ Convert(T, Number(Width(T), S)) \in Values(T)
           /\ Convert(T, Number(Width(T), S)) < 0 <=> Width(T) - 1 \in S
<1> DEFINE n == Number(Width(T), S)
           h == Half(T)
<1>1. n \in 0..(2 * h - 1) /\ (Width(T) - 1 \in S <=> n >= h) BY SignedFacts, NumberFacts
<1>2. h \in Nat \ {0} /\ Values(T) = {z \in Int : -h <= z /\ z <= h - 1} BY SignedFacts
<1> HIDE DEF n
<1>3. Convert(T, n) = IF n >= h THEN n - 2 * h ELSE n BY <1>1, ConvertSigned
<1> HIDE DEF h
<1>4. Convert(T, n) \in Values(T) /\ (Convert(T, n) < 0 <=> n >= h) BY <1>1, <1>2, <1>3
<1> QED BY <1>1, <1>4 DEF n

LEMMA OddOnes == (-1) % 2 = 1 /\ 1 % 2 = 1
<1>1. -1 \in Int /\ 2 \in Nat \ {0} /\ 1 \in 0..(2 - 1) /\ -1 = (-1) * 2 + 1 OBVIOUS
<1>2. (-1) % 2 = 1 BY <1>1, DivUnique
<1> QED BY <1>2

\* The sign bit is set in the negative numbers.
LEMMA SignBit ==
    ASSUME NEW T, Signed(T), NEW x \in Values(T)
    PROVE  Width(T) - 1 \in Ones(T, x) <=> x < 0
<1> DEFINE h == Half(T)
<1>1. h \in Nat \ {0} /\ x \in Int /\ -h <= x /\ x <= h - 1 /\ Width(T) - 1 \in 0..(Width(T) - 1)
    BY SignedFacts
<1>2. Width(T) - 1 \in Ones(T, x) <=> (x \div h) % 2 = 1 BY <1>1, SignedFacts DEF Ones
<1> HIDE DEF h
<1>3. CASE x < 0
    <2>1. x = (-1) * h + (x + h) /\ x + h \in 0..(h - 1) BY <1>1, <1>3
    <2>2. x \div h = -1 BY <1>1, <2>1, DivUnique
    <2>3. (-1) % 2 = 1 BY OddOnes
    <2> QED BY <1>2, <1>3, <2>2, <2>3
<1>4. CASE x >= 0
    <2>1. x = 0 * h + x /\ x \in 0..(h - 1) BY <1>1, <1>4
    <2>2. x \div h = 0 BY <1>1, <2>1, DivUnique
    <2> QED BY <1>1, <1>2, <1>4, <2>2
<1> QED BY <1>1, <1>3, <1>4

\* The sign of an xor, and of an and.
LEMMA XorSign ==
    ASSUME NEW T, Signed(T), NEW x \in Values(T), NEW y \in Values(T)
    PROVE  CXor(T, x, y) \in Values(T) /\ (CXor(T, x, y) < 0 <=> ~(x < 0 <=> y < 0))
<1> DEFINE S == (Ones(T, x) \ Ones(T, y)) \cup (Ones(T, y) \ Ones(T, x))
<1>1. Width(T) - 1 \in S <=> ~(x < 0 <=> y < 0) BY SignBit
<1> HIDE DEF S
<1>2. CXor(T, x, y) = Convert(T, Number(Width(T), S)) BY DEF CXor, S
<1> QED BY <1>1, <1>2, SignOfNumber

LEMMA AndSign ==
    ASSUME NEW T, Signed(T), NEW x \in Values(T), NEW y \in Values(T)
    PROVE  CAnd(T, x, y) \in Values(T) /\ (CAnd(T, x, y) < 0 <=> x < 0 /\ y < 0)
<1> DEFINE S == Ones(T, x) \cap Ones(T, y)
<1>1. Width(T) - 1 \in S <=> x < 0 /\ y < 0 BY SignBit
<1> HIDE DEF S
<1>2. CAnd(T, x, y) = Convert(T, Number(Width(T), S)) BY DEF CAnd, S
<1> QED BY <1>1, <1>2, SignOfNumber

\* The number whose only bit is k.
OneBit(T, k) == IF k = Width(T) - 1 THEN -Pow2[k] ELSE Pow2[k]

LEMMA OnesOfZero ==
    ASSUME NEW T, Signed(T)
    PROVE  Ones(T, 0) = {}
<1> SUFFICES ASSUME NEW i \in 0..(Width(T) - 1), (0 \div Pow2[i]) % 2 = 1 PROVE FALSE BY DEF Ones
<1>1. Pow2[i] \in Nat \ {0} BY SignedFacts, WidthFacts, PowNat
<1>2. 0 \div Pow2[i] = 0
    <2>1. 0 = 0 * Pow2[i] + 0 /\ 0 \in 0..(Pow2[i] - 1) BY <1>1
    <2> QED BY <1>1, <2>1, DivUnique
<1> QED BY <1>2

\* The bits of zero and of the sign bit shifted down.
LEMMA OnesOfBit ==
    ASSUME NEW T, Signed(T), NEW k \in 0..(Width(T) - 1)
    PROVE  Ones(T, OneBit(T, k)) = {k}
<1> DEFINE m == OneBit(T, k)
<1>1. Width(T) \in Nat /\ Width(T) <= PowTop /\ PowTop \in Nat BY SignedFacts, WidthFacts
<1>2. ASSUME NEW i \in 0..(Width(T) - 1) PROVE (m \div Pow2[i]) % 2 = 1 <=> i = k
    <2>1. i \in 0..PowTop /\ k \in 0..PowTop BY <1>1
    <2>2. Pow2[i] \in Nat \ {0} /\ Pow2[k] \in Nat \ {0} BY <2>1, PowNat
    <2>3. CASE i <= k
        <3> DEFINE c == Pow2[k - i]
                   e == IF k = Width(T) - 1 THEN -c ELSE c
        <3>1. k - i \in 0..PowTop /\ i \in Nat /\ i + (k - i) = k BY <1>1, <2>3
        <3>2. Pow2[k] = Pow2[i] * c /\ c \in Nat \ {0} BY <1>1, <2>1, <3>1, PowAdd, PowNat
        <3>3. Pow2[i] * c = c * Pow2[i] /\ -(Pow2[i] * c) = (-c) * Pow2[i] BY <2>2, <3>2, SMT
        <3>4. m = e * Pow2[i] + 0 /\ e \in Int /\ 0 \in 0..(Pow2[i] - 1)
            <4> HIDE DEF c
            <4> QED BY <2>2, <3>2, <3>3 DEF OneBit
        <3>5. m \in Int BY <2>2 DEF OneBit
        <3> HIDE DEF m, e
        <3>6. m \div Pow2[i] = e BY <2>2, <3>4, <3>5, DivUnique
        <3>7. i = k => e % 2 = 1
            <4>1. i = k => c = 1 BY <3>1, Pow2Def
            <4> HIDE DEF c
            <4>2. 1 % 2 = 1 /\ (-1) % 2 = 1 BY OddOnes
            <4> QED BY <4>1, <4>2 DEF e
        <3>8. i # k => e % 2 = 0
            <4> SUFFICES ASSUME i # k PROVE e % 2 = 0 OBVIOUS
            <4> DEFINE a == Pow2[k - i - 1]
            <4>1. k - i - 1 \in 0..(PowTop - 1) /\ (k - i - 1) + 1 = k - i /\ k - i - 1 \in 0..PowTop
                BY <1>1, <2>3
            <4>2. c = 2 * a /\ a \in Nat BY <4>1, Pow2Def, PowNat
            <4> HIDE DEF c, a
            <4>3. (2 * a) % 2 = 0 /\ (-(2 * a)) % 2 = 0 BY <4>2
            <4> QED BY <4>2, <4>3 DEF e
        <3> QED BY <3>6, <3>7, <3>8
    <2>4. CASE i > k
        <3>1. 2 * Pow2[k] <= Pow2[i] BY <1>1, <2>1, <2>4, PowUp
        <3>2. m = Pow2[k] BY <1>1, <2>4 DEF OneBit
        <3>3. m = 0 * Pow2[i] + m /\ m \in 0..(Pow2[i] - 1) /\ m \in Int BY <2>2, <3>1, <3>2
        <3> HIDE DEF m
        <3>4. m \div Pow2[i] = 0 BY <2>2, <3>3, DivUnique
        <3> QED BY <1>1, <2>4, <3>4
    <2> QED BY <1>1, <2>3, <2>4
<1> HIDE DEF m
<1>3. Ones(T, m) = {k} BY <1>2 DEF Ones
<1> QED BY <1>3 DEF m

BitFacts(T, k, p, h) ==
    /\ T \in IntTypes /\ h = Half(T) /\ h \in Nat \ {0} /\ p = Pow2[k] /\ p \in Nat \ {0} /\ p <= h
    /\ k < Width(T) - 1 => 2 * p <= h
    /\ k = Width(T) - 1 => p = h

LEMMA BitSizes ==
    ASSUME NEW T, Signed(T), NEW k \in 0..(Width(T) - 1)
    PROVE  BitFacts(T, k, Pow2[k], Half(T))
<1>1. Width(T) \in Nat /\ Width(T) <= PowTop /\ PowTop \in Nat /\ T \in IntTypes
      /\ Half(T) \in Nat \ {0} /\ Half(T) = Pow2[Width(T) - 1]
    BY SignedFacts, WidthFacts
<1>2. Pow2[k] \in Nat \ {0} BY <1>1, PowNat
<1>3. k < Width(T) - 1 => 2 * Pow2[k] <= Half(T) BY <1>1, PowUp
<1> QED BY <1>1, <1>2, <1>3 DEF BitFacts

\* A mask of one bit leaves the bit or nothing.
LEMMA AndBit ==
    ASSUME NEW T, Signed(T), NEW k \in 0..(Width(T) - 1), NEW z
    PROVE  CAnd(T, z, OneBit(T, k)) = IF k \in Ones(T, z) THEN OneBit(T, k) ELSE 0
<1> DEFINE w == Width(T)
           h == Half(T)
           p == Pow2[k]
           m == OneBit(T, k)
<1>1. BitFacts(T, k, p, h) BY BitSizes
<1>2. w \in 0..PowTop /\ w \in Nat /\ Pow2[w] = 2 * h BY SignedFacts
<1>3. Number(w, {}) = 0
    <2>1. Number(w, {i \in 0..(w - 1) : (0 \div Pow2[i]) % 2 = 1}) = 0 % Pow2[w] BY <1>2, NumberOnes
    <2>2. {i \in 0..(w - 1) : (0 \div Pow2[i]) % 2 = 1} = {} BY OnesOfZero DEF Ones
    <2>3. 0 % Pow2[w] = 0
        <3>1. Pow2[w] \in Nat \ {0} BY <1>1, <1>2 DEF BitFacts
        <3>2. 0 = 0 * Pow2[w] + 0 /\ 0 \in 0..(Pow2[w] - 1) BY <3>1
        <3> QED BY <3>1, <3>2, DivUnique
    <2> QED BY <2>1, <2>2, <2>3
<1>4. Number(w, {k}) = p
    <2>1. Number(w, {} \cup {k}) = Number(w, {}) + Pow2[k] BY <1>2, NumberFlip
    <2>2. {} \cup {k} = {k} OBVIOUS
    <2> QED BY <1>1, <1>3, <2>1, <2>2 DEF BitFacts
<1>5. Ones(T, m) = {k} BY OnesOfBit
<1>6. CAnd(T, z, m) = Convert(T, Number(w, Ones(T, z) \cap {k})) BY <1>5 DEF CAnd
<1>7. CASE k \in Ones(T, z)
    <2>1. Ones(T, z) \cap {k} = {k} BY <1>7
    <2>2. CAnd(T, z, m) = Convert(T, p) BY <1>4, <1>6, <2>1
    <2>3. p \in 0..(2 * h - 1) BY <1>1 DEF BitFacts
    <2>4. Convert(T, p) = IF p >= h THEN p - 2 * h ELSE p BY <2>3, ConvertSigned
    <2>5. m = IF k = w - 1 THEN -p ELSE p BY DEF OneBit
    <2> HIDE DEF p, h, m
    <2>6. Convert(T, p) = m BY <1>1, <1>2, <2>4, <2>5 DEF BitFacts, w
    <2> QED BY <1>7, <2>2, <2>6 DEF m
<1>8. CASE k \notin Ones(T, z)
    <2>1. Ones(T, z) \cap {k} = {} BY <1>8
    <2>2. CAnd(T, z, m) = Convert(T, 0) BY <1>3, <1>6, <2>1
    <2>3. 0 \in Values(T) BY SignedFacts
    <2>4. Convert(T, 0) = 0 BY <1>1, <2>3, ConvertFits DEF BitFacts
    <2> QED BY <1>8, <2>2, <2>4
<1> QED BY <1>7, <1>8

\* Without bits in the second operand xor changes nothing.
LEMMA XorZero ==
    ASSUME NEW T, Signed(T), NEW x \in Values(T)
    PROVE  CXor(T, x, 0) = x
<1>1. T \in IntTypes /\ x \in Int /\ x # Undef BY SignedFacts, ValueFacts
<1>2. (Ones(T, x) \ Ones(T, 0)) \cup (Ones(T, 0) \ Ones(T, x)) = Ones(T, x) BY OnesOfZero
<1>3. Number(Width(T), Ones(T, x)) = x % Pow2[Width(T)] BY <1>1, SignedFacts, NumberOnes DEF Ones
<1>4. CXor(T, x, 0) = Convert(T, x % Pow2[Width(T)]) BY <1>2, <1>3 DEF CXor
<1>5. Width(T) <= Width(T) BY SignedFacts
<1> QED BY <1>1, <1>4, <1>5, ConvertMod, ConvertFits

\* Flipping a bit adds or takes away its power; flipping the sign bit takes half of the
\* values away from a number that has no sign and adds it to one that has.
LEMMA XorBit ==
    ASSUME NEW T, Signed(T), NEW k \in 0..(Width(T) - 1), NEW x \in Values(T)
    PROVE  /\ k = Width(T) - 1 => CXor(T, x, OneBit(T, k)) = IF x < 0 THEN x + Half(T) ELSE x - Half(T)
           /\ k < Width(T) - 1 /\ -Half(T) <= x - Pow2[k] /\ x + Pow2[k] < Half(T) =>
                  CXor(T, x, OneBit(T, k)) \in {x + Pow2[k], x - Pow2[k]}
<1> DEFINE w == Width(T)
           h == Half(T)
           p == Pow2[k]
           m == OneBit(T, k)
           S == Ones(T, x)
           R == (S \ {k}) \cup ({k} \ S)
           u == x % Pow2[w]
<1>1. BitFacts(T, k, p, h) BY BitSizes
<1>2. w \in 0..PowTop /\ w \in 1..PowTop /\ w \in Nat /\ Pow2[w] = 2 * h BY SignedFacts
<1>3. x \in Int /\ -h <= x /\ x <= h - 1 /\ Values(T) = {z \in Int : -h <= z /\ z <= h - 1} BY SignedFacts
<1>4. CXor(T, x, m) = Convert(T, Number(w, R)) BY OnesOfBit DEF CXor
<1>5. Number(w, S) = u BY <1>2, <1>3, NumberOnes DEF Ones
<1>6. u = IF x < 0 THEN x + 2 * h ELSE x
    <2>1. h \in Nat \ {0} /\ 2 * h \in Nat \ {0} BY <1>1 DEF BitFacts
    <2>2. CASE x < 0
        <3> HIDE DEF h
        <3>1. x = (-1) * (2 * h) + (x + 2 * h) /\ x + 2 * h \in 0..(2 * h - 1) BY <1>3, <2>1, <2>2
        <3>2. x % (2 * h) = x + 2 * h BY <1>3, <2>1, <3>1, DivUnique
        <3> QED BY <1>2, <2>2, <3>2
    <2>3. CASE x >= 0
        <3> HIDE DEF h
        <3>1. x = 0 * (2 * h) + x /\ x \in 0..(2 * h - 1) BY <1>3, <2>1, <2>3
        <3>2. x % (2 * h) = x BY <1>3, <2>1, <3>1, DivUnique
        <3> QED BY <1>2, <1>3, <2>3, <3>2
    <2> QED BY <1>3, <2>2, <2>3
<1>7. Number(w, R) = IF k \in S THEN u - p ELSE u + p
    <2>1. CASE k \in S
        <3>1. k \notin R /\ R \cup {k} = S BY <2>1
        <3>2. p \in Int BY <1>1 DEF BitFacts
        <3> HIDE DEF u, S, R
        <3>3. Number(w, R) \in Int BY <1>2, NumberFacts
        <3>4. Number(w, R \cup {k}) = Number(w, R) + p BY <1>2, <3>1, NumberFlip
        <3> HIDE DEF p
        <3>5. u = Number(w, R) + p BY <1>5, <3>1, <3>4, Zenon
        <3>6. Number(w, R) = u - p BY <3>2, <3>3, <3>5
        <3> QED BY <2>1, <3>6
    <2>2. CASE k \notin S
        <3>1. R = S \cup {k} BY <2>2
        <3> QED BY <1>2, <1>5, <2>2, <3>1, NumberFlip
    <2> QED BY <2>1, <2>2
<1>8. Number(w, R) \in 0..(2 * h - 1) BY <1>2, NumberFacts
<1> DEFINE n == Number(w, R)
<1>9. Convert(T, n) = IF n >= h THEN n - 2 * h ELSE n BY <1>8, ConvertSigned
<1>10. k = w - 1 => (k \in S <=> x < 0) BY SignBit
<1> HIDE DEF w, h, p, m, S, R, u, n
<1>11. k = w - 1 => Convert(T, n) = IF x < 0 THEN x + h ELSE x - h
    BY <1>1, <1>3, <1>6, <1>7, <1>8, <1>9, <1>10 DEF BitFacts, n, w
<1>12. ASSUME k < w - 1, -h <= x - p, x + p < h PROVE Convert(T, n) \in {x + p, x - p}
    <2>1. h \in Nat \ {0} /\ p \in Nat \ {0} /\ 2 * p <= h BY <1>1, <1>12 DEF BitFacts, w
    <2>2. n = IF k \in S THEN u - p ELSE u + p BY <1>7 DEF n
    <2>3. n \in 0..(2 * h - 1) BY <1>8 DEF n
    <2>4. CASE k \in S BY <1>3, <1>6, <1>9, <1>12, <2>1, <2>2, <2>3, <2>4
    <2>5. CASE k \notin S BY <1>3, <1>6, <1>9, <1>12, <2>1, <2>2, <2>3, <2>5
    <2> QED BY <2>4, <2>5
<1> QED BY <1>4, <1>11, <1>12 DEF w, h, p, m, n

\* The mask of the wrappers has the sign bit of the wrapper's type and no other.
LEMMA MaskFacts ==
    ASSUME NEW T \in IntTypes, T.sign, NEW form, T.size >= 3 \/ form = "macros"
    PROVE  /\ Signed(Promote(T)) /\ Width(T) - 1 \in 0..(Width(Promote(T)) - 1)
           /\ SignMask(form, T) = OneBit(Promote(T), Width(T) - 1)
           /\ SignMask(form, T) # Undef /\ 0 \in Values(Promote(T))
<1> DEFINE P == Promote(T)
           k == Width(T) - 1
<1>1. P \in IntTypes /\ P.sign /\ Width(T) <= Width(P) BY PromoteFacts, SizeCases
<1>2. Signed(P) /\ Signed(T) BY <1>1 DEF Signed
<1>3. Width(P) \in Nat /\ Width(T) \in Nat \ {0} /\ k \in 0..(Width(P) - 1) BY <1>1, <1>2, TypeFacts
<1>4. 0 \in Values(P) /\ 0 \in Values(T) BY <1>2, SignedFacts
<1>5. Half(T) = Pow2[k] /\ Half(T) \in Nat \ {0} /\ MaxOf(T) = Half(T) - 1 BY <1>2, SignedFacts
<1>6. BitFacts(P, k, Half(T), Half(P)) BY <1>2, <1>3, <1>5, BitSizes
<1>7. /\ Half(P) \in Nat \ {0} /\ Pow2[Width(P)] = 2 * Half(P)
      /\ \A z \in Int : z <= 2 * Half(P) => z # Undef
    BY <1>2, SignedFacts
<1>8. T.size >= 3 => P = T BY PromoteFacts
<1>9. CASE form = "macros"
    <2>1. CShl(P, 1, k) = Convert(P, Half(T))
        <3>1. 1 * Pow2[k] = Half(T) BY <1>5
        <3>2. ~(Half(T) >= Pow2[Width(P)]) BY <1>5, <1>6, <1>7 DEF BitFacts
        <3>3. ~(k < 0) /\ ~(k >= Width(P)) /\ ~(1 < 0) BY <1>3
        <3> HIDE DEF P, k
        <3> QED BY <3>1, <3>2, <3>3 DEF CShl
    <2> DEFINE h == Half(P)
               p == Half(T)
    <2>2. p \in 0..(2 * h - 1) BY <1>5, <1>6, <1>7 DEF BitFacts
    <2>3. Convert(P, p) = IF p >= h THEN p - 2 * h ELSE p BY <1>2, <2>2, ConvertSigned
    <2>4. OneBit(P, k) = IF k = Width(P) - 1 THEN -p ELSE p BY <1>5 DEF OneBit
    <2> HIDE DEF h, p, P, k
    <2>5. Convert(P, p) = OneBit(P, k) BY <1>3, <1>5, <1>6, <1>7, <2>3, <2>4 DEF BitFacts, h, p
    <2>6. SignMask(form, T) = OneBit(P, k) BY <1>9, <2>1, <2>5 DEF SignMask, p, P, k
    <2>7. OneBit(P, k) # Undef
        <3>1. p \in Nat /\ p <= h /\ h \in Nat BY <1>5, <1>6, <1>7 DEF BitFacts, p, h
        <3>2. OneBit(P, k) \in Int /\ OneBit(P, k) <= 2 * Half(P) BY <2>4, <3>1 DEF h
        <3> QED BY <1>7, <3>2
    <2> QED BY <1>2, <1>3, <1>4, <2>6, <2>7 DEF P, k
<1>10. CASE form # "macros"
    <2>1. P = T /\ k = Width(P) - 1 BY <1>8, <1>10
    <2>2. SignMask(form, T) = -MaxOf(T) - 1 BY <1>10 DEF SignMask
    <2>3. SignMask(form, T) = -Half(T) BY <1>5, <2>2
    <2>4. OneBit(P, k) = -Half(T) BY <1>5, <2>1 DEF OneBit
    <2>5. -Half(T) # Undef
        <3>1. -Half(T) \in Int /\ -Half(T) <= 2 * Half(P) BY <1>5, <1>7
        <3> QED BY <1>7, <3>1
    <2> QED BY <1>2, <1>3, <1>4, <2>3, <2>4, <2>5
<1> QED BY <1>9, <1>10

\* For int and long the bit test finds the differences that overflow.
LEMMA WideSub ==
    ASSUME NEW T \in IntTypes, T.sign, T.size >= 3, NEW form, NEW x \in Values(T), NEW y \in Values(T)
    PROVE  LET flip == CXor(T, x, CAnd(T, CXor(T, x, y), SignMask(form, T)))
               diff == Arith(T, flip - y)
               bits == CAnd(T, CXor(T, x, y), CXor(T, diff, y))
           IN  diff # Undef /\ (bits < 0 <=> x - y \notin Values(T))
<1> DEFINE k == Width(T) - 1
           h == Half(T)
           mask == SignMask(form, T)
           xy == CXor(T, x, y)
           msk == CAnd(T, xy, mask)
           flip == CXor(T, x, msk)
           diff == Arith(T, flip - y)
           dy == CXor(T, diff, y)
           bits == CAnd(T, xy, dy)
<1>1. Signed(T) BY DEF Signed
<1>2. Promote(T) = T BY PromoteFacts
<1>3. mask = OneBit(T, k) /\ k \in 0..(Width(T) - 1) BY <1>2, MaskFacts
<1>4. h \in Nat \ {0} /\ Values(T) = {z \in Int : -h <= z /\ z <= h - 1} BY <1>1, SignedFacts
<1>5. x \in Int /\ y \in Int /\ -h <= x /\ x <= h - 1 /\ -h <= y /\ y <= h - 1 BY <1>4
<1>6. xy \in Values(T) /\ (xy < 0 <=> ~(x < 0 <=> y < 0)) BY <1>1, XorSign
<1> HIDE DEF xy
<1>7. msk = IF xy < 0 THEN mask ELSE 0
    <2>1. msk = IF k \in Ones(T, xy) THEN mask ELSE 0 BY <1>1, <1>3, AndBit
    <2>2. k \in Ones(T, xy) <=> xy < 0 BY <1>1, <1>6, SignBit
    <2> QED BY <2>1, <2>2
<1> HIDE DEF msk, mask
<1>8. flip = IF xy < 0 THEN (IF x < 0 THEN x + h ELSE x - h) ELSE x
    <2>1. CASE xy < 0
        <3>1. flip = CXor(T, x, OneBit(T, k)) BY <1>3, <1>7, <2>1
        <3>2. CXor(T, x, OneBit(T, k)) = IF x < 0 THEN x + h ELSE x - h BY <1>1, <1>3, XorBit
        <3> QED BY <2>1, <3>1, <3>2
    <2>2. CASE ~(xy < 0)
        <3>1. flip = CXor(T, x, 0) BY <1>7, <2>2
        <3> QED BY <1>1, <2>2, <3>1, XorZero
    <2> QED BY <2>1, <2>2
<1> HIDE DEF flip, k, h
<1>9. flip - y \in Values(T) BY <1>4, <1>5, <1>6, <1>8
<1>10. diff = flip - y /\ diff # Undef BY <1>9, ArithFits, ValueFacts
<1> HIDE DEF diff
<1>11. diff \in Values(T) BY <1>9, <1>10
<1>12. dy \in Values(T) /\ (dy < 0 <=> ~(diff < 0 <=> y < 0)) BY <1>1, <1>11, XorSign
<1> HIDE DEF dy
<1>13. bits < 0 <=> xy < 0 /\ dy < 0 BY <1>1, <1>6, <1>12, AndSign
<1> HIDE DEF bits
<1>14. x - y \in Values(T) <=> -h <= x - y /\ x - y <= h - 1 BY <1>4, <1>5
<1>15. bits < 0 <=> x - y \notin Values(T)
    BY <1>4, <1>5, <1>6, <1>8, <1>10, <1>12, <1>13, <1>14
<1> QED BY <1>10, <1>15 DEF bits, dy, diff, flip, msk, mask, xy

\* For char and short the macros evaluate the test and ignore it; it is defined.
LEMMA NarrowSub ==
    ASSUME NEW T \in IntTypes, T.sign, T.size < 3, NEW x \in Values(T), NEW y \in Values(T)
    PROVE  LET P == Promote(T)
               flip == CXor(P, x, CAnd(P, CXor(P, x, y), SignMask("macros", T)))
           IN  Arith(P, flip - y) # Undef
<1> DEFINE P == Promote(T)
           k == Width(T) - 1
           h == Half(T)
           l == Half(P)
           mask == SignMask("macros", T)
           xy == CXor(P, x, y)
           msk == CAnd(P, xy, mask)
           flip == CXor(P, x, msk)
<1>1. Signed(P) /\ mask = OneBit(P, k) /\ k \in 0..(Width(P) - 1) BY MaskFacts
<1>2. 4 * h <= l /\ Values(T) \subseteq Values(P) /\ Width(P) \in Nat /\ P \in IntTypes BY PromoteFacts, TypeFacts
<1>3. h \in Nat \ {0} /\ h = Pow2[k] /\ Values(T) = {z \in Int : -h <= z /\ z <= h - 1}
    <2>1. Signed(T) BY DEF Signed
    <2> QED BY <2>1, SignedFacts
<1>4. l \in Nat \ {0} /\ Values(P) = {z \in Int : -l <= z /\ z <= l - 1} BY <1>1, SignedFacts
<1>5. k # Width(P) - 1
    <2>1. BitFacts(P, k, Pow2[k], l) BY <1>1, BitSizes
    <2> QED BY <1>2, <1>3, <1>4, <2>1 DEF BitFacts
<1>6. x \in Int /\ y \in Int /\ -h <= x /\ x <= h - 1 /\ -h <= y /\ y <= h - 1 BY <1>3
<1>7. msk \in {mask, 0} BY <1>1, AndBit
<1> HIDE DEF msk, mask, xy
<1>8. flip \in {x, x + h, x - h}
    <2>1. CASE msk = 0
        <3>1. flip = CXor(P, x, 0) BY <2>1
        <3> QED BY <1>1, <1>2, <3>1, XorZero
    <2>2. CASE msk = mask
        <3>1. flip = CXor(P, x, OneBit(P, k)) BY <1>1, <2>2
        <3>2. x \in Values(P) /\ k < Width(P) - 1 BY <1>1, <1>2, <1>5
        <3>3. -l <= x - Pow2[k] /\ x + Pow2[k] < l BY <1>2, <1>3, <1>4, <1>6
        <3>4. CXor(P, x, OneBit(P, k)) \in {x + Pow2[k], x - Pow2[k]} BY <1>1, <3>2, <3>3, XorBit
        <3> QED BY <1>3, <3>1, <3>4
    <2> QED BY <1>7, <2>1, <2>2
<1> HIDE DEF flip, P, k, h, l
<1>9. flip - y \in Values(P) BY <1>2, <1>3, <1>4, <1>6, <1>8
<1>10. Arith(P, flip - y) # Undef BY <1>2, <1>9, ArithFits, ValueFacts
<1> QED BY <1>10 DEF flip, P, msk, mask, xy

\* safe_sub_func flips the sign of its first operand under a mask: the test of the
\* overflow is exact for all operands.
LEMMA SubMeans ==
    ASSUME NEW form \in {"macros", "functions"}, NEW T \in IntTypes, NEW x \in Values(T), NEW y \in Values(T)
    PROVE  ScalarWrapper(form, "Sub", T, x, y) = Meaning("Sub", T, x, y)
<1> DEFINE P == Promote(T)
<1>1. x - y \in Int /\ x - y # Undef /\ x \in Int BY ResultFacts, ValueFacts
<1>2. Meaning("Sub", T, x, y) = Exact(T, x - y, x) BY DEF Meaning
<1>3. CASE T.sign
    <2> DEFINE flip == CXor(P, x, CAnd(P, CXor(P, x, y), SignMask(form, T)))
               diff == Arith(P, flip - y)
               bits == CAnd(P, CXor(P, x, y), CXor(P, diff, y))
               c == Test({SignMask(form, T), diff}, bits < 0)
               e == Convert(T, Arith(P, x - y))
    <2>1. ScalarWrapper(form, "Sub", T, x, y) = CIf(Guarded(form, T, c), x, e)
        BY <1>3 DEF ScalarWrapper, sub_s_s
    <2>2. CASE T.size < 3
        <3>1. e = Convert(T, x - y) BY <1>1, <2>2, SumsFit, Computed
        <3>2. Guarded(form, T, c) = 0
            <4>1. CASE form = "functions" BY <2>2, <4>1, SizeCases DEF Guarded
            <4>2. CASE form = "macros"
                <5>1. SignMask(form, T) # Undef BY <1>3, <4>2, MaskFacts
                <5>2. diff # Undef BY <1>3, <2>2, <4>2, NarrowSub
                <5>3. c # Undef
                    <6> HIDE DEF diff, bits
                    <6> QED BY <5>1, <5>2, UndefFacts DEF Test
                <5> HIDE DEF c
                <5> QED BY <2>2, <4>2, <5>3, SizeCases, UndefFacts DEF Guarded, CIf
            <4> QED BY <4>1, <4>2
        <3> HIDE DEF c, e
        <3>3. ScalarWrapper(form, "Sub", T, x, y) = e BY <2>1, <3>2, UndefFacts DEF CIf
        <3> QED BY <1>2, <2>2, <3>1, <3>3, SizeCases DEF Exact
    <2>3. CASE T.size >= 3
        <3>1. P = T BY <2>3, PromoteFacts
        <3>2. diff # Undef /\ (bits < 0 <=> x - y \notin Values(T)) BY <1>3, <2>3, <3>1, WideSub
        <3>3. SignMask(form, T) # Undef BY <1>3, <2>3, MaskFacts
        <3>4. c = IF x - y \notin Values(T) THEN 1 ELSE 0
            <4> HIDE DEF diff, bits
            <4> QED BY <3>2, <3>3 DEF Test
        <3>5. c \in {0, 1} BY <3>4
        <3> HIDE DEF c
        <3>6. ScalarWrapper(form, "Sub", T, x, y) = IF T.size >= 3 /\ c = 1 THEN x ELSE e
            <4> HIDE DEF e
            <4> QED BY <2>1, <3>5, GuardedIf
        <3>7. x - y \in Values(T) => e = x - y BY <3>1, ArithFits, ConvertFits
        <3> HIDE DEF e
        <3> QED BY <1>2, <1>3, <2>3, <3>4, <3>6, <3>7 DEF Exact
    <2> QED BY <2>2, <2>3, SizeCases
<1>4. CASE ~T.sign
    <2>1. ScalarWrapper(form, "Sub", T, x, y) = Convert(T, Arith(P, x - y))
        BY <1>4 DEF ScalarWrapper, sub_u_u
    <2>2. x - y \in Values(P) \/ ~P.sign BY <1>4, SumsFit, PromoteFacts, SizeCases
    <2>3. Convert(T, Arith(P, x - y)) = Convert(T, x - y) BY <1>1, <2>2, Computed
    <2> QED BY <1>2, <1>4, <2>1, <2>3 DEF Exact
<1> QED BY <1>3, <1>4

\* Whatever the operator, a scalar wrapper means what it should, and that is a value.
LEMMA ScalarMeans ==
    ASSUME NEW form \in {"macros", "functions"}, NEW op \in safe_ops \cup {"Minus"}, NEW T \in IntTypes,
           NEW x \in Values(T), NEW y \in Int, op \notin Shifts \cup {"Minus"} => y \in Values(T)
    PROVE  ScalarWrapper(form, op, T, x, y) = Meaning(op, T, x, y) /\ Meaning(op, T, x, y) \in Values(T)
<1>1. ASSUME NEW z \in Int, z # Undef PROVE Exact(T, z, x) \in Values(T) BY <1>1, ConvertValue DEF Exact
<1>2. CASE op = "Minus"
    <2>1. -x \in Int /\ -x # Undef BY ValueFacts
    <2>2. Meaning("Minus", T, x, y) = Exact(T, -x, x) BY DEF Meaning
    <2> QED BY <1>1, <1>2, <2>1, <2>2, MinusMeans
<1>3. CASE op = "Add"
    <2>1. y \in Values(T) BY <1>3 DEF Shifts
    <2>2. Meaning("Add", T, x, y) = Exact(T, x + y, x) BY DEF Meaning
    <2> QED BY <1>1, <1>3, <2>1, <2>2, AddMeans, ResultFacts
<1>4. CASE op = "Sub"
    <2>1. y \in Values(T) BY <1>4 DEF Shifts
    <2>2. Meaning("Sub", T, x, y) = Exact(T, x - y, x) BY DEF Meaning
    <2> QED BY <1>1, <1>4, <2>1, <2>2, SubMeans, ResultFacts
<1>5. CASE op = "Mul"
    <2>1. y \in Values(T) BY <1>5 DEF Shifts
    <2>2. Meaning("Mul", T, x, y) = Exact(T, x * y, x) BY DEF Meaning
    <2> QED BY <1>1, <1>5, <2>1, <2>2, MulMeans, ResultFacts
<1>6. CASE op = "Div"
    <2>1. y \in Values(T) BY <1>6 DEF Shifts
    <2>2. Meaning("Div", T, x, y) = IF y = 0 \/ Quotient(x, y) \notin Values(T) THEN x ELSE Quotient(x, y)
        BY DEF Meaning
    <2> QED BY <1>6, <2>1, <2>2, DivMeans
<1>7. CASE op = "Mod"
    <2>1. y \in Values(T) BY <1>7 DEF Shifts
    <2>2. Meaning("Mod", T, x, y) = IF y = 0 \/ Quotient(x, y) \notin Values(T) THEN x ELSE x - y * Quotient(x, y)
        BY DEF Meaning
    <2>3. y # 0 => x - y * Quotient(x, y) \in Values(T) BY <2>1, QuotientFacts
    <2> QED BY <1>7, <2>1, <2>2, <2>3, DivMeans
<1>8. CASE op \in Shifts BY <1>8, ShiftMeans DEF Shifts
<1> QED BY <1>2, <1>3, <1>4, <1>5, <1>6, <1>7, <1>8 DEF safe_ops, Shifts

-----------------------------------------------------------------------------
(* Vector wrappers. *)

\* A check c of a lane refuses what has no result, and r is the result of the others.
LaneOK(op, T, x, y, c, r) ==
    /\ c \in {0, 1}
    /\ c = 0 <=> LaneMeaning(op, T, x, y) = {}
    /\ c = 1 => r \in LaneMeaning(op, T, x, y) /\ r # Undef

Fits(T, z) == IF T.sign THEN (IF z \in Values(T) THEN {z} ELSE {}) ELSE {Convert(T, z)}

\* A lane is computed in its own type.
LEMMA LaneFits ==
    ASSUME NEW T \in IntTypes, NEW z \in Int, z # Undef
    PROVE  /\ Fits(T, z) = {} <=> T.sign /\ z \notin Values(T)
           /\ Fits(T, z) # {} => Arith(T, z) \in Fits(T, z) /\ Arith(T, z) # Undef
<1>1. CASE T.sign
    <2>1. z \in Values(T) => Arith(T, z) = z /\ z # Undef BY ArithFits
    <2> QED BY <1>1, <2>1 DEF Fits
<1>2. CASE ~T.sign
    <2>1. Convert(T, z) = Arith(T, z)
        <3>1. Convert(T, z) = z % Pow2[Width(T)] BY <1>2 DEF Convert
        <3> QED BY <1>2, <3>1 DEF Arith
    <2>2. Arith(T, z) # Undef BY <1>2, ArithWraps, ValueFacts
    <2>3. Fits(T, z) = {Arith(T, z)} BY <1>2, <2>1 DEF Fits
    <2> QED BY <1>2, <2>2, <2>3
<1> QED BY <1>1, <1>2

\* A check that refuses the sums, differences or products the type does not hold.
LEMMA LaneChecked ==
    ASSUME NEW op, NEW T \in IntTypes, NEW x, NEW y, NEW z \in Int, z # Undef, NEW c,
           LaneMeaning(op, T, x, y) = Fits(T, z),
           c = (IF T.sign /\ z \notin Values(T) THEN 0 ELSE 1)
    PROVE  LaneOK(op, T, x, y, c, Arith(T, z))
<1>1. /\ Fits(T, z) = {} <=> T.sign /\ z \notin Values(T)
      /\ Fits(T, z) # {} => Arith(T, z) \in Fits(T, z) /\ Arith(T, z) # Undef
    BY LaneFits
<1>2. c \in {0, 1} /\ (c = 0 <=> T.sign /\ z \notin Values(T)) /\ (c = 1 <=> ~(T.sign /\ z \notin Values(T)))
    OBVIOUS
<1> QED BY <1>1, <1>2 DEF LaneOK

\* One lane of a vector wrapper: its check lets through only results that are defined,
\* and refuses only what is not, one lemma for each operator.
LEMMA MinusLane ==
    ASSUME NEW T \in IntTypes, NEW x \in Values(T), NEW y
    PROVE  LaneOK("Minus", T, x, y, check_safe_unary_minus(T, x), Arith(T, -x))
<1>1. -x \in Int /\ -x # Undef BY ValueFacts
<1>2. LaneMeaning("Minus", T, x, y) = Fits(T, -x) BY DEF LaneMeaning, Fits
<1>3. T.sign => (-x \notin Values(T) <=> x = MinOf(T)) BY TypeFacts, ValueFacts
<1>4. check_safe_unary_minus(T, x) = IF T.sign /\ x = MinOf(T) THEN 0 ELSE 1
    BY UndefFacts DEF check_safe_unary_minus, Test, CIf
<1>5. check_safe_unary_minus(T, x) = IF T.sign /\ -x \notin Values(T) THEN 0 ELSE 1 BY <1>3, <1>4
<1> QED BY <1>1, <1>2, <1>5, LaneChecked

LEMMA AddLane ==
    ASSUME NEW T \in IntTypes, NEW x \in Values(T), NEW y \in Values(T)
    PROVE  LaneOK("Add", T, x, y, check_safe_add(T, x, y), Arith(T, x + y))
<1> DEFINE P == Promote(T)
           hi == Arith(P, MaxOf(T) - y)
           lo == Arith(P, MinOf(T) - y)
           over == IF x > 0 /\ y > 0 THEN Test({hi}, x > hi) ELSE 0
           under == IF x < 0 /\ y < 0 THEN Test({lo}, x < lo) ELSE 0
           c == COr(over, under)
<1>1. x + y \in Int /\ x + y # Undef BY ResultFacts
<1>2. LaneMeaning("Add", T, x, y) = Fits(T, x + y) BY DEF LaneMeaning, Fits
<1>3. CASE T.sign
    <2>1. /\ y > 0 => hi = MaxOf(T) - y /\ hi # Undef
          /\ y < 0 => lo = MinOf(T) - y /\ lo # Undef
        <3>1. CASE T.size < 3
            <4>1. MaxOf(T) - y \in Values(P) /\ MinOf(T) - y \in Values(P) /\ P \in IntTypes
                BY <3>1, SumsFit, PromoteFacts
            <4> QED BY <4>1, ArithFits, ValueFacts
        <3>2. CASE T.size >= 3
            <4>1. P = T BY <3>2, PromoteFacts
            <4>2. /\ y > 0 => MaxOf(T) - y \in Values(T)
                  /\ y < 0 => MinOf(T) - y \in Values(T)
                BY <1>3, TypeFacts, ValueFacts
            <4> QED BY <4>1, <4>2, ArithFits, ValueFacts
        <3> QED BY <3>1, <3>2, SizeCases
    <2>2. check_safe_add(T, x, y) = CIf(c, 0, 1) BY <1>3 DEF check_safe_add
    <2> HIDE DEF hi, lo
    <2>3. over = (IF x > 0 /\ y > 0 /\ x > MaxOf(T) - y THEN 1 ELSE 0)
        BY <2>1 DEF Test
    <2>4. under = (IF x < 0 /\ y < 0 /\ x < MinOf(T) - y THEN 1 ELSE 0)
        BY <2>1 DEF Test
    <2> HIDE DEF over, under
    <2>5. c \in {0, 1} /\ (c = 1 <=> \/ x > 0 /\ y > 0 /\ x > MaxOf(T) - y
                                     \/ x < 0 /\ y < 0 /\ x < MinOf(T) - y)
        BY <2>3, <2>4 DEF COr
    <2> HIDE DEF c
    <2>6. x + y \notin Values(T) <=> c = 1 BY <1>3, <2>5, TypeFacts, ValueFacts
    <2>7. check_safe_add(T, x, y) = IF c = 1 THEN 0 ELSE 1 BY <2>2, <2>5, UndefFacts DEF CIf
    <2>8. check_safe_add(T, x, y) = IF T.sign /\ x + y \notin Values(T) THEN 0 ELSE 1
        BY <1>3, <2>6, <2>7
    <2> QED BY <1>1, <1>2, <2>8, LaneChecked
<1>4. CASE ~T.sign
    <2>1. check_safe_add(T, x, y) = IF T.sign /\ x + y \notin Values(T) THEN 0 ELSE 1
        BY <1>4 DEF check_safe_add
    <2> QED BY <1>1, <1>2, <2>1, LaneChecked
<1> QED BY <1>3, <1>4

LEMMA SubLane ==
    ASSUME NEW T \in IntTypes, NEW x \in Values(T), NEW y \in Values(T)
    PROVE  LaneOK("Sub", T, x, y, check_safe_sub(T, x, y), Arith(T, x - y))
<1> DEFINE P == Promote(T)
           hi == Arith(P, MaxOf(T) + y)
           lo == Arith(P, MinOf(T) + y)
           over == IF y < 0 THEN Test({hi}, x > hi) ELSE 0
           under == IF y > 0 THEN Test({lo}, x < lo) ELSE 0
           c == COr(over, under)
<1>1. x - y \in Int /\ x - y # Undef BY ResultFacts
<1>2. LaneMeaning("Sub", T, x, y) = Fits(T, x - y) BY DEF LaneMeaning, Fits
<1>3. CASE T.sign
    <2>1. /\ y < 0 => hi = MaxOf(T) + y /\ hi # Undef
          /\ y > 0 => lo = MinOf(T) + y /\ lo # Undef
        <3>1. CASE T.size < 3
            <4>1. MaxOf(T) + y \in Values(P) /\ MinOf(T) + y \in Values(P) /\ P \in IntTypes
                BY <3>1, SumsFit, PromoteFacts
            <4> QED BY <4>1, ArithFits, ValueFacts
        <3>2. CASE T.size >= 3
            <4>1. P = T BY <3>2, PromoteFacts
            <4>2. /\ y < 0 => MaxOf(T) + y \in Values(T)
                  /\ y > 0 => MinOf(T) + y \in Values(T)
                BY <1>3, TypeFacts, ValueFacts
            <4> QED BY <4>1, <4>2, ArithFits, ValueFacts
        <3> QED BY <3>1, <3>2, SizeCases
    <2>2. check_safe_sub(T, x, y) = CIf(c, 0, 1) BY <1>3 DEF check_safe_sub
    <2> HIDE DEF hi, lo
    <2>3. over = (IF y < 0 /\ x > MaxOf(T) + y THEN 1 ELSE 0) BY <2>1 DEF Test
    <2>4. under = (IF y > 0 /\ x < MinOf(T) + y THEN 1 ELSE 0) BY <2>1 DEF Test
    <2> HIDE DEF over, under
    <2>5. c \in {0, 1} /\ (c = 1 <=> \/ y < 0 /\ x > MaxOf(T) + y
                                     \/ y > 0 /\ x < MinOf(T) + y)
        BY <2>3, <2>4 DEF COr
    <2> HIDE DEF c
    <2>6. x - y \notin Values(T) <=> c = 1 BY <1>3, <2>5, TypeFacts, ValueFacts
    <2>7. check_safe_sub(T, x, y) = IF c = 1 THEN 0 ELSE 1 BY <2>2, <2>5, UndefFacts DEF CIf
    <2>8. check_safe_sub(T, x, y) = IF T.sign /\ x - y \notin Values(T) THEN 0 ELSE 1
        BY <1>3, <2>6, <2>7
    <2> QED BY <1>1, <1>2, <2>8, LaneChecked
<1>4. CASE ~T.sign
    <2>1. check_safe_sub(T, x, y) = IF T.sign /\ x - y \notin Values(T) THEN 0 ELSE 1
        BY <1>4 DEF check_safe_sub
    <2> QED BY <1>1, <1>2, <2>1, LaneChecked
<1> QED BY <1>3, <1>4

LEMMA MulLane ==
    ASSUME NEW T \in IntTypes, NEW x \in Values(T), NEW y \in Values(T)
    PROVE  LaneOK("Mul", T, x, y, check_safe_mul(T, x, y), Arith(T, x * y))
<1> DEFINE P == Promote(T)
           q(lim, d) == CDiv(P, lim, d)
           c == CASE x > 0  /\ y > 0  -> Test({q(MaxOf(T), y)}, x > q(MaxOf(T), y))
                  [] x > 0  /\ y <= 0 -> Test({q(MinOf(T), x)}, y < q(MinOf(T), x))
                  [] x <= 0 /\ y > 0  -> Test({q(MinOf(T), y)}, x < q(MinOf(T), y))
                  [] x < 0  /\ y < 0  -> Test({q(MaxOf(T), y)}, x < q(MaxOf(T), y))
                  [] OTHER -> 0
<1>1. x * y \in Int /\ x * y # Undef /\ x \in Int /\ y \in Int BY ResultFacts, ValueFacts
<1>2. LaneMeaning("Mul", T, x, y) = Fits(T, x * y) BY DEF LaneMeaning, Fits
<1>3. CASE T.sign
    <2>1. P \in IntTypes /\ P.sign /\ Values(T) \subseteq Values(P) BY <1>3, PromoteFacts, SizeCases
    <2>2. ASSUME NEW lim \in {MinOf(T), MaxOf(T)}, NEW d \in Values(T), d # 0, ~(lim = MinOf(T) /\ d = -1)
          PROVE  CDiv(P, lim, d) = Quotient(lim, d) /\ Quotient(lim, d) # Undef
        <3>1. lim \in Values(T) BY TypeFacts
        <3>2. Quotient(lim, d) \in Values(T) BY <2>2, <3>1, QuotientFacts
        <3>3. CDiv(P, lim, d) = Quotient(lim, d) BY <2>1, <2>2, <3>2, ArithFits DEF CDiv
        <3> QED BY <3>2, <3>3, ValueFacts
    <2>3. MinOf(T) # MaxOf(T) BY <1>3, TypeFacts
    <2>4. c \in {0, 1} /\ (c = 1 <=> x * y \notin Values(T))
        <3>1. CASE x > 0 /\ y > 0
            <4>1. c = Test({q(MaxOf(T), y)}, x > q(MaxOf(T), y)) BY <1>1, <3>1
            <4>2. CDiv(P, MaxOf(T), y) = Quotient(MaxOf(T), y) /\ Quotient(MaxOf(T), y) # Undef
                BY <1>1, <2>2, <2>3, <3>1
            <4> QED BY <1>3, <3>1, <4>1, <4>2, ProductTest DEF Test
        <3>2. CASE x > 0 /\ y <= 0
            <4>1. c = Test({q(MinOf(T), x)}, y < q(MinOf(T), x)) BY <1>1, <3>2
            <4>2. CDiv(P, MinOf(T), x) = Quotient(MinOf(T), x) /\ Quotient(MinOf(T), x) # Undef
                BY <1>1, <2>2, <2>3, <3>2
            <4> QED BY <1>3, <3>2, <4>1, <4>2, ProductTest DEF Test
        <3>3. CASE x <= 0 /\ y > 0
            <4>1. c = Test({q(MinOf(T), y)}, x < q(MinOf(T), y)) BY <1>1, <3>3
            <4>2. CDiv(P, MinOf(T), y) = Quotient(MinOf(T), y) /\ Quotient(MinOf(T), y) # Undef
                BY <1>1, <2>2, <2>3, <3>3
            <4> QED BY <1>3, <3>3, <4>1, <4>2, ProductTest DEF Test
        <3>4. CASE x < 0 /\ y < 0
            <4>1. c = Test({q(MaxOf(T), y)}, x < q(MaxOf(T), y)) BY <1>1, <3>4
            <4>2. CDiv(P, MaxOf(T), y) = Quotient(MaxOf(T), y) /\ Quotient(MaxOf(T), y) # Undef
                BY <1>1, <2>2, <2>3, <3>4
            <4>3. x < Quotient(MaxOf(T), y) <=> y * x \notin Values(T) BY <1>1, <1>3, <3>4, ProductTest
            <4>4. y * x = x * y BY <1>1, SMT
            <4> QED BY <4>1, <4>2, <4>3, <4>4 DEF Test
        <3>5. CASE x = 0 /\ y <= 0
            <4>1. c = 0 BY <1>1, <3>5
            <4> QED BY <1>3, <3>5, <4>1, ProductTest
        <3>6. CASE x < 0 /\ y = 0
            <4>1. c = 0 BY <1>1, <3>6
            <4>2. y * x \in Values(T) BY <1>3, <3>6, ProductTest
            <4>3. y * x = x * y BY <1>1, SMT
            <4> QED BY <4>1, <4>2, <4>3
        <3> QED BY <1>1, <3>1, <3>2, <3>3, <3>4, <3>5, <3>6
    <2>5. check_safe_mul(T, x, y) = CIf(c, 0, 1) BY <1>3 DEF check_safe_mul
    <2> HIDE DEF c
    <2>6. check_safe_mul(T, x, y) = IF c = 1 THEN 0 ELSE 1 BY <2>4, <2>5, UndefFacts DEF CIf
    <2>7. check_safe_mul(T, x, y) = IF T.sign /\ x * y \notin Values(T) THEN 0 ELSE 1
        BY <1>3, <2>4, <2>6
    <2> QED BY <1>1, <1>2, <2>7, LaneChecked
<1>4. CASE ~T.sign
    <2>1. check_safe_mul(T, x, y) = IF T.sign /\ x * y \notin Values(T) THEN 0 ELSE 1
        BY <1>4 DEF check_safe_mul
    <2> QED BY <1>1, <1>2, <2>1, LaneChecked
<1> QED BY <1>3, <1>4

LEMMA DivLane ==
    ASSUME NEW T \in IntTypes, NEW x \in Values(T), NEW y \in Values(T)
    PROVE  /\ LaneOK("Div", T, x, y, check_safe_div(T, x, y), CDiv(T, x, y))
           /\ LaneOK("Mod", T, x, y, check_safe_mod(T, x, y), CMod(T, x, y))
<1> DEFINE q == Quotient(x, y)
           r == x - y * Quotient(x, y)
           bad == y = 0 \/ (T.sign /\ x = MinOf(T) /\ y = -1)
<1>1. check_safe_div(T, x, y) = (IF bad THEN 0 ELSE 1) /\ check_safe_mod(T, x, y) = (IF bad THEN 0 ELSE 1)
    BY UndefFacts DEF check_safe_div, check_safe_mod, Test, CIf
<1>2. LaneMeaning("Div", T, x, y) = (IF y = 0 THEN {} ELSE Fits(T, q)) BY DEF LaneMeaning, Fits
<1>3. LaneMeaning("Mod", T, x, y) = (IF y = 0 \/ Fits(T, q) = {} THEN {} ELSE {r}) BY DEF LaneMeaning, Fits
<1>4. /\ y # 0 /\ q \in Values(T) => CDiv(T, x, y) = q /\ CMod(T, x, y) = r
      /\ y # 0 => (q \notin Values(T) <=> T.sign /\ x = MinOf(T) /\ y = -1)
    BY DivisionFacts
<1>5. y # 0 => q \in Int /\ r \in Values(T) BY QuotientFacts
<1> HIDE DEF q, r
<1>6. y # 0 => (Fits(T, q) = {} <=> bad) /\ (~bad => Fits(T, q) = {q})
    <2>1. q \in Values(T) => Convert(T, q) = q BY ConvertFits
    <2> QED BY <1>4, <2>1 DEF Fits
<1>7. ~bad => CDiv(T, x, y) = q /\ CMod(T, x, y) = r /\ q # Undef /\ r # Undef BY <1>4, <1>5, ValueFacts
<1>8. y = 0 => bad OBVIOUS
<1> HIDE DEF bad
<1> QED BY <1>1, <1>2, <1>3, <1>6, <1>7, <1>8 DEF LaneOK

LEMMA ShiftLane ==
    ASSUME NEW T \in IntTypes, NEW x \in Values(T), NEW y \in Values(T)
    PROVE  /\ LaneOK("LShift", T, x, y, check_safe_lshift(T, x, y), CShl(T, x, y))
           /\ LaneOK("RShift", T, x, y, check_safe_rshift(T, x, y), CShr(T, x, y))
<1> DEFINE P == Promote(T)
           bad == x < 0 \/ y \notin 0..(Width(T) - 1)
           most == CShr(P, MaxOf(T), y)
           z == x * Pow2[y]
           test == (T.sign /\ (y < 0 \/ x < 0)) \/ y >= Width(T)
<1>1. x \in Int /\ y \in Int /\ (~T.sign => x >= 0 /\ y >= 0) /\ Width(T) \in Nat /\ MaxOf(T) \in Nat
    BY TypeFacts, ValueFacts
<1>2. P \in IntTypes /\ Values(T) \subseteq Values(P) /\ Width(T) <= Width(P) /\ Width(P) \in Nat
    BY PromoteFacts, TypeFacts
<1>3. test <=> bad BY <1>1
<1>4. check_safe_lshift(T, x, y) = CIf(COr(IF test THEN 1 ELSE 0, Test({most}, x > most)), 0, 1)
    BY DEF check_safe_lshift, Test
<1>5. check_safe_rshift(T, x, y) = (IF test THEN 0 ELSE 1)
    BY UndefFacts DEF check_safe_rshift, Test, CIf
<1>6. LaneMeaning("LShift", T, x, y) = (IF bad \/ z > MaxOf(T) THEN {} ELSE {z}) BY DEF LaneMeaning
<1>7. LaneMeaning("RShift", T, x, y) = (IF bad THEN {} ELSE {x \div Pow2[y]}) BY DEF LaneMeaning
<1> HIDE DEF test
<1>8. CASE bad
    <2>1. check_safe_lshift(T, x, y) = 0 /\ check_safe_rshift(T, x, y) = 0
        BY <1>3, <1>4, <1>5, <1>8, UndefFacts DEF COr, CIf
    <2> HIDE DEF bad
    <2> QED BY <1>6, <1>7, <1>8, <2>1 DEF LaneOK
<1>9. CASE ~bad
    <2>1. x >= 0 /\ y \in Nat /\ y < Width(T) /\ y < Width(P) BY <1>1, <1>2, <1>9
    <2> HIDE DEF bad, P
    <2>2. /\ most = MaxOf(T) \div Pow2[y] /\ most # Undef
          /\ x > MaxOf(T) \div Pow2[y] <=> z > MaxOf(T)
        BY <1>2, <2>1, ShiftFacts
    <2>3. /\ z <= MaxOf(T) => z \in Values(T) /\ CShl(T, x, y) = z
          /\ x \div Pow2[y] \in Values(T) /\ CShr(T, x, y) = x \div Pow2[y]
        BY <2>1, ShiftFacts
    <2>4. z \in Int
        <3>1. Pow2[y] \in Int BY <1>1, <2>1, TypeFacts, WidthFacts, PowNat DEF PowTop
        <3> QED BY <1>1, <3>1
    <2> HIDE DEF z, most
    <2>5. Test({most}, x > most) = IF z > MaxOf(T) THEN 1 ELSE 0 BY <2>2 DEF Test
    <2>6. check_safe_lshift(T, x, y) = (IF z > MaxOf(T) THEN 0 ELSE 1) /\ check_safe_rshift(T, x, y) = 1
        BY <1>3, <1>4, <1>5, <1>9, <2>5, UndefFacts DEF COr, CIf
    <2>7. z <= MaxOf(T) => z # Undef BY <2>3, ValueFacts
    <2>8. x \div Pow2[y] # Undef BY <2>3, ValueFacts
    <2>9. LaneOK("LShift", T, x, y, check_safe_lshift(T, x, y), CShl(T, x, y))
        BY <1>1, <1>6, <1>9, <2>3, <2>4, <2>6, <2>7 DEF LaneOK
    <2>10. LaneOK("RShift", T, x, y, check_safe_rshift(T, x, y), CShr(T, x, y))
        BY <1>7, <1>9, <2>3, <2>6, <2>8 DEF LaneOK
    <2> QED BY <2>9, <2>10
<1> QED BY <1>8, <1>9

\* All lanes are computed or none, and one is left out only where it has no result.
AllOrNothing(op, T, a, b, r) ==
    LET lane(i) == LaneMeaning(op, T, a[i], IF op = "Minus" THEN 0 ELSE b[i])
    IN  /\ IF \E i \in DOMAIN a : lane(i) = {} THEN r = a ELSE \A i \in DOMAIN a : r[i] \in lane(i)
        /\ DOMAIN r = DOMAIN a /\ \A i \in DOMAIN r : r[i] # Undef

\* What the check c and the result f of every lane have to be.
LanesOK(op, T, a, b, c, oks, f) ==
    /\ DOMAIN f = DOMAIN a /\ oks = {c[i] : i \in DOMAIN a}
    /\ \A i \in DOMAIN a : LaneOK(op, T, a[i], IF op = "Minus" THEN 0 ELSE b[i], c[i], f[i])

\* When each lane is right, the wrapper computes all lanes or returns its first operand.
LEMMA LanewiseMeans ==
    ASSUME NEW op, NEW T \in IntTypes, NEW n \in Nat, NEW a \in [1..n -> Values(T)], NEW b,
           NEW c, NEW oks, NEW f, LanesOK(op, T, a, b, c, oks, f)
    PROVE  AllOrNothing(op, T, a, b, Lanewise(oks, a, f))
<1> DEFINE y(i) == IF op = "Minus" THEN 0 ELSE b[i]
           r == Lanewise(oks, a, f)
<1>1. DOMAIN a = 1..n OBVIOUS
<1>2. \A i \in DOMAIN a : /\ c[i] \in {0, 1} /\ (c[i] = 0 <=> LaneMeaning(op, T, a[i], y(i)) = {})
                          /\ c[i] = 1 => f[i] \in LaneMeaning(op, T, a[i], y(i)) /\ f[i] # Undef
    BY <1>1 DEF LaneOK, LanesOK
<1>3. Undef \notin oks BY <1>2, UndefFacts DEF LanesOK
<1>4. 0 \in oks <=> \E i \in DOMAIN a : LaneMeaning(op, T, a[i], y(i)) = {} BY <1>2 DEF LanesOK
<1>5. r = IF 0 \in oks THEN a ELSE f BY <1>3 DEF Lanewise
<1>6. \A i \in DOMAIN a : a[i] # Undef BY <1>1, ValueFacts
<1>7. DOMAIN f = DOMAIN a BY DEF LanesOK
<1>8. 0 \notin oks => \A i \in DOMAIN a : f[i] \in LaneMeaning(op, T, a[i], y(i)) /\ f[i] # Undef
    BY <1>2 DEF LanesOK
<1> HIDE DEF r
<1>9. CASE 0 \in oks
    <2>1. r = a BY <1>5, <1>9
    <2>2. DOMAIN r = DOMAIN a /\ \A i \in DOMAIN r : r[i] # Undef BY <1>6, <2>1
    <2> QED BY <1>4, <1>9, <2>1, <2>2 DEF AllOrNothing, r
<1>10. CASE 0 \notin oks
    <2>1. r = f BY <1>5, <1>10
    <2>2. DOMAIN r = DOMAIN a /\ \A i \in DOMAIN r : r[i] # Undef BY <1>7, <1>8, <1>10, <2>1
    <2>3. \A i \in DOMAIN a : r[i] \in LaneMeaning(op, T, a[i], y(i)) BY <1>8, <1>10, <2>1
    <2> QED BY <1>4, <1>10, <2>2, <2>3 DEF AllOrNothing, r
<1> QED BY <1>9, <1>10

LEMMA VectorMeans ==
    ASSUME NEW op \in safe_ops \cup {"Minus"}, NEW T \in IntTypes, NEW n \in Nat,
           NEW a \in [1..n -> Values(T)], NEW b, op # "Minus" => b \in [1..n -> Values(T)]
    PROVE  AllOrNothing(op, T, a, b, VectorWrapper(op, T, a, b))
<1>1. DOMAIN a = 1..n /\ \A i \in 1..n : a[i] \in Values(T) OBVIOUS
<1>2. op # "Minus" => \A i \in 1..n : b[i] \in Values(T) OBVIOUS
<1>3. CASE op = "Minus"
    <2> DEFINE c == [i \in 1..n |-> check_safe_unary_minus(T, a[i])]
               oks == {c[i] : i \in DOMAIN a}
               f == [i \in DOMAIN a |-> Arith(T, -a[i])]
    <2>1. {check_safe_unary_minus(T, a[i]) : i \in DOMAIN a} = oks BY <1>1
    <2>2. VectorWrapper(op, T, a, b) = Lanewise(oks, a, f)
        BY <1>3, <2>1, Zenon DEF VectorWrapper, safe_unary_minus
    <2>3. LanesOK(op, T, a, b, c, oks, f)
        BY <1>1, <1>3, MinusLane DEF LanesOK
    <2> HIDE DEF c, oks, f
    <2>4. AllOrNothing(op, T, a, b, Lanewise(oks, a, f)) BY <2>3, LanewiseMeans, Zenon
    <2> QED BY <2>2, <2>4, Zenon
<1>4. CASE op = "Add"
    <2> DEFINE c == [i \in 1..n |-> check_safe_add(T, a[i], b[i])]
               oks == {c[i] : i \in DOMAIN a}
               f == [i \in DOMAIN a |-> Arith(T, a[i] + b[i])]
    <2>1. {check_safe_add(T, a[i], b[i]) : i \in DOMAIN a} = oks BY <1>1
    <2>2. VectorWrapper(op, T, a, b) = Lanewise(oks, a, f)
        BY <1>4, <2>1 DEF VectorWrapper, safe_add
    <2>3. LanesOK(op, T, a, b, c, oks, f)
        BY <1>1, <1>2, <1>4, AddLane DEF LanesOK
    <2> HIDE DEF c, oks, f
    <2>4. AllOrNothing(op, T, a, b, Lanewise(oks, a, f)) BY <2>3, LanewiseMeans, Zenon
    <2> QED BY <2>2, <2>4, Zenon
<1>5. CASE op = "Sub"
    <2> DEFINE c == [i \in 1..n |-> check_safe_sub(T, a[i], b[i])]
               oks == {c[i] : i \in DOMAIN a}
               f == [i \in DOMAIN a |-> Arith(T, a[i] - b[i])]
    <2>1. {check_safe_sub(T, a[i], b[i]) : i \in DOMAIN a} = oks BY <1>1
    <2>2. VectorWrapper(op, T, a, b) = Lanewise(oks, a, f)
        BY <1>5, <2>1 DEF VectorWrapper, safe_sub
    <2>3. LanesOK(op, T, a, b, c, oks, f)
        BY <1>1, <1>2, <1>5, SubLane DEF LanesOK
    <2> HIDE DEF c, oks, f
    <2>4. AllOrNothing(op, T, a, b, Lanewise(oks, a, f)) BY <2>3, LanewiseMeans, Zenon
    <2> QED BY <2>2, <2>4, Zenon
<1>6. CASE op = "Mul"
    <2> DEFINE c == [i \in 1..n |-> check_safe_mul(T, a[i], b[i])]
               oks == {c[i] : i \in DOMAIN a}
               f == [i \in DOMAIN a |-> Arith(T, a[i] * b[i])]
    <2>1. {check_safe_mul(T, a[i], b[i]) : i \in DOMAIN a} = oks BY <1>1
    <2>2. VectorWrapper(op, T, a, b) = Lanewise(oks, a, f)
        BY <1>6, <2>1 DEF VectorWrapper, safe_mul
    <2>3. LanesOK(op, T, a, b, c, oks, f)
        BY <1>1, <1>2, <1>6, MulLane DEF LanesOK
    <2> HIDE DEF c, oks, f
    <2>4. AllOrNothing(op, T, a, b, Lanewise(oks, a, f)) BY <2>3, LanewiseMeans, Zenon
    <2> QED BY <2>2, <2>4, Zenon
<1>7. CASE op = "Div"
    <2> DEFINE c == [i \in 1..n |-> check_safe_div(T, a[i], b[i])]
               oks == {c[i] : i \in DOMAIN a}
               f == [i \in DOMAIN a |-> CDiv(T, a[i], b[i])]
    <2>1. {check_safe_div(T, a[i], b[i]) : i \in DOMAIN a} = oks BY <1>1
    <2>2. VectorWrapper(op, T, a, b) = Lanewise(oks, a, f)
        BY <1>7, <2>1 DEF VectorWrapper, safe_div
    <2>3. LanesOK(op, T, a, b, c, oks, f)
        BY <1>1, <1>2, <1>7, DivLane DEF LanesOK
    <2> HIDE DEF c, oks, f
    <2>4. AllOrNothing(op, T, a, b, Lanewise(oks, a, f)) BY <2>3, LanewiseMeans, Zenon
    <2> QED BY <2>2, <2>4, Zenon
<1>8. CASE op = "Mod"
    <2> DEFINE c == [i \in 1..n |-> check_safe_mod(T, a[i], b[i])]
               oks == {c[i] : i \in DOMAIN a}
               f == [i \in DOMAIN a |-> CMod(T, a[i], b[i])]
    <2>1. {check_safe_mod(T, a[i], b[i]) : i \in DOMAIN a} = oks BY <1>1
    <2>2. VectorWrapper(op, T, a, b) = Lanewise(oks, a, f)
        BY <1>8, <2>1 DEF VectorWrapper, safe_mod
    <2>3. LanesOK(op, T, a, b, c, oks, f)
        BY <1>1, <1>2, <1>8, DivLane DEF LanesOK
    <2> HIDE DEF c, oks, f
    <2>4. AllOrNothing(op, T, a, b, Lanewise(oks, a, f)) BY <2>3, LanewiseMeans, Zenon
    <2> QED BY <2>2, <2>4, Zenon
<1>9. CASE op = "LShift"
    <2> DEFINE c == [i \in 1..n |-> check_safe_lshift(T, a[i], b[i])]
               oks == {c[i] : i \in DOMAIN a}
               f == [i \in DOMAIN a |-> CShl(T, a[i], b[i])]
    <2>1. {check_safe_lshift(T, a[i], b[i]) : i \in DOMAIN a} = oks BY <1>1
    <2>2. VectorWrapper(op, T, a, b) = Lanewise(oks, a, f)
        BY <1>9, <2>1 DEF VectorWrapper, safe_lshift
    <2>3. LanesOK(op, T, a, b, c, oks, f)
        BY <1>1, <1>2, <1>9, ShiftLane DEF LanesOK
    <2> HIDE DEF c, oks, f
    <2>4. AllOrNothing(op, T, a, b, Lanewise(oks, a, f)) BY <2>3, LanewiseMeans, Zenon
    <2> QED BY <2>2, <2>4, Zenon
<1>10. CASE op = "RShift"
    <2> DEFINE c == [i \in 1..n |-> check_safe_rshift(T, a[i], b[i])]
               oks == {c[i] : i \in DOMAIN a}
               f == [i \in DOMAIN a |-> CShr(T, a[i], b[i])]
    <2>1. {check_safe_rshift(T, a[i], b[i]) : i \in DOMAIN a} = oks BY <1>1
    <2>2. VectorWrapper(op, T, a, b) = Lanewise(oks, a, f)
        BY <1>10, <2>1 DEF VectorWrapper, safe_rshift
    <2>3. LanesOK(op, T, a, b, c, oks, f)
        BY <1>1, <1>2, <1>10, ShiftLane DEF LanesOK
    <2> HIDE DEF c, oks, f
    <2>4. AllOrNothing(op, T, a, b, Lanewise(oks, a, f)) BY <2>3, LanewiseMeans, Zenon
    <2> QED BY <2>2, <2>4, Zenon
<1> QED BY <1>3, <1>4, <1>5, <1>6, <1>7, <1>8, <1>9, <1>10 DEF safe_ops, Shifts

-----------------------------------------------------------------------------
(* Built-in calls. *)

\* A conversion keeps the bits it has room for.
LEMMA ConvertBits ==
    ASSUME NEW S \in IntTypes, NEW z \in Int, z # Undef
    PROVE  Convert(S, z) % Pow2[Width(S)] = z % Pow2[Width(S)]
<1> DEFINE p == Pow2[Width(S)]
           u == z % p
<1>1. p \in Nat \ {0} BY TypeFacts
<1>2. u \in 0..(p - 1) BY <1>1, DivMod
<1>3. Convert(S, z) \in {u, u - p} BY DEF Convert
<1> HIDE DEF u, p
<1>4. u % p = u
    <2>1. u = 0 * p + u BY <1>1, <1>2
    <2> QED BY <1>1, <1>2, <2>1, DivUnique
<1>5. (u - p) % p = u
    <2>1. u - p = (-1) * p + u BY <1>1, <1>2
    <2>2. u - p \in Int /\ -1 \in Int BY <1>1, <1>2
    <2> QED BY <1>1, <1>2, <2>1, <2>2, DivUnique
<1>6. Convert(S, z) % p = u BY <1>3, <1>4, <1>5
<1> QED BY <1>6 DEF u, p

\* Nothing is lost on the way to a type that is at least as wide and back.
LEMMA ConvertBack ==
    ASSUME NEW T \in IntTypes, NEW S \in IntTypes, Width(T) <= Width(S), NEW v \in Values(T)
    PROVE  Convert(T, Convert(S, v)) = v
<1> DEFINE c == Convert(S, v)
<1>1. v \in Int /\ v # Undef BY ValueFacts
<1>2. c \in Values(S) BY <1>1, ConvertValue
<1>3. c \in Int /\ c # Undef BY <1>2, ValueFacts
<1>4. c % Pow2[Width(S)] = v % Pow2[Width(S)] BY <1>1, ConvertBits
<1> HIDE DEF c
<1>5. Convert(T, c) = Convert(T, c % Pow2[Width(S)]) BY <1>3, ConvertMod
<1>6. Convert(T, v) = Convert(T, v % Pow2[Width(S)]) BY <1>1, ConvertMod
<1>7. Convert(T, v) = v BY ConvertFits
<1> QED BY <1>4, <1>5, <1>6, <1>7 DEF c

\* The casts to and from the type that a warp intrinsic takes lose nothing.
LEMMA CastBack ==
    ASSUME NEW T \in IntTypes, NEW v \in Values(T)
    PROVE  Convert(T, CastArg(T, v)) = v
<1> DEFINE S == IF T.size = 4 THEN [T EXCEPT !.sign = TRUE] ELSE eInt
<1>1. S \in IntTypes
    <2>1. [T EXCEPT !.sign = TRUE] \in IntTypes BY DEF IntTypes
    <2>2. eInt \in IntTypes BY DEF IntTypes, eInt
    <2> QED BY <2>1, <2>2
<1>2. Width(T) <= Width(S)
    <2>1. T.size \in 1..4 BY DEF IntTypes
    <2>2. T.size = 4 => S.size = 4 BY DEF IntTypes
    <2>3. T.size # 4 => S.size = 3 BY DEF eInt
    <2> HIDE DEF S
    <2> QED BY <2>1, <2>2, <2>3, WidthFacts DEF Width
<1>3. CastArg(T, v) = Convert(S, v) BY DEF CastArg
<1> HIDE DEF S
<1> QED BY <1>1, <1>2, <1>3, ConvertBack

LEMMA CastInjective ==
    ASSUME NEW T \in IntTypes, NEW v \in Values(T), NEW w \in Values(T)
    PROVE  CastArg(T, v) = CastArg(T, w) <=> v = w
<1>1. Convert(T, CastArg(T, v)) = v BY CastBack
<1>2. Convert(T, CastArg(T, w)) = w BY CastBack
<1> QED BY <1>1, <1>2

\* The bit operations stay in their type.
LEMMA BitValues ==
    ASSUME NEW T \in IntTypes, NEW x, NEW y
    PROVE  CXor(T, x, y) \in Values(T) /\ CAnd(T, x, y) \in Values(T)
<1>1. Width(T) \in 1..PowTop
    <2>1. Width(T) \in 1..Bits[4] /\ Bits[4] \in Nat BY TypeFacts, WidthFacts
    <2>2. PowTop = 2 * Bits[4] + 2 BY DEF PowTop
    <2> QED BY <2>1, <2>2
<1>2. ASSUME NEW S PROVE Convert(T, Number(Width(T), S)) \in Values(T)
    <2>1. Number(Width(T), S) \in 0..(Pow2[Width(T)] - 1) BY <1>1, NumberFacts
    <2>2. Pow2[Width(T)] \in Nat /\ Half(T) \in Nat /\ Pow2[Width(T)] = 2 * Half(T)
          /\ 2 * Half(T) <= Pow2[2 * Bits[4]] BY TypeFacts
    <2>3. Pow2[2 * Bits[4]] \in Nat
        <3>1. 2 * Bits[4] \in 0..PowTop BY WidthFacts DEF PowTop
        <3> QED BY <3>1, PowNat
    <2> DEFINE n == Number(Width(T), S)
    <2> HIDE DEF n
    <2>4. n \in Int /\ n <= 2 * Pow2[2 * Bits[4]] BY <2>1, <2>2, <2>3 DEF n
    <2>5. n # Undef BY <2>4, NotUndef
    <2>6. Convert(T, n) \in Values(T) BY <2>4, <2>5, ConvertValue
    <2> QED BY <2>6 DEF n
<1> QED BY <1>2 DEF CXor, CAnd

LEMMA ReduceTypeFacts ==
    ASSUME NEW T \in IntTypes
    PROVE  ReduceType(T) \in IntTypes /\ Width(T) <= Width(ReduceType(T)) /\ Values(T) \subseteq Values(ReduceType(T))
<1> DEFINE R == ReduceType(T)
<1>1. R \in IntTypes /\ R.sign = T.sign BY DEF ReduceType, IntTypes, eInt
<1>2. Width(T) <= Width(R)
    <2>1. T.size \in 1..4 BY DEF IntTypes
    <2>2. R.size = IF T.size = 4 THEN 4 ELSE 3 BY DEF ReduceType, eInt
    <2> HIDE DEF R
    <2> QED BY <2>1, <2>2, WidthFacts DEF Width
<1>3. Half(T) <= Half(R)
    <2> HIDE DEF R
    <2>1. Width(T) \in Nat \ {0} /\ Width(R) \in 1..Bits[4] /\ Bits[4] \in Nat BY <1>1, TypeFacts, WidthFacts
    <2>2. Width(T) - 1 \in Nat /\ Width(R) - 1 \in 0..PowTop BY <2>1 DEF PowTop
    <2>3. CASE Width(T) = Width(R)
        <3>1. Half(T) \in Nat BY TypeFacts
        <3>2. Half(R) = Half(T) BY <2>3 DEF Half
        <3> QED BY <3>1, <3>2
    <2>4. CASE Width(T) < Width(R)
        <3>1. 2 * Pow2[Width(T) - 1] <= Pow2[Width(R) - 1]
            <4>1. Width(T) - 1 < Width(R) - 1 BY <2>1, <2>4
            <4> QED BY <2>2, <4>1, PowUp
        <3>2. Half(T) \in Nat /\ Half(R) \in Nat BY <1>1, TypeFacts
        <3> QED BY <3>1, <3>2 DEF Half
    <2> QED BY <1>2, <2>1, <2>3, <2>4
<1> HIDE DEF R
<1>4. /\ Half(T) \in Nat /\ MinOf(T) = (IF T.sign THEN -Half(T) ELSE 0)
      /\ MaxOf(T) = (IF T.sign THEN Half(T) - 1 ELSE 2 * Half(T) - 1)
      /\ Values(T) = {z \in Int : MinOf(T) <= z /\ z <= MaxOf(T)} BY TypeFacts
<1>5. /\ Half(R) \in Nat /\ MinOf(R) = (IF R.sign THEN -Half(R) ELSE 0)
      /\ MaxOf(R) = (IF R.sign THEN Half(R) - 1 ELSE 2 * Half(R) - 1)
      /\ Values(R) = {z \in Int : MinOf(R) <= z /\ z <= MaxOf(R)} BY <1>1, TypeFacts
<1>6. Values(T) \subseteq Values(R) BY <1>1, <1>3, <1>4, <1>5
<1> QED BY <1>1, <1>2, <1>6 DEF R

LEMMA ReductionValue ==
    ASSUME NEW R \in IntTypes, NEW fn \in WarpReduceTable, NEW x \in Values(R), NEW y \in Values(R)
    PROVE  Reduction(fn, R, x, y) \in Values(R)
<1>1. fn = "reduce_add" => Reduction(fn, R, x, y) \in Values(R)
    <2>1. x + y \in Int /\ x + y # Undef BY ResultFacts
    <2>2. Convert(R, x + y) \in Values(R) BY <2>1, ConvertValue
    <2> QED BY <2>2 DEF Reduction
<1>2. fn = "reduce_min" => Reduction(fn, R, x, y) \in Values(R) BY DEF Reduction
<1>3. fn = "reduce_max" => Reduction(fn, R, x, y) \in Values(R) BY DEF Reduction
<1>4. fn = "reduce_and" => Reduction(fn, R, x, y) \in Values(R) BY BitValues DEF Reduction
<1>5. fn = "reduce_or" => Reduction(fn, R, x, y) \in Values(R) BY BitValues DEF Reduction
<1>6. fn = "reduce_xor" => Reduction(fn, R, x, y) \in Values(R) BY BitValues DEF Reduction
<1> QED BY <1>1, <1>2, <1>3, <1>4, <1>5, <1>6 DEF WarpReduceTable

\* f[i] combines the first i + 1 lanes.
Combines(f, fn, R, n, a) ==
    /\ f \in [0..n -> Values(R)] /\ f[0] = a[1]
    /\ \A i \in 1..n : f[i] = Reduction(fn, R, f[i - 1], a[i + 1])

\* safe_reduce combines the lanes one after the other,
LEMMA ReduceDef ==
    ASSUME NEW T \in IntTypes, NEW fn \in WarpReduceTable, NEW m \in Nat, NEW a \in [1..m + 1 -> Values(T)]
    PROVE  \E f : Combines(f, fn, ReduceType(T), m, a) /\ safe_reduce(fn, T, a) = f[m]
<1> DEFINE R == ReduceType(T)
           b == Convert(R, a[1])
           y(i) == Convert(R, a[i + 1])
           h == [x \in Values(R) \X (1..m) |-> Reduction(fn, R, x[1], y(x[2]))]
           Is(f) == f = [i \in 0..m |-> IF i = 0 THEN b ELSE Reduction(fn, R, f[i - 1], y(i))]
           c == CHOOSE f : Is(f)
<1>1. R \in IntTypes /\ Values(T) \subseteq Values(R) BY ReduceTypeFacts
<1>2. ASSUME NEW k \in 1..m + 1 PROVE Convert(R, a[k]) = a[k] /\ a[k] \in Values(R)
    <2>1. a[k] \in Values(R) BY <1>1
    <2> HIDE DEF R
    <2> QED BY <1>1, <2>1, ConvertFits
<1>3. b = a[1] /\ b \in Values(R) BY <1>2
<1>4. \A i \in 1..m : y(i) = a[i + 1] /\ y(i) \in Values(R)
    <2> SUFFICES ASSUME NEW i \in 1..m PROVE y(i) = a[i + 1] /\ y(i) \in Values(R) OBVIOUS
    <2>1. i + 1 \in 1..m + 1 OBVIOUS
    <2> QED BY <1>2, <2>1
<1>5. Len(a) - 1 = m
    <2>1. a \in Seq(Values(T)) OBVIOUS
    <2>2. Len(a) \in Nat /\ DOMAIN a = 1..Len(a) BY <2>1
    <2>3. DOMAIN a = 1..m + 1 OBVIOUS
    <2>4. m + 1 \in 1..Len(a) /\ (Len(a) > 0 => Len(a) \in 1..m + 1)
        <3>1. m + 1 \in DOMAIN a BY <2>3
        <3>2. Len(a) > 0 => Len(a) \in DOMAIN a BY <2>2
        <3> QED BY <3>1, <3>2, <2>2, <2>3
    <2> QED BY <2>2, <2>4
<1>6. safe_reduce(fn, T, a) = c[m]
    <2>1. safe_reduce(fn, T, a) = (CHOOSE f : f = [i \in 0..(Len(a) - 1) |->
              IF i = 0 THEN Convert(R, a[1]) ELSE Reduction(fn, R, f[i - 1], Convert(R, a[i + 1]))])[Len(a) - 1]
        BY DEF safe_reduce
    <2> QED BY <1>5, <2>1, Zenon
<1> HIDE DEF R, b, y
<1>7. h \in [Values(R) \X (1..m) -> Values(R)]
    <2>1. ASSUME NEW x \in Values(R) \X (1..m) PROVE Reduction(fn, R, x[1], y(x[2])) \in Values(R)
        <3>1. x[1] \in Values(R) /\ x[2] \in 1..m OBVIOUS
        <3>2. y(x[2]) \in Values(R) BY <1>4, <3>1
        <3> QED BY <1>1, <3>1, <3>2, ReductionValue
    <2> QED BY <2>1
<1>8. PICK f \in [0..m -> Values(R)] : Recursive(f, m, b, h)
    <2> HIDE DEF h
    <2> QED BY <1>3, <1>7, Recursion
<1>9. \A i \in 0..m : i # 0 => h[<<f[i - 1], i>>] = Reduction(fn, R, f[i - 1], y(i))
    <2> SUFFICES ASSUME NEW i \in 0..m, i # 0
                 PROVE h[<<f[i - 1], i>>] = Reduction(fn, R, f[i - 1], y(i)) OBVIOUS
    <2>1. i - 1 \in 0..m /\ i \in 1..m OBVIOUS
    <2>2. f[i - 1] \in Values(R) BY <1>8, <2>1
    <2>3. <<f[i - 1], i>> \in Values(R) \X (1..m) BY <2>1, <2>2
    <2> QED BY <2>3
<1>10. Is(f)
    <2> HIDE DEF h
    <2> QED BY <1>8, <1>9 DEF Recursive
<1>11. Is(c) BY <1>10, Zenon
<1> HIDE DEF c
<1>12. c[0] = b /\ \A i \in 1..m : c[i] = Reduction(fn, R, c[i - 1], y(i)) BY <1>11
<1>13. 0..m \subseteq {i \in 0..m : c[i] \in Values(R)}
    <2>1. 0 \in {i \in 0..m : c[i] \in Values(R)} BY <1>3, <1>12
    <2>2. ASSUME NEW i \in 0..(m - 1), i \in {j \in 0..m : c[j] \in Values(R)}
          PROVE  i + 1 \in {j \in 0..m : c[j] \in Values(R)}
        <3>1. i + 1 \in 1..m /\ i + 1 \in 0..m /\ i + 1 - 1 = i OBVIOUS
        <3>2. c[i] \in Values(R) BY <2>2
        <3>3. c[i + 1] = Reduction(fn, R, c[i], y(i + 1)) BY <1>12, <3>1
        <3>4. y(i + 1) \in Values(R) BY <1>4, <3>1
        <3>5. c[i + 1] \in Values(R) BY <1>1, <3>2, <3>3, <3>4, ReductionValue
        <3> QED BY <3>1, <3>5
    <2> QED BY <2>1, <2>2, Upto
<1>14. c = [i \in 0..m |-> c[i]] BY <1>11
<1>15. c \in [0..m -> Values(R)] BY <1>13, <1>14
<1>16. \A i \in 1..m : c[i] = Reduction(fn, R, c[i - 1], a[i + 1]) BY <1>4, <1>12
<1>17. Combines(c, fn, R, m, a) BY <1>3, <1>12, <1>15, <1>16 DEF Combines
<1> QED BY <1>6, <1>17 DEF R

\* r is the least, or the greatest, of the first i lanes.
Least(r, a, i) == /\ \E k \in 1..i : r = a[k]
                  /\ \A k \in 1..i : r <= a[k]
Greatest(r, a, i) == /\ \E k \in 1..i : r = a[k]
                     /\ \A k \in 1..i : r >= a[k]

\* so that it stays in its type, and finds the least and the greatest lane.
LEMMA ReduceFacts ==
    ASSUME NEW T \in IntTypes, NEW fn \in WarpReduceTable, NEW n \in Nat \ {0}, NEW a \in [1..n -> Values(T)]
    PROVE  /\ safe_reduce(fn, T, a) \in Values(ReduceType(T))
           /\ fn = "reduce_min" => Least(safe_reduce(fn, T, a), a, n)
           /\ fn = "reduce_max" => Greatest(safe_reduce(fn, T, a), a, n)
<1> DEFINE m == n - 1
           R == ReduceType(T)
<1>1. m \in Nat /\ n = m + 1 OBVIOUS
<1>2. a \in [1..m + 1 -> Values(T)] BY <1>1
<1> HIDE DEF m
<1>3. PICK f : Combines(f, fn, R, m, a) /\ safe_reduce(fn, T, a) = f[m] BY <1>1, <1>2, ReduceDef
<1> HIDE DEF R
<1>4. /\ f \in [0..m -> Values(R)] /\ f[0] = a[1]
      /\ \A i \in 1..m : f[i] = Reduction(fn, R, f[i - 1], a[i + 1]) BY <1>3 DEF Combines
<1>5. \A k \in 1..n : a[k] \in Int BY ValueFacts
<1>6. fn = "reduce_min" => 0..m \subseteq {i \in 0..m : Least(f[i], a, i + 1)}
    <2> SUFFICES ASSUME fn = "reduce_min" PROVE 0..m \subseteq {i \in 0..m : Least(f[i], a, i + 1)} OBVIOUS
    <2>1. 0 \in {i \in 0..m : Least(f[i], a, i + 1)} BY <1>1, <1>4, <1>5 DEF Least
    <2>2. ASSUME NEW i \in 0..(m - 1), i \in {j \in 0..m : Least(f[j], a, j + 1)}
          PROVE  i + 1 \in {j \in 0..m : Least(f[j], a, j + 1)}
        <3>1. i + 1 \in 1..m /\ i + 1 \in 0..m /\ i + 1 - 1 = i /\ i + 2 \in 1..n /\ i + 1 + 1 = i + 2 BY <1>1
        <3>2. f[i + 1] = Reduction(fn, R, f[i], a[i + 2]) BY <1>4, <3>1
        <3>3. f[i + 1] = IF a[i + 2] < f[i] THEN a[i + 2] ELSE f[i] BY <3>2 DEF Reduction
        <3>4. Least(f[i], a, i + 1) BY <2>2
        <3>5. f[i] \in Int /\ a[i + 2] \in Int BY <1>1, <1>5, <3>1, <3>4 DEF Least
        <3>6. \E k \in 1..i + 2 : f[i + 1] = a[k]
            <4>1. PICK k \in 1..i + 1 : f[i] = a[k] BY <3>4 DEF Least
            <4>2. k \in 1..i + 2 /\ i + 2 \in 1..i + 2 OBVIOUS
            <4> QED BY <3>3, <4>1, <4>2
        <3>7. ASSUME NEW k \in 1..i + 2 PROVE f[i + 1] <= a[k]
            <4>1. k \in 1..n BY <1>1
            <4>2. a[k] \in Int BY <1>5, <4>1
            <4>3. CASE k = i + 2 BY <3>3, <3>5, <4>3
            <4>4. CASE k # i + 2
                <5>1. k \in 1..i + 1 BY <4>4
                <5>2. f[i] <= a[k] BY <3>4, <5>1 DEF Least
                <5> QED BY <3>3, <3>5, <4>2, <5>2
            <4> QED BY <4>3, <4>4
        <3>8. Least(f[i + 1], a, i + 1 + 1) BY <3>1, <3>6, <3>7 DEF Least
        <3> QED BY <3>1, <3>8

    <2> QED BY <1>1, <2>1, <2>2, Upto
<1>7. fn = "reduce_max" => 0..m \subseteq {i \in 0..m : Greatest(f[i], a, i + 1)}
    <2> SUFFICES ASSUME fn = "reduce_max" PROVE 0..m \subseteq {i \in 0..m : Greatest(f[i], a, i + 1)} OBVIOUS
    <2>1. 0 \in {i \in 0..m : Greatest(f[i], a, i + 1)} BY <1>1, <1>4, <1>5 DEF Greatest
    <2>2. ASSUME NEW i \in 0..(m - 1), i \in {j \in 0..m : Greatest(f[j], a, j + 1)}
          PROVE  i + 1 \in {j \in 0..m : Greatest(f[j], a, j + 1)}
        <3>1. i + 1 \in 1..m /\ i + 1 \in 0..m /\ i + 1 - 1 = i /\ i + 2 \in 1..n /\ i + 1 + 1 = i + 2 BY <1>1
        <3>2. f[i + 1] = Reduction(fn, R, f[i], a[i + 2]) BY <1>4, <3>1
        <3>3. f[i + 1] = IF a[i + 2] > f[i] THEN a[i + 2] ELSE f[i] BY <3>2 DEF Reduction
        <3>4. Greatest(f[i], a, i + 1) BY <2>2
        <3>5. f[i] \in Int /\ a[i + 2] \in Int BY <1>1, <1>5, <3>1, <3>4 DEF Greatest
        <3>6. \E k \in 1..i + 2 : f[i + 1] = a[k]
            <4>1. PICK k \in 1..i + 1 : f[i] = a[k] BY <3>4 DEF Greatest
            <4>2. k \in 1..i + 2 /\ i + 2 \in 1..i + 2 OBVIOUS
            <4> QED BY <3>3, <4>1, <4>2
        <3>7. ASSUME NEW k \in 1..i + 2 PROVE f[i + 1] >= a[k]
            <4>1. k \in 1..n BY <1>1
            <4>2. a[k] \in Int BY <1>5, <4>1
            <4>3. CASE k = i + 2 BY <3>3, <3>5, <4>3
            <4>4. CASE k # i + 2
                <5>1. k \in 1..i + 1 BY <4>4
                <5>2. f[i] >= a[k] BY <3>4, <5>1 DEF Greatest
                <5> QED BY <3>3, <3>5, <4>2, <5>2
            <4> QED BY <4>3, <4>4
        <3>8. Greatest(f[i + 1], a, i + 1 + 1) BY <3>1, <3>6, <3>7 DEF Greatest
        <3> QED BY <3>1, <3>8
    <2> QED BY <1>1, <2>1, <2>2, Upto
<1>8. m \in 0..m BY <1>1
<1>9. fn = "reduce_min" => Least(f[m], a, n) BY <1>1, <1>6, <1>8
<1>10. fn = "reduce_max" => Greatest(f[m], a, n) BY <1>1, <1>7, <1>8
<1>11. f[m] \in Values(R) BY <1>4, <1>8
<1> QED BY <1>3, <1>9, <1>10, <1>11 DEF R

\* What a safe atomic leaves in its cell is defined.
LEMMA AtomicMeans ==
    ASSUME NEW T \in IntTypes, T.size >= 3, NEW fn \in AtomicTable, fn \in {"Inc", "Dec"} => T = eUInt,
           NEW old \in Values(T), NEW cmp \in Values(T), NEW v \in Values(T)
    PROVE  AtomicCell(fn, T, old, cmp, v) # Undef
<1>1. old # Undef /\ v # Undef /\ old \in Int /\ v \in Int BY ValueFacts
<1>2. CXor(T, CXor(T, old, v), CAnd(T, old, v)) # Undef /\ CXor(T, old, v) # Undef /\ CAnd(T, old, v) # Undef
    BY BitValues, ValueFacts
<1>3. CASE fn = "Add"
    <2> DEFINE c == check_safe_add(T, old, v)
               z == Arith(T, old + v)
    <2>1. LaneOK("Add", T, old, v, c, z) BY AddLane
    <2>2. ~T.sign => c = 1 BY DEF check_safe_add
    <2>3. safe_atomicAdd(T, old, v) = CIf(c, z, old) BY <2>2 DEF safe_atomicAdd
    <2> HIDE DEF c, z
    <2>4. CIf(c, z, old) # Undef BY <1>1, <2>1, UndefFacts DEF LaneOK, CIf
    <2> QED BY <1>3, <2>3, <2>4 DEF AtomicCell
<1>4. CASE fn = "Sub"
    <2> DEFINE c == check_safe_sub(T, old, v)
               z == Arith(T, old - v)
    <2>1. LaneOK("Sub", T, old, v, c, z) BY SubLane
    <2>2. ~T.sign => c = 1 BY DEF check_safe_sub
    <2>3. safe_atomicSub(T, old, v) = CIf(c, z, old) BY <2>2 DEF safe_atomicSub
    <2> HIDE DEF c, z
    <2>4. CIf(c, z, old) # Undef BY <1>1, <2>1, UndefFacts DEF LaneOK, CIf
    <2> QED BY <1>4, <2>3, <2>4 DEF AtomicCell
<1>5. CASE fn \in {"Min", "Max", "Exch", "CAS", "And", "Or", "Xor"}
    <2>1. Passthrough(fn, T, old, cmp, v) \in
              {v, old, CAnd(T, old, v), CXor(T, CXor(T, old, v), CAnd(T, old, v)), CXor(T, old, v)}
        BY <1>5 DEF Passthrough
    <2>2. AtomicCell(fn, T, old, cmp, v) = Passthrough(fn, T, old, cmp, v) BY <1>5 DEF AtomicCell
    <2> QED BY <1>1, <1>2, <2>1, <2>2
<1>6. CASE fn \in {"Inc", "Dec"}
    <2>1. T = eUInt /\ ~T.sign BY <1>6 DEF eUInt
    <2>2. /\ Values(T) = {z \in Int : MinOf(T) <= z /\ z <= MaxOf(T)} /\ MinOf(T) = 0 /\ MaxOf(T) \in Nat
        BY <2>1, TypeFacts
    <2>3. fn = "Inc" => Passthrough(fn, T, old, cmp, v) \in Values(T)
        <3>1. fn = "Inc" => Passthrough(fn, T, old, cmp, v) = IF old >= v THEN 0 ELSE old + 1 BY DEF Passthrough
        <3>2. 0 \in Values(T) BY <2>2
        <3>3. ~(old >= v) => old + 1 \in Values(T) BY <1>1, <2>2
        <3> QED BY <3>1, <3>2, <3>3
    <2>4. fn = "Dec" => Passthrough(fn, T, old, cmp, v) \in Values(T)
        <3>1. fn = "Dec" => Passthrough(fn, T, old, cmp, v) = IF old = 0 \/ old > v THEN v ELSE old - 1
            BY DEF Passthrough
        <3>2. ~(old = 0 \/ old > v) => old - 1 \in Values(T) BY <1>1, <2>2
        <3> QED BY <3>1, <3>2
    <2>5. AtomicCell(fn, T, old, cmp, v) = Passthrough(fn, T, old, cmp, v) BY <1>6 DEF AtomicCell
    <2> QED BY <1>6, <2>3, <2>4, <2>5, ValueFacts
<1> QED BY <1>3, <1>4, <1>5, <1>6 DEF AtomicTable

\* ++ and -- on an unsigned object.
LEMMA IncrMeans ==
    ASSUME NEW T \in IntTypes, ~T.sign, NEW a \in Values(T), NEW z \in {a + 1, a - 1}
    PROVE  Convert(T, Arith(Promote(T), z)) # Undef
<1>1. 1 \in Values(T)
    <2>1. /\ MinOf(T) = 0 /\ MaxOf(T) = 2 * Half(T) - 1 /\ Half(T) \in Nat \ {0}
          /\ Values(T) = {i \in Int : MinOf(T) <= i /\ i <= MaxOf(T)} BY TypeFacts
    <2> QED BY <2>1
<1>2. z \in Int /\ z # Undef BY <1>1, ResultFacts
<1>3. z \in Values(Promote(T)) \/ ~Promote(T).sign
    <2>1. CASE T.size < 3 BY <1>1, <2>1, SumsFit
    <2>2. CASE T.size >= 3 BY <2>2, PromoteFacts
    <2> QED BY <2>1, <2>2, SizeCases
<1>4. Convert(T, Arith(Promote(T), z)) = Convert(T, z) BY <1>2, <1>3, Computed
<1>5. Convert(T, z) \in Values(T) BY <1>2, ConvertValue
<1> QED BY <1>4, <1>5, ValueFacts

WarpResult(op, T, a, arg) ==
    [l \in DOMAIN a |->
         CASE op \in WarpShuffleTable -> safe_shfl(T, a, l, arg)
           [] op \in WarpReduceTable -> safe_reduce(op, T, a)
           [] op \in {"match_any", "match_any_sync"} -> safe_match_any(T, a, l)
           [] OTHER -> safe_match_all(T, a)]

WarpExact(op, T, a, r) ==
    LET vs == {a[l] : l \in DOMAIN a}
    IN  \A l \in DOMAIN a :
            CASE op \in WarpShuffleTable -> Convert(T, r[l]) = a[l]
              [] op = "reduce_min" -> r[l] \in vs /\ \A v \in vs : r[l] <= v
              [] op = "reduce_max" -> r[l] \in vs /\ \A v \in vs : r[l] >= v
              [] op \in WarpReduceTable -> Convert(T, r[l]) \in Values(T)
              [] op \in {"match_any", "match_any_sync"} ->
                    \A k \in DOMAIN a : (k \in r[l]) <=> (a[k] = a[l])
              [] OTHER -> (r[l] # {}) <=> (vs = {a[l]})

\* What a warp call returns is what its lanes hold.
LEMMA WarpMeans ==
    ASSUME NEW op \in WarpShuffleTable \cup WarpReduceTable \cup WarpMatchTable, NEW T \in IntTypes,
           NEW n \in Nat \ {0}, NEW a \in [1..n -> Values(T)], NEW arg
    PROVE  WarpExact(op, T, a, WarpResult(op, T, a, arg))
<1> DEFINE r == WarpResult(op, T, a, arg)
           vs == {a[l] : l \in DOMAIN a}
<1>1. DOMAIN a = 1..n /\ \A l \in 1..n : a[l] \in Values(T) OBVIOUS
<1>2. CASE op \in WarpShuffleTable
    <2>0. /\ op \notin WarpReduceTable /\ op \notin WarpMatchTable /\ op # "reduce_min" /\ op # "reduce_max"
          /\ op \notin {"match_any", "match_any_sync"}
        BY <1>2 DEF WarpShuffleTable, WarpReduceTable, WarpMatchTable
    <2>1. ASSUME NEW l \in DOMAIN a PROVE Convert(T, r[l]) = a[l]
        <3>1. r[l] = CastArg(T, a[l]) BY <1>2, <2>0 DEF WarpResult, safe_shfl, ShuffleSource
        <3>2. a[l] \in Values(T) BY <1>1
        <3>3. Convert(T, CastArg(T, a[l])) = a[l] BY <3>2, CastBack
        <3> QED BY <3>1, <3>3
    <2> HIDE DEF r
    <2> QED BY <1>2, <2>0, <2>1 DEF WarpExact, r
<1>3. CASE op \in WarpReduceTable
    <2> DEFINE s == safe_reduce(op, T, a)
    <2>0. op \notin WarpShuffleTable /\ op \notin {"match_any", "match_any_sync"}
        BY <1>3 DEF WarpShuffleTable, WarpReduceTable
    <2>1. ASSUME NEW l \in DOMAIN a PROVE r[l] = s
        <3> HIDE DEF s
        <3> QED BY <1>3, <2>0 DEF WarpResult, s
    <2>2. /\ s \in Values(ReduceType(T))
          /\ op = "reduce_min" => Least(s, a, n)
          /\ op = "reduce_max" => Greatest(s, a, n) BY <1>3, ReduceFacts
    <2> HIDE DEF s, r
    <2>3. ReduceType(T) \in IntTypes BY ReduceTypeFacts
    <2>4. s \in Int /\ s # Undef BY <2>2, <2>3, ValueFacts
    <2>5. Convert(T, s) \in Values(T) BY <2>4, ConvertValue
    <2>6. op = "reduce_min" => s \in vs /\ \A v \in vs : s <= v BY <1>1, <2>2 DEF Least
    <2>7. op = "reduce_max" => s \in vs /\ \A v \in vs : s >= v BY <1>1, <2>2 DEF Greatest
    <2> HIDE DEF vs
    <2>9. ASSUME NEW l \in DOMAIN a
          PROVE  CASE op \in WarpShuffleTable -> Convert(T, r[l]) = a[l]
                   [] op = "reduce_min" -> r[l] \in vs /\ \A v \in vs : r[l] <= v
                   [] op = "reduce_max" -> r[l] \in vs /\ \A v \in vs : r[l] >= v
                   [] op \in WarpReduceTable -> Convert(T, r[l]) \in Values(T)
                   [] op \in {"match_any", "match_any_sync"} ->
                         \A k \in DOMAIN a : (k \in r[l]) <=> (a[k] = a[l])
                   [] OTHER -> (r[l] # {}) <=> (vs = {a[l]})
        BY <1>3, <2>1, <2>5, <2>6, <2>7, <2>0 DEF WarpReduceTable
    <2> QED BY <2>9, Zenon DEF WarpExact, r, vs
<1>4. CASE op \in WarpMatchTable
    <2>1. op \notin WarpShuffleTable /\ op \notin WarpReduceTable /\ op # "reduce_min" /\ op # "reduce_max"
        BY <1>4 DEF WarpShuffleTable, WarpReduceTable, WarpMatchTable
    <2>2. ASSUME NEW k \in DOMAIN a, NEW l \in DOMAIN a
          PROVE  CastArg(T, a[k]) = CastArg(T, a[l]) <=> a[k] = a[l] BY <1>1, CastInjective
    <2>3. CASE op \in {"match_any", "match_any_sync"}
        <3>1. ASSUME NEW l \in DOMAIN a PROVE r[l] = {k \in DOMAIN a : a[k] = a[l]}
            BY <2>1, <2>2, <2>3 DEF WarpResult, safe_match_any
        <3> HIDE DEF r
        <3> QED BY <2>1, <2>3, <3>1 DEF WarpExact, r
    <2>4. CASE op \notin {"match_any", "match_any_sync"}
        <3>1. ASSUME NEW l \in DOMAIN a
              PROVE  r[l] = IF \A j, k \in DOMAIN a : a[j] = a[k] THEN DOMAIN a ELSE {}
            BY <2>1, <2>2, <2>4 DEF WarpResult, safe_match_all
        <3>2. ASSUME NEW l \in DOMAIN a PROVE (r[l] # {}) <=> (vs = {a[l]})
            <4>1. CASE \A j, k \in DOMAIN a : a[j] = a[k] BY <3>1, <4>1
            <4>2. CASE ~(\A j, k \in DOMAIN a : a[j] = a[k])
                <5>1. r[l] = {} BY <3>1, <4>2
                <5>2. vs # {a[l]} BY <4>2
                <5> QED BY <5>1, <5>2
            <4> QED BY <4>1, <4>2
        <3> HIDE DEF r, vs
        <3>3. ASSUME NEW l \in DOMAIN a
              PROVE  CASE op \in WarpShuffleTable -> Convert(T, r[l]) = a[l]
                       [] op = "reduce_min" -> r[l] \in vs /\ \A v \in vs : r[l] <= v
                       [] op = "reduce_max" -> r[l] \in vs /\ \A v \in vs : r[l] >= v
                       [] op \in WarpReduceTable -> Convert(T, r[l]) \in Values(T)
                       [] op \in {"match_any", "match_any_sync"} ->
                             \A k \in DOMAIN a : (k \in r[l]) <=> (a[k] = a[l])
                       [] OTHER -> (r[l] # {}) <=> (vs = {a[l]})
            BY <2>1, <2>4, <3>2
        <3> QED BY <3>3, Zenon DEF WarpExact, r, vs
    <2> QED BY <2>3, <2>4
<1> QED BY <1>2, <1>3, <1>4

-----------------------------------------------------------------------------
(* The invariant. *)

WrapperOps == safe_ops \cup {"Minus"}

\* The flags that fix the type an operator is computed in; floats only where
\* the command line asks for them.
Flags == [flt : BOOLEAN, op1 : BOOLEAN, op2 : BOOLEAN, size : 1..4]
GoodFlags(opts, f) == f \in Flags /\ (f.flt => opts.float)

WrapperNames == {to_string(f, op) : f \in Flags, op \in WrapperOps}

\* A type that can be requested.
GoodType(t) == /\ t.kind \in {"int", "float", "vector"} /\ t.T \in IntTypes
               /\ t.kind = "vector" => t.len \in 1..4

\* The invocations make_random_unary builds.
UnaryOK(opts, i) ==
    /\ GoodType(i.type) /\ i.op \in eUnaryOps /\ i.rhs = Unknown
    /\ i.type.kind = "vector" => i.op \in {"Minus", "BitNot"} /\ (i.op = "Minus" => i.type.T.sign)
    /\ i.type.kind # "vector" /\ i.op = "Minus" => GoodFlags(opts, i.flags) /\ i.flags.op2 \in BOOLEAN
    /\ i.op = "Minus" \/ i.flags = NoFlags

\* A right operand: only that of a shift is known as a constant.
RhsOK(i) ==
    \/ i.rhs = None
    \/ i.rhs.kind \in {"value", "zero", "0or1"}
    \/ /\ i.rhs.kind = "const" /\ i.op \in Shifts
       /\ IF i.type.kind = "vector" THEN i.rhs.n = Width(LhsType(i))
          ELSE i.rhs.n \in 0..(Width(LhsType(i)) - 1)

\* The invocations make_random_binary and make_random_rhs build.
BinaryOK(opts, i) ==
    /\ DOMAIN i = {"call", "type", "op", "flags", "rhs"}
    /\ GoodType(i.type) /\ i.op \in eBinaryOps /\ RhsOK(i)
    /\ i.type.kind = "vector" => i.op \notin Relationals \cup {"And", "Or"} /\ i.flags = make_dummy_flags
    /\ i.type.kind # "vector" => GoodFlags(opts, i.flags)
    /\ i.flags.flt => i.op \in {"Add", "Sub", "Mul", "Div"} \cup Relationals

PointersOK(opts, i) ==
    /\ GoodType(i.type) /\ i.type.kind # "vector" /\ i.rhs = Unknown
    /\ i.op \in {"CmpEq", "CmpNe"} /\ GoodFlags(opts, i.flags)

\* What is incremented is an unsigned object that is no bit-field.
AssignOK(i) == i.op \in need_no_rhs => i.var.T \in IntTypes /\ ~i.var.T.sign /\ i.var.bitfield = FALSE

BuiltInOK(i) ==
    /\ i.type.T \in IntTypes /\ i.op = i.fn.fn
    /\ <<Len(i.fn.params), i.fn.addr>> = Declared(i.fn.fn)
    /\ i.fn.fn \in AtomicTable =>
           i.type.T.size >= 3 /\ (i.fn.fn \in {"Inc", "Dec"} => i.type.T = eUInt)

InvocationOK(opts, i) ==
    /\ i.call \in {"unary", "binary", "ptrcmp", "assign", "builtin"}
    /\ i.call = "unary" => UnaryOK(opts, i)
    /\ i.call = "binary" => BinaryOK(opts, i)
    /\ i.call = "ptrcmp" => PointersOK(opts, i)
    /\ i.call = "assign" => AssignOK(i)
    /\ i.call = "builtin" => BuiltInOK(i)

\* What can be printed, as far as running it needs.
WrapperOK(opts, o) ==
    /\ o.op \in WrapperOps /\ o.T \in IntTypes /\ o.sign2 \in BOOLEAN
    /\ o.rhs.kind = "const" => o.op \in Shifts /\ o.rhs.n \in 0..(Width(o.T) - 1)
    /\ o.flt => opts.form = "functions" /\ o.op \in {"Add", "Sub", "Mul", "Div"}
    /\ ~o.flt => /\ o.name[2].size \in 1..4 /\ o.name[3] = o.name[2].sign
                 /\ o.op \notin Shifts => o.name[4] = o.name[3]

VectorOK(o) ==
    /\ o.op \in WrapperOps /\ o.T \in IntTypes /\ VectorDefined(o.op, o.T) /\ o.len \in 1..4
    /\ o.rhs.kind = "const" => o.op \in Shifts /\ o.rhs.n = Width(o.T)

PrintedOK(opts, o) ==
    /\ o.call \in {"wrapper", "raw", "vector", "rawvector", "incr", "assign", "builtin"}
    /\ o.call = "wrapper" => WrapperOK(opts, o)
    /\ o.call = "raw" => (o.rhs.kind = "const" => o.rhs.n \in 0..(Width(o.T) - 1))
    /\ o.call = "vector" => VectorOK(o)
    /\ o.call = "rawvector" =>
           o.op \in Bitwise3 \cup {"BitNot"} \/ (~opts.avoid /\ o.op \in safe_ops \cup {"Minus"})
    /\ o.call = "incr" => o.T \in IntTypes /\ ~o.T.sign /\ o.bitfield = FALSE
    /\ o.call = "builtin" =>
           /\ o.T \in IntTypes /\ <<o.arity, o.addr>> = Declared(o.op)
           /\ o.op \in AtomicTable => o.T.size >= 3 /\ (o.op \in {"Inc", "Dec"} => o.T = eUInt)

\* The table of wrapper names: no name twice, and what was decided about a
\* name is decided by its number.
NamesOK ==
    /\ names \in Seq(WrapperNames) /\ Len(names) <= MaxCalls(opt)
    /\ \A i, j \in DOMAIN names : names[i] = names[j] => i = j
    /\ \A u \in used : \E i \in DOMAIN names : u = [name |-> names[i], wrapped |-> safe_math_wrapper(i)]

\* An invocation is built only while there is room for its name and nothing was run.
BuildingOK == inv = None \/ (val = None /\ InvocationOK(opt, inv) /\ Len(names) < MaxCalls(opt))

OutOK == out = None \/ PrintedOK(opt, out)

RanOK == val = None \/ (inv = None /\ out # None /\ NeverUndefined /\ WrapperMeaning /\ LanesExact)

OperatorsInv == opt \in Options /\ NamesOK /\ BuildingOK /\ OutOK /\ RanOK

-----------------------------------------------------------------------------
LEMMA TypeCases ==
    /\ \A T \in IntTypes : T.size \in 1..4 /\ T.sign \in BOOLEAN
    /\ \A s \in BOOLEAN, z \in 1..4 : flags_to_type(s, z) \in IntTypes
    /\ eInt \in IntTypes /\ eUInt \in IntTypes
    BY DEF IntTypes, flags_to_type, eInt, eUInt

LEMMA OptionFacts ==
    ASSUME NEW o \in Options
    PROVE  /\ o.form \in {"macros", "functions"} /\ (o.float => o.form = "functions")
           /\ o.builtins \subseteq {"sync", "vote", "match", "shuffle", "reduce", "atomic"}
           /\ MaxCalls(o) \in Nat
           /\ \A t \in Requests(o) : GoodType(t)
    BY OperatorsAssumption DEF GoodType

LEMMA ArgFacts ==
    ASSUME NEW T \in IntTypes
    PROVE  /\ \A a \in ArgsOf(T) : a \in Values(T)
           /\ \A n \in 1..4 : \A a \in LanesOf(T, n) : a \in [1..n -> Values(T)]
    BY OperatorsAssumption

LEMMA FlagCases == \A f \in Flags : f.flt \in BOOLEAN /\ f.op1 \in BOOLEAN /\ f.op2 \in BOOLEAN /\ f.size \in 1..4
    BY DEF Flags

\* The random flags of an operator on a requested type.
LEMMA RandomFlagFacts ==
    ASSUME NEW t, NEW two, NEW f \in RandomFlags(t, two)
    PROVE  GoodFlags(opt, f) /\ (f.flt => opt.float /\ t.kind = "float")
<1>1. CASE return_float_type(t)
    <2>1. f = [flt |-> TRUE, op1 |-> TRUE, op2 |-> TRUE, size |-> 3] BY <1>1 DEF RandomFlags
    <2> QED BY <1>1, <2>1 DEF GoodFlags, Flags, return_float_type
<1>2. CASE ~return_float_type(t)
    <2>1. f \in [flt : {FALSE}, op1 : BOOLEAN, op2 : BOOLEAN, size : 1..4] BY <1>2 DEF RandomFlags
    <2> QED BY <2>1 DEF GoodFlags, Flags
<1> QED BY <1>1, <1>2

\* The name of a wrapper says which type it is for.
LEMMA NameFacts ==
    ASSUME NEW f \in Flags, NEW op \in WrapperOps
    PROVE  /\ to_string(f, op) \in WrapperNames
           /\ ~f.flt => /\ to_string(f, op)[2].size \in 1..4
                        /\ to_string(f, op)[3] = to_string(f, op)[2].sign
                        /\ op \notin Shifts => to_string(f, op)[4] = to_string(f, op)[3]
    BY FlagCases DEF WrapperNames, to_string, flags_to_type

\* Building leaves the rest alone.
LEMMA BuildInv ==
    ASSUME OperatorsInv, NEW i, Build(i), val = None, Len(names) < MaxCalls(opt),
           i = None \/ InvocationOK(opt, i)
    PROVE  OperatorsInv'
<1>1. opt' = opt /\ names' = names /\ used' = used /\ val' = None /\ out' = None /\ inv' = i BY DEF Build
<1>2. NamesOK' BY <1>1 DEF OperatorsInv, NamesOK, safe_math_wrapper
<1>3. BuildingOK' BY <1>1 DEF BuildingOK
<1>4. OutOK' BY <1>1 DEF OutOK
<1>5. RanOK' BY <1>1 DEF RanOK
<1> QED BY <1>1, <1>2, <1>3, <1>4, <1>5 DEF OperatorsInv

\* Choosing an operator keeps the invariant.
LEMMA UnaryStep ==
    ASSUME OperatorsInv, NEW t \in Requests(opt), make_random_unary(t)
    PROVE  OperatorsInv'
<1>1. PICK op \in UnaryFilter :
          \E f \in IF op = "Minus" /\ t.kind # "vector" THEN RandomFlags(t, FALSE) ELSE {NoFlags} :
              Build(Invocation("unary", t, VectorUnary(t, op), f, Unknown))
    BY DEF make_random_unary
<1>2. PICK f \in IF op = "Minus" /\ t.kind # "vector" THEN RandomFlags(t, FALSE) ELSE {NoFlags} :
          Build(Invocation("unary", t, VectorUnary(t, op), f, Unknown)) BY <1>1
<1> DEFINE v == VectorUnary(t, op)
           i == Invocation("unary", t, v, f, Unknown)
<1>3. i.call = "unary" /\ i.type = t /\ i.op = v /\ i.flags = f /\ i.rhs = Unknown BY DEF Invocation
<1>4. op \in eUnaryOps BY DEF UnaryFilter
<1>5. GoodType(t) BY OptionFacts DEF OperatorsInv
<1>6. v \in eUnaryOps /\ (t.kind = "vector" => v \in {"Minus", "BitNot"} /\ (v = "Minus" => t.T.sign))
      /\ (t.kind # "vector" => v = op)
    BY <1>4 DEF VectorUnary, eUnaryOps
<1>7. op = "Minus" /\ t.kind # "vector" => GoodFlags(opt, f) BY RandomFlagFacts
<1>8. op # "Minus" \/ t.kind = "vector" => f = NoFlags OBVIOUS
<1> HIDE DEF i, v
<1>9. UnaryOK(opt, i) BY <1>3, <1>5, <1>6, <1>7, <1>8, FlagCases DEF UnaryOK, GoodFlags
<1>10. InvocationOK(opt, i) BY <1>3, <1>9 DEF InvocationOK
<1>11. val = None /\ Len(names) < MaxCalls(opt) BY DEF make_random_unary, Idle
<1> QED BY <1>2, <1>10, <1>11, BuildInv DEF i, v

LEMMA BinaryStep ==
    ASSUME OperatorsInv, NEW t \in Requests(opt), make_random_binary(t), t.kind = "float" => opt.float
    PROVE  OperatorsInv'
<1>1. PICK op \in BinaryFilter :
          /\ t.kind = "float" => BinaryOpWorksForFloat(op)
          /\ IF t.kind = "vector"
             THEN Build(Invocation("binary", t, VectorBinary(op), make_dummy_flags, None))
             ELSE \E f \in RandomFlags(t, TRUE) : Build(Invocation("binary", t, op, f, None))
    BY DEF make_random_binary
<1>2. op \in eBinaryOps BY DEF BinaryFilter
<1>3. GoodType(t) BY OptionFacts DEF OperatorsInv
<1>4. val = None /\ Len(names) < MaxCalls(opt) BY DEF make_random_binary, Idle
<1>5. CASE t.kind = "vector"
    <2> DEFINE v == VectorBinary(op)
               i == Invocation("binary", t, v, make_dummy_flags, None)
    <2>1. i.call = "binary" /\ i.type = t /\ i.op = v /\ i.flags = make_dummy_flags /\ i.rhs = None
          /\ DOMAIN i = {"call", "type", "op", "flags", "rhs"}
        BY DEF Invocation
    <2>2. v \in eBinaryOps /\ v \notin Relationals \cup {"And", "Or"}
        BY <1>2 DEF VectorBinary, eBinaryOps, Relationals, Bitwise3, safe_ops, Shifts
    <2>3. make_dummy_flags.flt = FALSE BY DEF make_dummy_flags
    <2>4. Build(i) BY <1>1, <1>5
    <2> HIDE DEF i, v
    <2>5. BinaryOK(opt, i) BY <1>3, <1>5, <2>1, <2>2, <2>3 DEF BinaryOK, RhsOK
    <2>6. InvocationOK(opt, i) BY <2>1, <2>5 DEF InvocationOK
    <2> QED BY <1>4, <2>4, <2>6, BuildInv
<1>6. CASE t.kind # "vector"
    <2>1. PICK f \in RandomFlags(t, TRUE) : Build(Invocation("binary", t, op, f, None)) BY <1>1, <1>6
    <2> DEFINE i == Invocation("binary", t, op, f, None)
    <2>2. i.call = "binary" /\ i.type = t /\ i.op = op /\ i.flags = f /\ i.rhs = None
          /\ DOMAIN i = {"call", "type", "op", "flags", "rhs"}
        BY DEF Invocation
    <2>3. GoodFlags(opt, f) /\ (f.flt => t.kind = "float") BY RandomFlagFacts
    <2>4. f.flt => op \in {"Add", "Sub", "Mul", "Div"} \cup Relationals
        BY <1>1, <2>3 DEF BinaryOpWorksForFloat
    <2> HIDE DEF i
    <2>5. BinaryOK(opt, i) BY <1>2, <1>3, <1>6, <2>2, <2>3, <2>4 DEF BinaryOK, RhsOK
    <2>6. InvocationOK(opt, i) BY <2>2, <2>5 DEF InvocationOK
    <2> QED BY <1>4, <2>1, <2>6, BuildInv DEF i
<1> QED BY <1>5, <1>6

LEMMA PointersStep ==
    ASSUME OperatorsInv, NEW t \in Requests(opt), make_random_binary_ptr_comparison(t)
    PROVE  OperatorsInv'
<1>1. PICK op \in {"CmpEq", "CmpNe"}, f \in RandomFlags([kind |-> "int"], TRUE) :
          Build(Invocation("ptrcmp", t, op, f, Unknown))
    BY DEF make_random_binary_ptr_comparison
<1>2. t.kind # "vector" /\ val = None /\ Len(names) < MaxCalls(opt)
    BY DEF make_random_binary_ptr_comparison, Idle
<1>3. GoodType(t) BY OptionFacts DEF OperatorsInv
<1>4. GoodFlags(opt, f) BY RandomFlagFacts
<1> DEFINE i == Invocation("ptrcmp", t, op, f, Unknown)
<1>5. i.call = "ptrcmp" /\ i.type = t /\ i.op = op /\ i.flags = f /\ i.rhs = Unknown BY DEF Invocation
<1> HIDE DEF i
<1>6. PointersOK(opt, i) BY <1>2, <1>3, <1>4, <1>5 DEF PointersOK
<1>7. InvocationOK(opt, i) BY <1>5, <1>6 DEF InvocationOK
<1> QED BY <1>1, <1>2, <1>7, BuildInv DEF i

\* Every built-in call has the parameters of the function it names.
CallOK(T, c) ==
    /\ <<Len(c.params), c.addr>> = Declared(c.fn)
    /\ c.fn \in AtomicTable => T.size >= 3 /\ (c.fn \in {"Inc", "Dec"} => T = eUInt)

LEMMA OneCall ==
    ASSUME NEW fn, NEW params, NEW addr
    PROVE  /\ Call(fn, params, addr).fn = fn /\ Call(fn, params, addr).params = params
           /\ Call(fn, params, addr).addr = addr
    BY DEF Call

LEMMA Lengths ==
    ASSUME NEW x, NEW y, NEW z
    PROVE  Len(<< >>) = 0 /\ Len(<<x>>) = 1 /\ Len(<<x, y>>) = 2 /\ Len(<<x, y, z>>) = 3
    OBVIOUS

\* A built-in call that the generator draws is one that HIPSmith.h declares.
LEMMA CallFacts ==
    ASSUME NEW T \in IntTypes, NEW on \in SUBSET {"sync", "vote", "match", "shuffle", "reduce", "atomic"},
           NEW c \in BuiltInCalls(on, T)
    PROVE  CallOK(T, c)
<1>1. PICK k \in on : c \in CASE k = "sync"    -> SyncCalls(T)
                              [] k = "vote"    -> WarpVoteCalls(T)
                              [] k = "match"   -> WarpMatchCalls(T)
                              [] k = "shuffle" -> WarpShuffleCalls(T)
                              [] k = "reduce"  -> WarpReduceCalls(T)
                              [] k = "atomic"  -> AtomicCalls(T)
    BY DEF BuiltInCalls
<1>2. CASE k = "sync"
    <2>1. PICK fn \in SyncTable : c = Call(fn, <<eInt>>, 0) BY <1>1, <1>2 DEF SyncCalls
    <2>2. c.fn = fn /\ Len(c.params) = 1 /\ c.addr = 0 BY <2>1, OneCall, Lengths
    <2>3. Declared(fn) = <<1, 0>> /\ fn \notin AtomicTable
        BY DEF Declared, SyncTable, WarpShuffleTable, AtomicTable
    <2> QED BY <2>2, <2>3 DEF CallOK
<1>3. CASE k = "vote"
    <2>1. PICK fn \in WarpVoteTable : c = Call(fn, IF fn = "activemask" THEN << >> ELSE <<eInt>>, 0)
        BY <1>1, <1>3 DEF WarpVoteCalls
    <2>2. c.fn = fn /\ Len(c.params) = (IF fn = "activemask" THEN 0 ELSE 1) /\ c.addr = 0
        <3>1. CASE fn = "activemask"
            <4>1. c = Call(fn, << >>, 0) BY <2>1, <3>1
            <4> QED BY <3>1, <4>1, OneCall, Lengths
        <3>2. CASE fn # "activemask"
            <4>1. c = Call(fn, <<eInt>>, 0) BY <2>1, <3>2
            <4> QED BY <3>2, <4>1, OneCall, Lengths
        <3> QED BY <3>1, <3>2
    <2>3. Declared(fn) = (IF fn = "activemask" THEN <<0, 0>> ELSE <<1, 0>>) /\ fn \notin AtomicTable
        BY DEF Declared, WarpVoteTable, WarpShuffleTable, AtomicTable
    <2> QED BY <2>2, <2>3 DEF CallOK
<1>4. CASE k = "match"
    <2> DEFINE type(z) == [sign |-> TRUE, size |-> z]
    <2>1. PICK fn \in WarpMatchTable : \E t : c \in MatchCalls(fn, t)
        <3>1. c \in UNION {UNION {MatchCalls(fn, type(z)) : z \in {3, 4}} : fn \in WarpMatchTable}
            BY <1>1, <1>4 DEF WarpMatchCalls
        <3> HIDE DEF type
        <3>2. PICK fn \in WarpMatchTable : c \in UNION {MatchCalls(fn, type(z)) : z \in {3, 4}} BY <3>1
        <3> QED BY <3>2
    <2>2. PICK t : c \in MatchCalls(fn, t) BY <2>1
    <2>3. CASE fn \in {"match_any", "match_any_sync"}
        <3>1. MatchFallback(fn) = fn BY <2>3 DEF MatchFallback
        <3>2. c = Call(fn, <<t>>, 0) BY <2>2, <3>1 DEF MatchCalls
        <3>3. c.fn = fn /\ Len(c.params) = 1 /\ c.addr = 0 BY <3>2, OneCall, Lengths
        <3>4. Declared(fn) = <<1, 0>> /\ fn \notin AtomicTable BY <2>3 DEF Declared, WarpShuffleTable, AtomicTable
        <3> QED BY <3>3, <3>4 DEF CallOK
    <2>4. CASE fn \in {"match_all", "match_all_sync"}
        <3>1. MatchFallback(fn) # fn /\ MatchFallback(fn) \in {"match_any", "match_any_sync"}
            BY <2>4 DEF MatchFallback
        <3>2. CASE c = Call(fn, <<t, eInt>>, 2)
            <4>1. c.fn = fn /\ Len(c.params) = 2 /\ c.addr = 2 BY <3>2, OneCall, Lengths
            <4>2. Declared(fn) = <<2, 2>> /\ fn \notin AtomicTable BY <2>4 DEF Declared, WarpShuffleTable, AtomicTable
            <4> QED BY <4>1, <4>2 DEF CallOK
        <3>3. CASE c = Call(MatchFallback(fn), <<t>>, 0)
            <4> DEFINE g == MatchFallback(fn)
            <4>1. c.fn = g /\ Len(c.params) = 1 /\ c.addr = 0 BY <3>3, OneCall, Lengths
            <4>2. g \in {"match_any", "match_any_sync"} BY <3>1
            <4> HIDE DEF g
            <4>3. Declared(g) = <<1, 0>> /\ g \notin AtomicTable
                BY <4>2 DEF Declared, WarpShuffleTable, AtomicTable
            <4> QED BY <4>1, <4>3 DEF CallOK
        <3> QED BY <2>2, <3>1, <3>2, <3>3 DEF MatchCalls
    <2> QED BY <2>3, <2>4 DEF WarpMatchTable
<1>5. CASE k = "shuffle"
    <2>1. PICK fn \in WarpShuffleTable :
              c = Call(fn, <<T, IF fn \in {"shfl_up", "shfl_down", "shfl_up_sync", "shfl_down_sync"}
                                THEN eUInt ELSE eInt>>, 0)
        BY <1>1, <1>5 DEF WarpShuffleCalls
    <2>2. c.fn = fn /\ Len(c.params) = 2 /\ c.addr = 0 BY <2>1, OneCall, Lengths
    <2>3. Declared(fn) = <<2, 0>> /\ fn \notin AtomicTable BY DEF Declared, WarpShuffleTable, AtomicTable
    <2> QED BY <2>2, <2>3 DEF CallOK
<1>6. CASE k = "reduce"
    <2>1. PICK fn \in WarpReduceTable : c = Call(fn, <<T>>, 0) BY <1>1, <1>6 DEF WarpReduceCalls
    <2>2. c.fn = fn /\ Len(c.params) = 1 /\ c.addr = 0 BY <2>1, OneCall, Lengths
    <2>3. Declared(fn) = <<1, 0>> /\ fn \notin AtomicTable
        BY DEF Declared, WarpReduceTable, WarpShuffleTable, AtomicTable
    <2> QED BY <2>2, <2>3 DEF CallOK
<1>7. CASE k = "atomic"
    <2>1. T.size \in 1..4 BY TypeCases
    <2>2. c \in AtomicCalls(T) BY <1>1, <1>7
    <2>3. T.size >= 3 BY <2>1, <2>2 DEF AtomicCalls
    <2>4. PICK fn \in AtomicSelector(T) : c = Call(fn, IF fn = "CAS" THEN <<T, T, T>> ELSE <<T, T>>, 1)
        BY <2>1, <2>2, <2>3 DEF AtomicCalls
    <2>5. c.fn = fn /\ Len(c.params) = (IF fn = "CAS" THEN 3 ELSE 2) /\ c.addr = 1
        <3>1. CASE fn = "CAS"
            <4>1. c = Call(fn, <<T, T, T>>, 1) BY <2>4, <3>1
            <4> QED BY <3>1, <4>1, OneCall, Lengths
        <3>2. CASE fn # "CAS"
            <4>1. c = Call(fn, <<T, T>>, 1) BY <2>4, <3>2
            <4> QED BY <3>2, <4>1, OneCall, Lengths
        <3> QED BY <3>1, <3>2
    <2>6. fn \in AtomicTable /\ (fn \in {"Inc", "Dec"} => T = eUInt) BY DEF AtomicSelector
    <2>7. Declared(fn) = IF fn = "CAS" THEN <<3, 1>> ELSE <<2, 1>>
        BY <2>6 DEF Declared, WarpShuffleTable, AtomicTable
    <2> QED BY <2>3, <2>5, <2>6, <2>7 DEF CallOK
<1> QED BY <1>2, <1>3, <1>4, <1>5, <1>6, <1>7

LEMMA BuiltInStep ==
    ASSUME OperatorsInv, NEW t \in Requests(opt), make_random_builtin(t)
    PROVE  OperatorsInv'
<1>1. PICK c \in BuiltInCalls(opt.builtins, t.T) :
          Build([call |-> "builtin", type |-> t, op |-> c.fn, fn |-> c,
                 flags |-> make_dummy_flags, rhs |-> Unknown])
    BY DEF make_random_builtin
<1>2. val = None /\ Len(names) < MaxCalls(opt) BY DEF make_random_builtin, Idle
<1>3. t.T \in IntTypes /\ opt.builtins \subseteq {"sync", "vote", "match", "shuffle", "reduce", "atomic"}
    BY OptionFacts DEF OperatorsInv, GoodType
<1>4. CallOK(t.T, c) BY <1>3, CallFacts
<1> DEFINE i == [call |-> "builtin", type |-> t, op |-> c.fn, fn |-> c,
                 flags |-> make_dummy_flags, rhs |-> Unknown]
<1>5. i.call = "builtin" /\ i.type = t /\ i.op = c.fn /\ i.fn = c OBVIOUS
<1> HIDE DEF i
<1>6. BuiltInOK(i) BY <1>3, <1>4, <1>5 DEF BuiltInOK, CallOK
<1>7. InvocationOK(opt, i) BY <1>5, <1>6 DEF InvocationOK
<1> QED BY <1>1, <1>2, <1>7, BuildInv DEF i

\* Increments are built for unsigned integers only.
LEMMA AssignStep ==
    ASSUME OperatorsInv, NEW t \in Requests(opt) \cup {NoType}, NEW v \in [T : IntTypes, bitfield : BOOLEAN],
           make_random_assign(t, v)
    PROVE  OperatorsInv'
<1>1. PICK op \in AssignOpsProbability(t) : \E lt \in IF t = NoType THEN SelectLType(op) ELSE {t} :
          /\ LhsValid(lt, op, v)
          /\ \E f \in make_possible_compound_assign(lt, op) :
                 Build([call |-> "assign", type |-> lt, op |-> op, flags |-> f, var |-> v,
                        bop |-> compound_to_binary_ops(op), rhs |-> Unknown])
    BY DEF make_random_assign
<1>2. PICK lt \in IF t = NoType THEN SelectLType(op) ELSE {t} :
          /\ LhsValid(lt, op, v)
          /\ \E f \in make_possible_compound_assign(lt, op) :
                 Build([call |-> "assign", type |-> lt, op |-> op, flags |-> f, var |-> v,
                        bop |-> compound_to_binary_ops(op), rhs |-> Unknown])
    BY <1>1
<1>3. PICK f \in make_possible_compound_assign(lt, op) :
          Build([call |-> "assign", type |-> lt, op |-> op, flags |-> f, var |-> v,
                 bop |-> compound_to_binary_ops(op), rhs |-> Unknown])
    BY <1>2
<1>4. val = None /\ Len(names) < MaxCalls(opt) BY DEF make_random_assign, Idle
<1>5. op \in need_no_rhs => lt.kind = "int"
    <2> SUFFICES ASSUME op \in need_no_rhs PROVE lt.kind = "int" OBVIOUS
    <2>1. op # "SimpleAssign" BY DEF need_no_rhs
    <2>2. CASE t = NoType
        <3>1. lt \in SelectLType(op) BY <2>2
        <3> QED BY <2>1, <3>1 DEF SelectLType, AssignOpWorksForFloat
    <2>3. CASE t # NoType
        <3>1. lt = t /\ t \in Requests(opt) BY <2>3
        <3>2. t.kind \in {"int", "float", "vector"} BY <3>1, OptionFacts DEF OperatorsInv, GoodType
        <3>3. t.kind \notin {"float", "vector"} BY <2>1 DEF AssignOpsProbability
        <3> QED BY <3>1, <3>2, <3>3
    <2> QED BY <2>2, <2>3
<1>6. op \in need_no_rhs => ~v.T.sign /\ ~v.bitfield BY <1>2, <1>5 DEF LhsValid
<1> DEFINE i == [call |-> "assign", type |-> lt, op |-> op, flags |-> f, var |-> v,
                 bop |-> compound_to_binary_ops(op), rhs |-> Unknown]
<1>7. i.call = "assign" /\ i.op = op /\ i.var = v OBVIOUS
<1> HIDE DEF i
<1>8. v.T \in IntTypes /\ v.bitfield \in BOOLEAN OBVIOUS
<1>9. AssignOK(i) BY <1>6, <1>7, <1>8 DEF AssignOK
<1>10. InvocationOK(opt, i) BY <1>7, <1>9 DEF InvocationOK
<1> QED BY <1>3, <1>4, <1>10, BuildInv DEF i

\* Dividing by zero is avoided by another operator, never by a shift.
LEMMA RhsStep ==
    ASSUME OperatorsInv, make_random_rhs
    PROVE  OperatorsInv'
<1>1. inv # None /\ inv.call = "binary" /\ inv.rhs = None BY DEF make_random_rhs
<1>2. val = None /\ InvocationOK(opt, inv) /\ Len(names) < MaxCalls(opt)
    BY <1>1 DEF OperatorsInv, BuildingOK
<1>3. BinaryOK(opt, inv) BY <1>1, <1>2 DEF InvocationOK
<1>4. CASE Build(None) BY <1>2, <1>4, BuildInv
<1>5. ASSUME NEW r \in RhsOf(inv), NEW op \in Redrawn(inv, r), Build([inv EXCEPT !.op = op, !.rhs = r])
      PROVE  OperatorsInv'
    <2> DEFINE i == [inv EXCEPT !.op = op, !.rhs = r]
    <2>0. /\ DOMAIN inv = {"call", "type", "op", "flags", "rhs"}
          /\ inv.op \in eBinaryOps /\ RhsOK(inv) /\ GoodType(inv.type) BY <1>3 DEF BinaryOK
    <2>1. /\ DOMAIN i = {"call", "type", "op", "flags", "rhs"}
          /\ i.call = "binary" /\ i.type = inv.type /\ i.flags = inv.flags /\ i.op = op /\ i.rhs = r
        BY <1>1, <2>0
    <2>2. LhsType(i) = LhsType(inv) BY <2>1 DEF LhsType
    <2> HIDE DEF i
    <2>3. RhsOK(i)
        <3>1. CASE inv.op \in Shifts
            <4>1. op = inv.op BY <3>1 DEF Redrawn, Shifts
            <4>2. r.kind = "value" \/ (r.kind = "const" /\ r.n \in ShiftConstants(inv)) BY <3>1 DEF RhsOf
            <4>3. ShiftConstants(inv) = IF i.type.kind = "vector" THEN {Width(LhsType(i))}
                                       ELSE 0..(Width(LhsType(i)) - 1)
                BY <2>1, <2>2 DEF ShiftConstants
            <4> QED BY <2>1, <3>1, <4>1, <4>2, <4>3 DEF RhsOK
        <3>2. CASE inv.op \notin Shifts
            <4>1. r.kind \in {"value", "zero", "0or1"} BY <3>2 DEF RhsOf, Folded
            <4> QED BY <2>1, <4>1 DEF RhsOK
        <3> QED BY <3>1, <3>2
    <2>4. op = inv.op \/ (op \in eBinaryOps \ Shifts /\ ~inv.flags.flt /\ inv.type.kind # "vector")
        <3>1. CASE inv.op \in {"Mod", "Div"} /\ r.kind # "value" /\ ~inv.flags.flt
            <4>1. inv.op \notin Shifts BY <3>1 DEF Shifts
            <4>2. inv.type.kind # "vector" BY <3>1, <4>1 DEF RhsOf, Folded
            <4>3. op \in eBinaryOps \ {"Mod", "Div", "LShift", "RShift"} BY <3>1 DEF Redrawn
            <4> QED BY <3>1, <4>2, <4>3 DEF Shifts
        <3>2. CASE ~(inv.op \in {"Mod", "Div"} /\ r.kind # "value" /\ ~inv.flags.flt) BY <3>2 DEF Redrawn
        <3> QED BY <3>1, <3>2
    <2>5. BinaryOK(opt, i) BY <1>3, <2>0, <2>1, <2>3, <2>4 DEF BinaryOK
    <2>6. InvocationOK(opt, i) BY <2>1, <2>5 DEF InvocationOK
    <2> QED BY <1>2, <1>5, <2>6, BuildInv DEF i
<1> QED BY <1>4, <1>5 DEF make_random_rhs

\* Printing without a wrapper.
LEMMA PlainInv ==
    ASSUME OperatorsInv, inv # None, NEW o, PrintedOK(opt, o),
           out' = o, inv' = None, UNCHANGED <<opt, names, used, val>>
    PROVE  OperatorsInv'
<1>1. val = None BY DEF OperatorsInv, BuildingOK
<1>2. NamesOK' BY DEF OperatorsInv, NamesOK, safe_math_wrapper
<1>3. BuildingOK' BY DEF BuildingOK
<1>4. OutOK' BY DEF OutOK
<1>5. RanOK' BY <1>1 DEF RanOK
<1> QED BY <1>2, <1>3, <1>4, <1>5 DEF OperatorsInv

LEMMA PrintedFacts ==
    ASSUME NEW how, NEW i, NEW name
    PROVE  LET o == Printed(how, i, name)
           IN  /\ o.call = how /\ o.op = i.op /\ o.T = LhsType(i) /\ o.len = i.type.len /\ o.flt = i.flags.flt
               /\ o.sign2 = (i.op \in Shifts /\ i.flags.op2) /\ o.name = name
               /\ o.rhs = IF i.rhs.kind = "const" THEN i.rhs ELSE Unknown
               /\ o.rhs.kind = "const" => i.rhs.kind = "const" /\ o.rhs = i.rhs
    BY DEF Printed, Unknown

\* A name has a number once it was printed, and only one.
LEMMA KnownFacts ==
    ASSUME OperatorsInv, NEW name
    PROVE  /\ names \in Seq(WrapperNames) /\ Len(names) \in Nat /\ DOMAIN names = 1..Len(names)
           /\ Known(name) => to_id(name) \in DOMAIN names /\ names[to_id(name)] = name
           /\ ~Known(name) => to_id(name) = Len(names) + 1 /\ \A i \in DOMAIN names : names[i] # name
<1>1. names \in Seq(WrapperNames) BY DEF OperatorsInv, NamesOK
<1>2. Len(names) \in Nat /\ DOMAIN names = 1..Len(names) BY <1>1
<1>3. ASSUME Known(name) PROVE to_id(name) \in DOMAIN names /\ names[to_id(name)] = name
    <2>1. \E i \in DOMAIN names : names[i] = name BY <1>3 DEF Known
    <2>2. to_id(name) = CHOOSE i \in DOMAIN names : names[i] = name BY <1>3 DEF to_id
    <2> QED BY <2>1, <2>2
<1>4. ~Known(name) => to_id(name) = Len(names) + 1 /\ \A i \in DOMAIN names : names[i] # name
    BY DEF Known, to_id
<1> QED BY <1>1, <1>2, <1>3, <1>4

\* Printing a wrapper: a new name goes to the end of the table, where it keeps its number.
LEMMA WrappedInv ==
    ASSUME OperatorsInv, inv # None, PrintWrapped, inv.op \in WrapperOps, inv.type.kind # "vector",
           GoodFlags(opt, inv.flags), inv.flags.flt => inv.op \in {"Add", "Sub", "Mul", "Div"},
           inv.rhs.kind = "const" => inv.op \in Shifts /\ inv.rhs.n \in 0..(Width(LhsType(inv)) - 1)
    PROVE  OperatorsInv'
<1> DEFINE name == to_string(inv.flags, inv.op)
           id == to_id(name)
           wrapped == safe_math_wrapper(id)
           o == Printed(IF wrapped THEN "wrapper" ELSE "raw", inv, name)
<1>1. /\ out' = o /\ inv' = None /\ UNCHANGED <<opt, val>>
      /\ names' = (IF Known(name) THEN names ELSE Append(names, name))
      /\ used' = used \cup {[name |-> name, wrapped |-> wrapped]} BY DEF PrintWrapped
<1>2. val = None /\ Len(names) < MaxCalls(opt) BY DEF OperatorsInv, BuildingOK
<1>3. opt \in Options /\ MaxCalls(opt) \in Nat /\ (opt.float => opt.form = "functions")
    BY OptionFacts DEF OperatorsInv
<1>4. inv.flags \in Flags /\ (inv.flags.flt => opt.float) BY DEF GoodFlags
<1>5. /\ name \in WrapperNames
      /\ ~inv.flags.flt => /\ name[2].size \in 1..4 /\ name[3] = name[2].sign
                           /\ inv.op \notin Shifts => name[4] = name[3]
    BY <1>4, NameFacts
<1>6. /\ names \in Seq(WrapperNames) /\ Len(names) \in Nat /\ DOMAIN names = 1..Len(names)
      /\ Known(name) => id \in DOMAIN names /\ names[id] = name
      /\ ~Known(name) => id = Len(names) + 1 /\ \A i \in DOMAIN names : names[i] # name
    BY KnownFacts
<1>7. LhsType(inv) \in IntTypes BY <1>4, FlagCases, TypeCases DEF LhsType
<1>8. OutOK'
    <2>1. /\ o.call = (IF wrapped THEN "wrapper" ELSE "raw") /\ o.op = inv.op /\ o.T = LhsType(inv)
          /\ o.flt = inv.flags.flt /\ o.sign2 = (inv.op \in Shifts /\ inv.flags.op2) /\ o.name = name
          /\ o.rhs.kind = "const" => inv.rhs.kind = "const" /\ o.rhs = inv.rhs
        BY PrintedFacts
    <2> HIDE DEF o, name, wrapped
    <2>2. WrapperOK(opt, o) BY <1>3, <1>4, <1>5, <1>7, <2>1 DEF WrapperOK
    <2>3. o.rhs.kind = "const" => o.rhs.n \in 0..(Width(o.T) - 1) BY <2>1
    <2>4. o.call \in {"wrapper", "raw"} BY <2>1
    <2>5. PrintedOK(opt, o) BY <2>2, <2>3, <2>4 DEF PrintedOK
    <2> QED BY <1>1, <2>5 DEF OutOK
<1> HIDE DEF o, name, id
<1>9. NamesOK'
    <2>0. /\ \A i, j \in DOMAIN names : names[i] = names[j] => i = j
          /\ \A u \in used : \E i \in DOMAIN names : u = [name |-> names[i], wrapped |-> safe_math_wrapper(i)]
          /\ Len(names) <= MaxCalls(opt)
        BY DEF OperatorsInv, NamesOK
    <2>1. \A i : safe_math_wrapper(i)' = safe_math_wrapper(i) BY <1>1 DEF safe_math_wrapper
    <2>2. CASE Known(name)
        <3>1. names' = names BY <1>1, <2>2
        <3>2. ASSUME NEW u \in used'
              PROVE  \E i \in DOMAIN names : u = [name |-> names[i], wrapped |-> safe_math_wrapper(i)]
            <4>1. CASE u \in used BY <2>0, <4>1
            <4>2. CASE u = [name |-> name, wrapped |-> wrapped] BY <1>6, <2>2, <4>2
            <4> QED BY <1>1, <4>1, <4>2
        <3> QED BY <1>1, <1>6, <2>0, <2>1, <3>1, <3>2 DEF NamesOK
    <2>3. CASE ~Known(name)
        <3>1. names' = Append(names, name) BY <1>1, <2>3
        <3>2. /\ names' \in Seq(WrapperNames) /\ Len(names') = Len(names) + 1
              /\ \A i \in DOMAIN names : i \in DOMAIN names' /\ names'[i] = names[i]
              /\ DOMAIN names' = 1..(Len(names) + 1) /\ names'[Len(names) + 1] = name
            BY <1>5, <1>6, <3>1
        <3>3. Len(names') <= MaxCalls(opt) BY <1>2, <1>3, <1>6, <3>2
        <3>4. ASSUME NEW i \in DOMAIN names', NEW j \in DOMAIN names', names'[i] = names'[j] PROVE i = j
            <4>1. i \in DOMAIN names \/ i = Len(names) + 1 BY <1>6, <3>2
            <4>2. j \in DOMAIN names \/ j = Len(names) + 1 BY <1>6, <3>2
            <4>3. \A k \in DOMAIN names : names[k] # name BY <1>6, <2>3
            <4> QED BY <2>0, <3>2, <3>4, <4>1, <4>2, <4>3
        <3>5. ASSUME NEW u \in used'
              PROVE  \E i \in DOMAIN names' : u = [name |-> names'[i], wrapped |-> safe_math_wrapper(i)]
            <4>1. CASE u \in used
                <5>1. PICK i \in DOMAIN names : u = [name |-> names[i], wrapped |-> safe_math_wrapper(i)]
                    BY <2>0, <4>1
                <5>2. i \in DOMAIN names' /\ names'[i] = names[i] BY <3>2
                <5> QED BY <5>1, <5>2
            <4>2. CASE u = [name |-> name, wrapped |-> wrapped]
                <5>1. id = Len(names) + 1 BY <1>6, <2>3
                <5>2. id \in DOMAIN names' /\ names'[id] = name BY <1>6, <3>2, <5>1
                <5> QED BY <4>2, <5>2
            <4> QED BY <1>1, <4>1, <4>2
        <3> QED BY <1>1, <2>1, <3>2, <3>3, <3>4, <3>5 DEF NamesOK
    <2> QED BY <2>2, <2>3
<1>10. BuildingOK' BY <1>1 DEF BuildingOK
<1>11. RanOK' BY <1>1, <1>2 DEF RanOK
<1> QED BY <1>1, <1>3, <1>8, <1>9, <1>10, <1>11 DEF OperatorsInv

\* A vector is printed through the overload for its type when it is checked.
LEMMA VectorInv ==
    ASSUME OperatorsInv, inv # None, NEW checked \in BOOLEAN, PrintVector(checked),
           GoodType(inv.type), inv.type.kind = "vector",
           inv.rhs.kind = "const" => inv.op \in Shifts /\ inv.rhs.n = Width(LhsType(inv)),
           checked => inv.op \in WrapperOps /\ VectorDefined(inv.op, inv.type.T),
           ~checked => inv.op \in Bitwise3 \cup {"BitNot"}
    PROVE  OperatorsInv'
<1> DEFINE how == IF checked /\ opt.avoid THEN "vector" ELSE "rawvector"
           o == Printed(how, inv, << >>)
<1>1. out' = o /\ inv' = None /\ UNCHANGED <<opt, names, used, val>> BY DEF PrintVector, PrintPlain
<1>2. /\ o.call = how /\ o.op = inv.op /\ o.T = LhsType(inv) /\ o.len = inv.type.len
      /\ o.rhs.kind = "const" => inv.rhs.kind = "const" /\ o.rhs = inv.rhs
    BY PrintedFacts
<1>3. LhsType(inv) = inv.type.T BY DEF LhsType
<1>4. inv.type.T \in IntTypes /\ inv.type.len \in 1..4 BY DEF GoodType
<1> HIDE DEF o
<1>5. CASE checked /\ opt.avoid
    <2>1. VectorOK(o) BY <1>2, <1>3, <1>4, <1>5 DEF VectorOK
    <2>2. PrintedOK(opt, o) BY <1>2, <1>5, <2>1 DEF PrintedOK
    <2> QED BY <1>1, <2>2, PlainInv
<1>6. CASE ~(checked /\ opt.avoid)
    <2>1. o.op \in Bitwise3 \cup {"BitNot"} \/ (~opt.avoid /\ o.op \in safe_ops \cup {"Minus"})
        BY <1>2, <1>6 DEF WrapperOps
    <2>2. PrintedOK(opt, o) BY <1>2, <1>6, <2>1 DEF PrintedOK
    <2> QED BY <1>1, <2>2, PlainInv
<1> QED BY <1>5, <1>6

\* A plain operator on numbers.
LEMMA RawInv ==
    ASSUME OperatorsInv, inv # None, PrintPlain("raw"),
           inv.rhs.kind = "const" => inv.rhs.n \in 0..(Width(LhsType(inv)) - 1)
    PROVE  OperatorsInv'
<1> DEFINE o == Printed("raw", inv, << >>)
<1>1. out' = o /\ inv' = None /\ UNCHANGED <<opt, names, used, val>> BY DEF PrintPlain
<1>2. /\ o.call = "raw" /\ o.T = LhsType(inv)
      /\ o.rhs.kind = "const" => inv.rhs.kind = "const" /\ o.rhs = inv.rhs BY PrintedFacts
<1> HIDE DEF o
<1>3. PrintedOK(opt, o) BY <1>2 DEF PrintedOK
<1> QED BY <1>1, <1>3, PlainInv

LEMMA BuildingFacts ==
    ASSUME OperatorsInv, inv # None
    PROVE  val = None /\ InvocationOK(opt, inv) /\ Len(names) < MaxCalls(opt)
    BY DEF OperatorsInv, BuildingOK

\* Printing keeps the invariant.
LEMMA OutputBinaryStep ==
    ASSUME OperatorsInv, OutputBinary
    PROVE  OperatorsInv'
<1>1. inv # None /\ inv.call \in {"binary", "ptrcmp"} /\ inv.rhs # None BY DEF OutputBinary
<1>2. InvocationOK(opt, inv) BY <1>1, BuildingFacts
<1>3. CASE inv.call = "ptrcmp"
    <2>1. PointersOK(opt, inv) BY <1>2, <1>3 DEF InvocationOK
    <2>2. inv.type.kind # "vector" /\ inv.op \notin safe_ops /\ inv.rhs.kind = "value"
        BY <2>1 DEF PointersOK, safe_ops, Shifts, Unknown
    <2>3. PrintPlain("raw") BY <2>2 DEF OutputBinary
    <2> QED BY <1>1, <2>2, <2>3, RawInv
<1>4. CASE inv.call = "binary"
    <2>1. BinaryOK(opt, inv) BY <1>2, <1>4 DEF InvocationOK
    <2>2. RhsOK(inv) /\ GoodType(inv.type) /\ inv.op \in eBinaryOps BY <2>1 DEF BinaryOK
    <2>3. CASE inv.type.kind = "vector"
        <3>1. inv.rhs.kind = "const" => inv.op \in Shifts /\ inv.rhs.n = Width(LhsType(inv))
            BY <1>1, <2>2, <2>3 DEF RhsOK
        <3>2. inv.op \notin Relationals \cup {"And", "Or"} BY <2>1, <2>3 DEF BinaryOK
        <3>3. inv.op \notin safe_ops => inv.op \in Bitwise3 \cup {"BitNot"} BY <2>2, <3>2 DEF eBinaryOps
        <3>4. inv.op \in safe_ops => inv.op \in WrapperOps /\ VectorDefined(inv.op, inv.type.T)
            BY DEF WrapperOps, VectorDefined, safe_ops, Shifts
        <3> DEFINE checked == inv.op \in safe_ops
        <3>5. PrintVector(checked) BY <2>3 DEF OutputBinary
        <3>6. checked \in BOOLEAN OBVIOUS
        <3>7. checked => inv.op \in WrapperOps /\ VectorDefined(inv.op, inv.type.T) BY <3>4
        <3>8. ~checked => inv.op \in Bitwise3 \cup {"BitNot"} BY <3>3
        <3> HIDE DEF checked
        <3> QED BY <1>1, <2>2, <2>3, <3>1, <3>5, <3>6, <3>7, <3>8, VectorInv
    <2>4. CASE inv.type.kind # "vector"
        <3>1. inv.rhs.kind = "const" => inv.op \in Shifts /\ inv.rhs.n \in 0..(Width(LhsType(inv)) - 1)
            BY <1>1, <2>2, <2>4 DEF RhsOK
        <3>2. CASE inv.op \in safe_ops /\ opt.avoid
            <4>1. PrintWrapped BY <2>4, <3>2 DEF OutputBinary
            <4>2. inv.op \in WrapperOps BY <3>2 DEF WrapperOps
            <4>3. GoodFlags(opt, inv.flags) BY <2>1, <2>4 DEF BinaryOK
            <4>4. inv.flags.flt => inv.op \in {"Add", "Sub", "Mul", "Div"}
                BY <2>1, <3>2 DEF BinaryOK, safe_ops, Shifts, Relationals
            <4> QED BY <1>1, <2>4, <3>1, <4>1, <4>2, <4>3, <4>4, WrappedInv
        <3>3. CASE ~(inv.op \in safe_ops /\ opt.avoid)
            <4>1. PrintPlain("raw") BY <2>4, <3>3 DEF OutputBinary
            <4> QED BY <1>1, <3>1, <4>1, RawInv
        <3> QED BY <3>2, <3>3
    <2> QED BY <2>3, <2>4
<1> QED BY <1>1, <1>3, <1>4

LEMMA OutputUnaryStep ==
    ASSUME OperatorsInv, OutputUnary
    PROVE  OperatorsInv'
<1>1. inv # None /\ inv.call = "unary" BY DEF OutputUnary
<1>2. InvocationOK(opt, inv) BY <1>1, BuildingFacts
<1>3. UnaryOK(opt, inv) BY <1>1, <1>2 DEF InvocationOK
<1>4. inv.rhs.kind = "value" /\ GoodType(inv.type) BY <1>3 DEF UnaryOK, Unknown
<1>5. CASE inv.type.kind = "vector"
    <2> DEFINE checked == inv.op = "Minus"
    <2>1. PrintVector(checked) BY <1>5 DEF OutputUnary
    <2>2. inv.op \in {"Minus", "BitNot"} /\ (inv.op = "Minus" => inv.type.T.sign) BY <1>3, <1>5 DEF UnaryOK
    <2>3. checked \in BOOLEAN OBVIOUS
    <2>4. checked => inv.op \in WrapperOps /\ VectorDefined(inv.op, inv.type.T)
        BY <2>2 DEF WrapperOps, VectorDefined
    <2>5. ~checked => inv.op \in Bitwise3 \cup {"BitNot"} BY <2>2
    <2> HIDE DEF checked
    <2> QED BY <1>1, <1>4, <1>5, <2>1, <2>3, <2>4, <2>5, VectorInv
<1>6. CASE inv.type.kind # "vector"
    <2>1. CASE inv.op = "Minus" /\ opt.avoid /\ ~inv.flags.flt
        <3>1. PrintWrapped BY <1>6, <2>1 DEF OutputUnary
        <3>2. inv.op \in WrapperOps BY <2>1 DEF WrapperOps
        <3>3. GoodFlags(opt, inv.flags) BY <1>3, <1>6, <2>1 DEF UnaryOK
        <3> QED BY <1>1, <1>4, <1>6, <2>1, <3>1, <3>2, <3>3, WrappedInv
    <2>2. CASE ~(inv.op = "Minus" /\ opt.avoid /\ ~inv.flags.flt)
        <3>1. PrintPlain("raw") BY <1>6, <2>2 DEF OutputUnary
        <3> QED BY <1>1, <1>4, <3>1, RawInv
    <2> QED BY <2>1, <2>2
<1> QED BY <1>5, <1>6

LEMMA OutputAssignStep ==
    ASSUME OperatorsInv, OutputAsExpr
    PROVE  OperatorsInv'
<1>1. inv # None /\ inv.call = "assign" BY DEF OutputAsExpr
<1>2. AssignOK(inv) BY <1>1, BuildingFacts DEF InvocationOK
<1> DEFINE o == [call |-> IF inv.op \in need_no_rhs THEN "incr" ELSE "assign", op |-> inv.bop,
                 T |-> inv.var.T, bitfield |-> inv.var.bitfield]
<1>3. out' = o /\ inv' = None /\ UNCHANGED <<opt, names, used, val>> BY DEF OutputAsExpr
<1>4. o.call = (IF inv.op \in need_no_rhs THEN "incr" ELSE "assign") /\ o.T = inv.var.T
      /\ o.bitfield = inv.var.bitfield OBVIOUS
<1> HIDE DEF o
<1>5. PrintedOK(opt, o) BY <1>2, <1>4 DEF PrintedOK, AssignOK
<1> QED BY <1>1, <1>3, <1>5, PlainInv

LEMMA OutputBuiltInStep ==
    ASSUME OperatorsInv, OutputBuiltIn
    PROVE  OperatorsInv'
<1>1. inv # None /\ inv.call = "builtin" BY DEF OutputBuiltIn
<1>2. BuiltInOK(inv) BY <1>1, BuildingFacts DEF InvocationOK
<1> DEFINE o == [call |-> "builtin", op |-> inv.op, T |-> inv.type.T,
                 arity |-> Len(inv.fn.params), addr |-> inv.fn.addr]
<1>3. out' = o /\ inv' = None /\ UNCHANGED <<opt, names, used, val>> BY DEF OutputBuiltIn
<1>4. /\ o.call = "builtin" /\ o.op = inv.op /\ o.T = inv.type.T
      /\ o.arity = Len(inv.fn.params) /\ o.addr = inv.fn.addr OBVIOUS
<1> HIDE DEF o
<1>5. PrintedOK(opt, o) BY <1>2, <1>4 DEF PrintedOK, BuiltInOK
<1> QED BY <1>1, <1>3, <1>5, PlainInv

\* Once something was run, only what the properties say of it is left to show.
LEMMA RanInv ==
    ASSUME OperatorsInv, NEW a, NEW b, NEW r, Ran(a, b, r), out # None,
           (NeverUndefined /\ WrapperMeaning /\ LanesExact)'
    PROVE  OperatorsInv'
<1>1. inv' = None /\ names' = << >> /\ used' = {} /\ opt' = opt /\ out' = out BY DEF Ran
<1>2. NamesOK'
    <2>1. MaxCalls(opt) \in Nat BY OptionFacts DEF OperatorsInv
    <2>2. << >> \in Seq(WrapperNames) /\ Len(<< >>) = 0 /\ DOMAIN << >> = {} OBVIOUS
    <2> QED BY <1>1, <2>1, <2>2 DEF NamesOK
<1>3. BuildingOK' BY <1>1 DEF BuildingOK
<1>4. OutOK' BY <1>1 DEF OperatorsInv, OutOK
<1>5. RanOK' BY <1>1 DEF RanOK
<1> QED BY <1>1, <1>2, <1>3, <1>4, <1>5 DEF OperatorsInv

LEMMA RunFacts ==
    ASSUME OperatorsInv, NEW how, Runs(how)
    PROVE  inv = None /\ val = None /\ out # None /\ out.call = how /\ PrintedOK(opt, out) /\ opt \in Options
    BY DEF Runs, OperatorsInv, OutOK

LEMMA ValueOfRun ==
    ASSUME NEW a, NEW b, NEW r, Ran(a, b, r)
    PROVE  /\ val' # None /\ val'.a = a /\ val'.b = b /\ val'.r = r /\ out' = out /\ opt' = opt
    BY DEF Ran, None

\* Running what is printed keeps the invariant.
LEMMA RunWrapperStep ==
    ASSUME OperatorsInv, RunWrapper
    PROVE  OperatorsInv'
<1>1. Runs("wrapper") BY DEF RunWrapper
<1>2. out # None /\ out.call = "wrapper" /\ PrintedOK(opt, out) /\ opt \in Options BY <1>1, RunFacts
<1>3. WrapperOK(opt, out) BY <1>2 DEF PrintedOK
<1>4. out.op \in WrapperOps /\ out.T \in IntTypes BY <1>3 DEF WrapperOK
<1> DEFINE bs == CASE out.op = "Minus" -> {0}
                   [] out.rhs.kind = "const" -> {out.rhs.n}
                   [] OTHER -> ArgsOf(RightType)
<1>5. PICK a \in ArgsOf(out.T), b \in bs : Ran(a, b, ScalarWrapper(opt.form, out.op, out.T, a, b))
    BY DEF RunWrapper
<1>6. a \in Values(out.T) BY <1>4, ArgFacts
<1>7. b \in Int /\ (out.op \notin Shifts \cup {"Minus"} => b \in Values(out.T))
    <2>1. "Minus" \notin Shifts BY DEF Shifts
    <2>2. CASE out.op = "Minus"
        <3>1. out.rhs.kind # "const" BY <1>3, <2>1, <2>2 DEF WrapperOK
        <3>2. b = 0 BY <2>2, <3>1
        <3> QED BY <2>2, <3>2
    <2>3. CASE out.op # "Minus" /\ out.rhs.kind = "const"
        <3>1. b = out.rhs.n BY <2>3
        <3>2. out.op \in Shifts /\ out.rhs.n \in 0..(Width(out.T) - 1) BY <1>3, <2>3 DEF WrapperOK
        <3>3. Width(out.T) \in Nat BY <1>4, TypeFacts
        <3> QED BY <3>1, <3>2, <3>3
    <2>4. CASE out.op # "Minus" /\ out.rhs.kind # "const"
        <3>1. b \in ArgsOf(RightType) BY <2>4
        <3>2. RightType \in IntTypes
            <4>1. out.sign2 \in BOOLEAN BY <1>3 DEF WrapperOK
            <4>2. \A s \in BOOLEAN : [eInt EXCEPT !.sign = s] \in IntTypes BY DEF eInt, IntTypes
            <4> QED BY <1>4, <4>1, <4>2 DEF RightType
        <3>3. b \in Values(RightType) BY <3>1, <3>2, ArgFacts
        <3>4. b \in Int BY <3>2, <3>3, ValueFacts
        <3>5. out.op \notin Shifts => RightType = out.T BY DEF RightType
        <3> QED BY <3>3, <3>4, <3>5
    <2> QED BY <2>2, <2>3, <2>4
<1> HIDE DEF bs
<1> DEFINE r == ScalarWrapper(opt.form, out.op, out.T, a, b)
<1>8. r = Meaning(out.op, out.T, a, b) /\ r # Undef
    <2>1. opt.form \in {"macros", "functions"} BY <1>2, OptionFacts
    <2>2. out.op \in safe_ops \cup {"Minus"} BY <1>4 DEF WrapperOps
    <2>3. r = Meaning(out.op, out.T, a, b) /\ r \in Values(out.T) BY <1>4, <1>6, <1>7, <2>1, <2>2, ScalarMeans
    <2> HIDE DEF r
    <2> QED BY <1>4, <2>3, ValueFacts
<1>9. /\ val' # None /\ val'.a = a /\ val'.b = b /\ val'.r = r /\ out' = out /\ opt' = opt
    BY <1>5, ValueOfRun
<1>10. Ran(a, b, r) BY <1>5
<1> HIDE DEF r
<1>11. NeverUndefined' BY <1>2, <1>8, <1>9 DEF NeverUndefined, Elements
<1>12. WrapperMeaning' BY <1>2, <1>8, <1>9 DEF WrapperMeaning
<1>13. LanesExact' BY <1>2, <1>9 DEF LanesExact, VectorAllOrNothing, WarpCastsExact
<1> QED BY <1>2, <1>10, <1>11, <1>12, <1>13, RanInv

LEMMA PowAbove == \A i \in 0..PowTop : i < Pow2[i]
<1> DEFINE S == {i \in 0..PowTop : i < Pow2[i]}
<1>1. PowTop \in Nat /\ Pow2[0] = 1 BY WidthFacts, Pow2Def
<1>2. 0 \in S BY <1>1
<1>3. ASSUME NEW i \in 0..(PowTop - 1), i \in S PROVE i + 1 \in S
    <2>1. i + 1 \in 0..PowTop /\ i \in 0..PowTop BY <1>1
    <2>2. Pow2[i + 1] = 2 * Pow2[i] BY Pow2Def
    <2>3. Pow2[i] \in Nat \ {0} BY <2>1, PowNat
    <2>4. i < Pow2[i] BY <1>3
    <2>5. i + 1 < Pow2[i + 1] BY <1>1, <2>2, <2>3, <2>4
    <2> QED BY <2>1, <2>5
<1>4. 0..PowTop \subseteq S
    <2> HIDE DEF S
    <2> QED BY <1>1, <1>2, <1>3, Upto
<1> QED BY <1>4

LEMMA WidthSmall ==
    ASSUME NEW T \in IntTypes
    PROVE  Width(T) \in Int /\ Width(T) # Undef
<1>1. Width(T) \in 1..Bits[4] /\ Bits[4] \in Nat BY TypeFacts, WidthFacts
<1>2. 2 * Bits[4] \in Nat /\ 2 * Bits[4] \in 0..PowTop BY <1>1 DEF PowTop
<1>3. Width(T) \in 0..PowTop /\ Width(T) \in Nat /\ Width(T) < 2 * Bits[4] BY <1>1 DEF PowTop
<1>4. Width(T) < Pow2[Width(T)] BY <1>3, PowAbove
<1>5. 2 * Pow2[Width(T)] <= Pow2[2 * Bits[4]] BY <1>2, <1>3, PowUp
<1>6. Pow2[2 * Bits[4]] \in Nat /\ Pow2[Width(T)] \in Nat BY <1>2, <1>3, PowNat
<1> DEFINE w == Width(T)
<1>7. w \in Int /\ w <= 2 * Pow2[2 * Bits[4]] BY <1>3, <1>4, <1>5, <1>6
<1> HIDE DEF w
<1>8. w # Undef BY <1>7, NotUndef
<1> QED BY <1>7, <1>8 DEF w

LEMMA RunVectorStep ==
    ASSUME OperatorsInv, RunVector
    PROVE  OperatorsInv'
<1>1. Runs("vector") BY DEF RunVector
<1>2. out # None /\ out.call = "vector" /\ PrintedOK(opt, out) /\ opt \in Options BY <1>1, RunFacts
<1>3. VectorOK(out) BY <1>2 DEF PrintedOK
<1>4. out.op \in WrapperOps /\ out.T \in IntTypes /\ out.len \in 1..4 BY <1>3 DEF VectorOK
<1> DEFINE T == out.T
           n == out.len
           bs == CASE out.op = "Minus" -> {<< >>}
                   [] out.rhs.kind = "const" -> {[i \in 1..n |-> Convert(T, out.rhs.n)]}
                   [] OTHER -> LanesOf(T, n)
<1>5. PICK a \in LanesOf(T, n), b \in bs : Ran(a, b, VectorWrapper(out.op, T, a, b))
    BY DEF RunVector
<1>6. a \in [1..n -> Values(T)] BY <1>4, ArgFacts
<1>7. out.op # "Minus" => b \in [1..n -> Values(T)]
    <2>1. CASE out.op # "Minus" /\ out.rhs.kind = "const"
        <3>1. b = [i \in 1..n |-> Convert(T, out.rhs.n)] BY <2>1
        <3>2. out.rhs.n = Width(T) BY <1>3, <2>1 DEF VectorOK
        <3>3. Width(T) \in Int /\ Width(T) # Undef BY <1>4, WidthSmall
        <3>4. Convert(T, Width(T)) \in Values(T) BY <1>4, <3>3, ConvertValue
        <3> QED BY <3>1, <3>2, <3>4
    <2>2. CASE out.op # "Minus" /\ out.rhs.kind # "const"
        <3>1. b \in LanesOf(T, n) BY <2>2
        <3> QED BY <1>4, <3>1, ArgFacts
    <2> QED BY <2>1, <2>2
<1> HIDE DEF bs
<1> DEFINE r == VectorWrapper(out.op, T, a, b)
<1>8. AllOrNothing(out.op, T, a, b, r)
    <2>1. out.op \in safe_ops \cup {"Minus"} BY <1>4 DEF WrapperOps
    <2>2. n \in Nat BY <1>4
    <2> QED BY <1>4, <1>6, <1>7, <2>1, <2>2, VectorMeans
<1>9. /\ val' # None /\ val'.a = a /\ val'.b = b /\ val'.r = r /\ out' = out /\ opt' = opt
    BY <1>5, ValueOfRun
<1>10. Ran(a, b, r) BY <1>5
<1> HIDE DEF r
<1>11. NeverUndefined'
    <2>1. \A i \in DOMAIN r : r[i] # Undef BY <1>8 DEF AllOrNothing
    <2>2. Undef \notin {r[i] : i \in DOMAIN r} BY <2>1
    <2>3. Elements(val.r)' = {r[i] : i \in DOMAIN r} BY <1>2, <1>9 DEF Elements
    <2> QED BY <1>2, <1>9, <2>2, <2>3 DEF NeverUndefined
<1>12. WrapperMeaning' BY <1>2, <1>9 DEF WrapperMeaning
<1>13. VectorAllOrNothing'
    <2>1. LET lane(i) == LaneMeaning(out.op, T, a[i], IF out.op = "Minus" THEN 0 ELSE b[i])
          IN  IF \E i \in DOMAIN a : lane(i) = {} THEN r = a
              ELSE \A i \in DOMAIN a : r[i] \in lane(i)
        BY <1>8 DEF AllOrNothing
    <2> QED BY <1>9, <2>1, Zenon DEF VectorAllOrNothing
<1>14. WarpCastsExact' BY <1>2, <1>9 DEF WarpCastsExact
<1> QED BY <1>2, <1>10, <1>11, <1>12, <1>13, <1>14, RanInv DEF LanesExact

LEMMA RunIncrStep ==
    ASSUME OperatorsInv, RunIncr
    PROVE  OperatorsInv'
<1>1. Runs("incr") BY DEF RunIncr
<1>2. out # None /\ out.call = "incr" /\ PrintedOK(opt, out) /\ opt \in Options BY <1>1, RunFacts
<1>3. out.T \in IntTypes /\ ~out.T.sign /\ ~out.bitfield BY <1>2 DEF PrintedOK
<1>4. PICK a \in ArgsOf(out.T) :
          Ran(a, 1, Convert(out.T, Arith(Promote(out.T), IF out.op = "Add" THEN a + 1 ELSE a - 1)))
    BY <1>3 DEF RunIncr
<1> DEFINE z == IF out.op = "Add" THEN a + 1 ELSE a - 1
           r == Convert(out.T, Arith(Promote(out.T), z))
<1>5. a \in Values(out.T) BY <1>3, ArgFacts
<1>6. r # Undef
    <2>1. z \in {a + 1, a - 1} OBVIOUS
    <2> HIDE DEF z
    <2> QED BY <1>3, <1>5, <2>1, IncrMeans
<1>7. Ran(a, 1, r) BY <1>4
<1>8. /\ val' # None /\ val'.a = a /\ val'.r = r /\ out' = out /\ opt' = opt BY <1>7, ValueOfRun
<1> HIDE DEF r
<1>9. NeverUndefined' BY <1>2, <1>6, <1>8 DEF NeverUndefined
<1>10. WrapperMeaning' BY <1>2, <1>8 DEF WrapperMeaning
<1>11. LanesExact' BY <1>2, <1>8 DEF LanesExact, VectorAllOrNothing, WarpCastsExact
<1> QED BY <1>2, <1>7, <1>9, <1>10, <1>11, RanInv

LEMMA RunAtomicStep ==
    ASSUME OperatorsInv, RunAtomic
    PROVE  OperatorsInv'
<1>1. Runs("builtin") /\ out.op \in AtomicTable BY DEF RunAtomic
<1>2. out # None /\ out.call = "builtin" /\ PrintedOK(opt, out) /\ opt \in Options BY <1>1, RunFacts
<1>3. out.T \in IntTypes /\ out.T.size >= 3 /\ (out.op \in {"Inc", "Dec"} => out.T = eUInt)
    BY <1>1, <1>2 DEF PrintedOK
<1>4. PICK a \in ArgsOf(out.T), v \in ArgsOf(out.T) : \E cmp \in IF out.op = "CAS" THEN {a, v} ELSE {v} :
          Ran(a, v, AtomicCell(out.op, out.T, a, cmp, v))
    BY DEF RunAtomic
<1>5. PICK cmp \in IF out.op = "CAS" THEN {a, v} ELSE {v} :
          Ran(a, v, AtomicCell(out.op, out.T, a, cmp, v)) BY <1>4
<1> DEFINE r == AtomicCell(out.op, out.T, a, cmp, v)
<1>6. a \in Values(out.T) /\ v \in Values(out.T) BY <1>3, ArgFacts
<1>7. cmp \in Values(out.T) BY <1>6
<1>8. r # Undef BY <1>1, <1>3, <1>6, <1>7, AtomicMeans
<1>9. Ran(a, v, r) BY <1>5
<1>10. /\ val' # None /\ val'.a = a /\ val'.r = r /\ out' = out /\ opt' = opt BY <1>9, ValueOfRun
<1> HIDE DEF r
<1>11. NeverUndefined' BY <1>2, <1>8, <1>10 DEF NeverUndefined
<1>12. WrapperMeaning' BY <1>2, <1>10 DEF WrapperMeaning
<1>13. LanesExact' BY <1>1, <1>2, <1>10 DEF LanesExact, VectorAllOrNothing, WarpCastsExact
<1> QED BY <1>2, <1>9, <1>11, <1>12, <1>13, RanInv

LEMMA RunWarpStep ==
    ASSUME OperatorsInv, RunWarp
    PROVE  OperatorsInv'
<1>1. Runs("builtin") /\ out.op \in WarpShuffleTable \cup WarpReduceTable \cup WarpMatchTable BY DEF RunWarp
<1>2. out # None /\ out.call = "builtin" /\ PrintedOK(opt, out) /\ opt \in Options BY <1>1, RunFacts
<1>3. out.T \in IntTypes BY <1>2 DEF PrintedOK
<1>4. PICK a \in LanesOf(out.T, 2), arg \in IF out.op \in WarpShuffleTable THEN {0, 1} ELSE {0} :
          Ran(a, arg, WarpResult(out.op, out.T, a, arg))
    BY Zenon DEF RunWarp, WarpResult
<1>5. a \in [1..2 -> Values(out.T)] BY <1>3, ArgFacts
<1> DEFINE r == WarpResult(out.op, out.T, a, arg)
<1>6. WarpExact(out.op, out.T, a, r)
    <2>1. 2 \in Nat \ {0} OBVIOUS
    <2> QED BY <1>1, <1>3, <1>5, <2>1, WarpMeans, Zenon
<1>7. Ran(a, arg, r) BY <1>4
<1>8. /\ val' # None /\ val'.a = a /\ val'.r = r /\ out' = out /\ opt' = opt BY <1>7, ValueOfRun
<1> HIDE DEF r
<1>9. out.op \notin AtomicTable
    BY <1>1 DEF AtomicTable, WarpShuffleTable, WarpReduceTable, WarpMatchTable
<1>10. NeverUndefined' BY <1>2, <1>8, <1>9 DEF NeverUndefined
<1>11. WrapperMeaning' BY <1>2, <1>8 DEF WrapperMeaning
<1>12. VectorAllOrNothing' BY <1>2, <1>8 DEF VectorAllOrNothing
<1>13. WarpCastsExact'
    <2>1. WarpExact(out'.op, out'.T, val'.a, val'.r) BY <1>6, <1>8, Zenon
    <2> QED BY <2>1, Zenon DEF WarpCastsExact, WarpExact
<1> QED BY <1>2, <1>7, <1>10, <1>11, <1>12, <1>13, RanInv DEF LanesExact

LEMMA OperatorsInit == Init => OperatorsInv
<1> SUFFICES ASSUME Init PROVE OperatorsInv OBVIOUS
<1>1. opt \in Options /\ inv = None /\ names = << >> /\ used = {} /\ out = None /\ val = None BY DEF Init
<1>2. NamesOK
    <2>1. MaxCalls(opt) \in Nat BY <1>1, OptionFacts
    <2>2. << >> \in Seq(WrapperNames) /\ Len(<< >>) = 0 /\ DOMAIN << >> = {} OBVIOUS
    <2> QED BY <1>1, <2>1, <2>2 DEF NamesOK
<1> QED BY <1>1, <1>2 DEF OperatorsInv, BuildingOK, OutOK, RanOK

\* Every step keeps the invariant.
LEMMA OperatorsNext == OperatorsInv /\ [Next]_vars => OperatorsInv'
<1> SUFFICES ASSUME OperatorsInv, [Next]_vars PROVE OperatorsInv' OBVIOUS
<1>1. CASE UNCHANGED vars
    <2>1. UNCHANGED <<opt, inv, names, used, out, val>> BY <1>1 DEF vars
    <2>2. NamesOK' BY <2>1 DEF OperatorsInv, NamesOK, safe_math_wrapper
    <2>3. BuildingOK' BY <2>1 DEF OperatorsInv, BuildingOK
    <2>4. OutOK' BY <2>1 DEF OperatorsInv, OutOK
    <2>5. RanOK'
        <3>1. NeverUndefined' = NeverUndefined BY <2>1 DEF NeverUndefined, Elements
        <3>2. WrapperMeaning' = WrapperMeaning BY <2>1 DEF WrapperMeaning
        <3>3. LanesExact' = LanesExact BY <2>1 DEF LanesExact, VectorAllOrNothing, WarpCastsExact
        <3> QED BY <2>1, <3>1, <3>2, <3>3 DEF OperatorsInv, RanOK
    <2> QED BY <2>1, <2>2, <2>3, <2>4, <2>5 DEF OperatorsInv
<1>2. CASE Make
    <2>1. PICK t \in Requests(opt) :
              /\ t.kind = "float" => opt.float
              /\ \/ make_random_unary(t)
                 \/ make_random_binary(t)
                 \/ make_random_binary_ptr_comparison(t)
                 \/ make_random_builtin(t)
        BY <1>2 DEF Make
    <2> QED BY <2>1, UnaryStep, BinaryStep, PointersStep, BuiltInStep
<1>3. CASE MakeAssign BY <1>3, AssignStep DEF MakeAssign
<1>4. CASE Run BY <1>4, RunWrapperStep, RunVectorStep, RunIncrStep, RunAtomicStep, RunWarpStep DEF Run
<1> QED BY <1>1, <1>2, <1>3, <1>4, RhsStep, OutputBinaryStep, OutputUnaryStep, OutputAssignStep,
           OutputBuiltInStep DEF Next

\* What the invariant says of the names and of what was printed.
LEMMA OperatorsFits == OperatorsInv => PrintedFits
<1> SUFFICES ASSUME OperatorsInv PROVE PrintedFits OBVIOUS
<1>1. TypeOK
    <2>1. /\ opt \in Options /\ Len(names) <= MaxCalls(opt)
          /\ \A i, j \in DOMAIN names : names[i] = names[j] => i = j BY DEF OperatorsInv, NamesOK
    <2>2. inv # None => inv.call \in {"unary", "binary", "ptrcmp", "assign", "builtin"}
        BY DEF OperatorsInv, BuildingOK, InvocationOK
    <2>3. val # None => inv = None /\ out # None BY DEF OperatorsInv, RanOK
    <2> QED BY <2>1, <2>2, <2>3 DEF TypeOK
<1>2. WrapperChoiceStable
    <2> SUFFICES ASSUME NEW u \in used, NEW v \in used, u.name = v.name PROVE u = v
        BY DEF WrapperChoiceStable
    <2>1. PICK i \in DOMAIN names : u = [name |-> names[i], wrapped |-> safe_math_wrapper(i)]
        BY DEF OperatorsInv, NamesOK
    <2>2. PICK j \in DOMAIN names : v = [name |-> names[j], wrapped |-> safe_math_wrapper(j)]
        BY DEF OperatorsInv, NamesOK
    <2>3. names[i] = names[j] BY <2>1, <2>2
    <2>4. i = j BY <2>3 DEF OperatorsInv, NamesOK
    <2> QED BY <2>1, <2>2, <2>4
<1>3. CASE out = None BY <1>1, <1>2, <1>3 DEF PrintedFits, CallsDeclared, ConstantShiftsInRange
<1>4. CASE out # None
    <2>1. PrintedOK(opt, out) BY <1>4 DEF OperatorsInv, OutOK
    <2>2. ConstantShiftsInRange
        <3>1. out.call = "wrapper" => WrapperOK(opt, out) BY <2>1 DEF PrintedOK
        <3>2. out.call = "wrapper" /\ out.rhs.kind = "const" => out.rhs.n \in 0..(Width(out.T) - 1)
            BY <3>1 DEF WrapperOK
        <3>3. out.call = "raw" /\ out.rhs.kind = "const" => out.rhs.n \in 0..(Width(out.T) - 1)
            BY <2>1 DEF PrintedOK
        <3> QED BY <3>2, <3>3 DEF ConstantShiftsInRange
    <2>3. CallsDeclared
        <3>1. CASE out.call = "wrapper"
            <4>1. WrapperOK(opt, out) BY <2>1, <3>1 DEF PrintedOK
            <4> QED BY <3>1, <4>1 DEF WrapperOK, CallsDeclared
        <3>2. CASE out.call = "vector"
            <4>1. VectorOK(out) BY <2>1, <3>2 DEF PrintedOK
            <4> QED BY <3>2, <4>1 DEF VectorOK, CallsDeclared
        <3>3. CASE out.call = "rawvector" BY <2>1, <3>3 DEF PrintedOK, CallsDeclared
        <3>4. CASE out.call = "builtin" BY <2>1, <3>4 DEF PrintedOK, CallsDeclared
        <3>5. CASE out.call \notin {"wrapper", "vector", "rawvector", "builtin"} BY <3>5 DEF CallsDeclared
        <3> QED BY <3>1, <3>2, <3>3, <3>4, <3>5
    <2> QED BY <1>1, <1>2, <2>2, <2>3 DEF PrintedFits
<1> QED BY <1>3, <1>4

\* What the invariant says of what was run.
LEMMA OperatorsMean == OperatorsInv => NeverUndefined /\ WrapperMeaning /\ LanesExact
<1> SUFFICES ASSUME OperatorsInv PROVE NeverUndefined /\ WrapperMeaning /\ LanesExact OBVIOUS
<1>1. CASE val = None
    BY <1>1 DEF NeverUndefined, WrapperMeaning, LanesExact, VectorAllOrNothing, WarpCastsExact
<1>2. CASE val # None BY <1>2 DEF OperatorsInv, RanOK
<1> QED BY <1>1, <1>2

\* The induction.
LEMMA OperatorsInvariant == Spec => []OperatorsInv
<1> QED BY OperatorsInit, OperatorsNext, PTL DEF Spec

\* Running an operation that is not printed bare is never undefined in C++, and
\* neither are the tests of the wrapper it goes through (safe_math_macros.m4,
\* safe_math.m4, HIPSmith.h), for all widths of the integer types and all operands.
THEOREM RunsDefined == Spec => []NeverUndefined
<1> QED BY OperatorsInvariant, OperatorsMean, PTL

\* A wrapper call, in the macros of kernels and in the functions of csmith
\* programs, yields the mathematical result where its type holds it and its
\* first operand where it does not.
THEOREM WrappersExact == Spec => []WrapperMeaning
<1> QED BY OperatorsInvariant, OperatorsMean, PTL

\* The vector wrappers of HIPSmith.h compute all lanes or none, refusing only
\* what some lane has no result for; the casts of the warp wrappers lose nothing.
THEOREM LanesComputed == Spec => []LanesExact
<1> QED BY OperatorsInvariant, OperatorsMean, PTL

\* What the generator prints is declared where it is compiled, a wrapper
\* function is called everywhere through its wrapper or nowhere, and the amount of
\* a shift by a constant is in range, whether it is printed bare or not.
THEOREM PrintedDeclared == Spec => []PrintedFits
<1> QED BY OperatorsInvariant, OperatorsFits, PTL

=============================================================================
