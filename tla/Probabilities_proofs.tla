------------------------ MODULE Probabilities_proofs -------------------------
(***************************************************************************)
(* Proofs about Probabilities for every choice of options, every sequence  *)
(* of draws and every file written by hand.                                *)
(***************************************************************************)
EXTENDS Probabilities, SequenceTheorems, WellFoundedInduction, TLAPS

Group == {"single", "statement", "unary", "binary", "types", "size"}

-----------------------------------------------------------------------------
(* The defaults.                                                           *)

LEMMA GroupsAre ==
    /\ Len(Groups) = 6 /\ DOMAIN Groups = 1..6
    /\ {Groups[k] : k \in DOMAIN Groups} = Group
    /\ \A k \in 1..6 : Groups[k] \in Group
    /\ \A j, k \in 1..6 : Groups[j] = Groups[k] => j = k
    /\ Groups[1] = "single" /\ Groups[2] = "statement"
    /\ \A g \in Group : \E k \in 1..6 : Groups[k] = g
BY DEF Groups, Group

\* A sequence of n entries, each a name and a percentage.
Tabled(d, n, hi) ==
    /\ DOMAIN d = 1..n /\ Len(d) = n
    /\ \A i \in 1..n : d[i][2] \in 0..hi
    /\ \A i \in 1..n : d[i][1] # "assert" /\ (d[i][1] = "void_prob" => d[i][2] = 0)
    /\ \A i, j \in 1..n : d[i][1] = d[j][1] => i = j

LEMMA IfBounds ==
    ASSUME NEW c, NEW hi \in Nat, NEW n \in 0..hi
    PROVE  If(c, n) \in 0..hi
BY DEF If

LEMMA SingleDefaults ==
    ASSUME opt \in Options
    PROVE  Tabled(initialize_single_probs, 30, 100)
<1> DEFINE x1 == If(On("pointers"), 80)
           x2 == If(On("volatiles"), 50)
           x3 == If(On("consts"), 10)
           x4 == If(On("consts"), 50)
           x5 == If({"volatiles", "vol_struct_union_fields", "global_variables"} \subseteq opt.on, 30)
           x6 == If({"consts", "const_struct_union_fields"} \subseteq opt.on, 20)
           x7 == If(On("pointers"), 50)
           x8 == If(On("float"), 40)
           x9 == If(On("arrays"), 20)
           x10 == opt.inline
           x11 == opt.builtin
           x12 == opt.oob
           d == initialize_single_probs
<1>1. x1 \in 0..100 /\ x2 \in 0..100 /\ x3 \in 0..100 /\ x4 \in 0..100 /\ x5 \in 0..100 /\
      x6 \in 0..100 /\ x7 \in 0..100 /\ x8 \in 0..100 /\ x9 \in 0..100 /\ x10 \in 0..100 /\
      x11 \in 0..100 /\ x12 \in 0..100
    <2>1. x1 \in 0..100 /\ x2 \in 0..100 /\ x3 \in 0..100 /\ x4 \in 0..100 /\ x5 \in 0..100 /\
          x6 \in 0..100 /\ x7 \in 0..100 /\ x8 \in 0..100 /\ x9 \in 0..100
        BY IfBounds
    <2>2. x10 \in 0..100 /\ x11 \in 0..100 /\ x12 \in 0..100
        BY ProbabilitiesAssumption DEF OptionsFit
    <2> QED BY <2>1, <2>2
<1>3. DOMAIN d = 1..30 /\ Len(d) = 30 BY DEF initialize_single_probs
<1>4. d[1] = <<"more_struct_union_type_prob", 50>> /\
      d[2] = <<"bitfields_creation_prob", 50>> /\ d[3] = <<"bitfields_signed_prob", 50>> /\
      d[4] = <<"bitfield_in_normal_struct_prob", 10>> /\
      d[5] = <<"scalar_field_in_full_bitfields_struct_prob", 10>> /\
      d[6] = <<"exhaustive_bitfield_prob", 10>> /\ d[7] = <<"safe_ops_signed_prob", 50>> /\
      d[8] = <<"select_deref_pointer_prob", x1>> /\ d[9] = <<"regular_volatile_prob", x2>> /\
      d[10] = <<"regular_const_prob", x3>> /\ d[11] = <<"stricter_const_prob", x4>> /\
      d[12] = <<"looser_const_prob", x4>> /\ d[13] = <<"field_volatile_prob", x5>> /\
      d[14] = <<"field_const_prob", x6>> /\ d[15] = <<"std_unary_func_prob", 5>> /\
      d[16] = <<"shift_by_non_constant_prob", 50>> /\
      d[17] = <<"pointer_as_ltype_prob", x7>> /\ d[18] = <<"struct_as_ltype_prob", 30>> /\
      d[19] = <<"union_as_ltype_prob", 25>> /\ d[20] = <<"float_as_ltype_prob", x8>> /\
      d[21] = <<"new_array_var_prob", x9>> /\ d[22] = <<"access_once_var_prob", 20>> /\
      d[23] = <<"inline_function_prob", x10>> /\ d[24] = <<"builtin_function_prob", x11>> /\
      d[25] = <<"array_oob_prob", x12>> /\ d[26] = <<"func_attr_flag", 30>> /\
      d[27] = <<"type_attr_flag", 50>> /\ d[28] = <<"label_attr_flag", 30>> /\
      d[29] = <<"var_attr_flag", 30>> /\ d[30] = <<"binary_constant", 3>>
    BY DEF initialize_single_probs
<1> HIDE DEF x1, x2, x3, x4, x5, x6, x7, x8, x9, x10, x11, x12, d
<1>5. \A i \in 1..30 : i = 1 \/ i = 2 \/ i = 3 \/ i = 4 \/ i = 5 \/ i = 6 \/ i = 7 \/ i = 8 \/
      i = 9 \/ i = 10 \/ i = 11 \/ i = 12 \/ i = 13 \/ i = 14 \/ i = 15 \/ i = 16 \/ i = 17 \/
      i = 18 \/ i = 19 \/ i = 20 \/ i = 21 \/ i = 22 \/ i = 23 \/ i = 24 \/ i = 25 \/ i = 26 \/
      i = 27 \/ i = 28 \/ i = 29 \/ i = 30
    OBVIOUS
<1>6. \A i \in 1..30 : d[i][2] \in 0..100
    <2>1. d[1][2] \in 0..100 /\ d[2][2] \in 0..100 /\ d[3][2] \in 0..100 /\ d[4][2] \in 0..100 /\
          d[5][2] \in 0..100 /\ d[6][2] \in 0..100 /\ d[7][2] \in 0..100 /\ d[8][2] \in 0..100 /\
          d[9][2] \in 0..100 /\ d[10][2] \in 0..100 /\ d[11][2] \in 0..100 /\ d[12][2] \in 0..100 /\
          d[13][2] \in 0..100 /\ d[14][2] \in 0..100 /\ d[15][2] \in 0..100 /\ d[16][2] \in 0..100 /\
          d[17][2] \in 0..100 /\ d[18][2] \in 0..100 /\ d[19][2] \in 0..100 /\ d[20][2] \in 0..100 /\
          d[21][2] \in 0..100 /\ d[22][2] \in 0..100 /\ d[23][2] \in 0..100 /\ d[24][2] \in 0..100 /\
          d[25][2] \in 0..100 /\ d[26][2] \in 0..100 /\ d[27][2] \in 0..100 /\ d[28][2] \in 0..100 /\
          d[29][2] \in 0..100 /\ d[30][2] \in 0..100
        BY <1>1, <1>4
    <2> QED BY <2>1, <1>5
<1>7. \A i \in 1..30 : d[i][1] # "assert" /\ (d[i][1] = "void_prob" => d[i][2] = 0)
    BY <1>4, <1>5
<1>8. \A i, j \in 1..30 : d[i][1] = d[j][1] => i = j BY SMTT(60), <1>4, <1>5
<1> QED BY <1>3, <1>6, <1>7, <1>8 DEF Tabled, d

LEMMA StatementDefaults == Tabled(set_default_statement_prob, 10, 100)
<1> DEFINE x1 == If(On("jumps"), 50)
           x2 == If(On("arrays"), IF On("jumps") THEN 60 ELSE 55)
           d == set_default_statement_prob
<1>1. x1 \in 0..100 /\ x2 \in 0..100 BY IfBounds
<1>3. DOMAIN d = 1..10 /\ Len(d) = 10 BY DEF set_default_statement_prob
<1>4. d[1] = <<"Assign", 100>> /\ d[2] = <<"Block", 0>> /\ d[3] = <<"For", 30>> /\
      d[4] = <<"IfElse", 15>> /\ d[5] = <<"Return", 35>> /\ d[6] = <<"Continue", 40>> /\
      d[7] = <<"Break", 45>> /\ d[8] = <<"Goto", x1>> /\ d[9] = <<"ArrayOp", x2>> /\
      d[10] = <<"HIPStatement", 5>>
    BY DEF set_default_statement_prob
<1> HIDE DEF x1, x2, d
<1>5. \A i \in 1..10 : i = 1 \/ i = 2 \/ i = 3 \/ i = 4 \/ i = 5 \/ i = 6 \/ i = 7 \/ i = 8 \/
      i = 9 \/ i = 10
    OBVIOUS
<1>6. \A i \in 1..10 : d[i][2] \in 0..100 BY <1>1, <1>4, <1>5
<1>7. \A i \in 1..10 : d[i][1] # "assert" /\ (d[i][1] = "void_prob" => d[i][2] = 0)
    BY <1>4, <1>5
<1>8. \A i, j \in 1..10 : d[i][1] = d[j][1] => i = j BY <1>4, <1>5
<1> QED BY <1>3, <1>6, <1>7, <1>8 DEF Tabled, d

LEMMA UnaryDefaults == Tabled(set_default_unary_ops_prob, 4, 1)
<1> DEFINE x1 == If(On("unary_plus_operator"), 1)
           d == set_default_unary_ops_prob
<1>1. x1 \in 0..1 BY IfBounds
<1>3. DOMAIN d = 1..4 /\ Len(d) = 4 BY DEF set_default_unary_ops_prob
<1>4. d[1] = <<"Plus", x1>> /\ d[2] = <<"Minus", 1>> /\ d[3] = <<"Not", 1>> /\
      d[4] = <<"BitNot", 1>>
    BY DEF set_default_unary_ops_prob
<1> HIDE DEF x1, d
<1>5. \A i \in 1..4 : i = 1 \/ i = 2 \/ i = 3 \/ i = 4
    OBVIOUS
<1>6. \A i \in 1..4 : d[i][2] \in 0..1 BY <1>1, <1>4, <1>5
<1>7. \A i \in 1..4 : d[i][1] # "assert" /\ (d[i][1] = "void_prob" => d[i][2] = 0)
    BY <1>4, <1>5
<1>8. \A i, j \in 1..4 : d[i][1] = d[j][1] => i = j BY <1>4, <1>5
<1> QED BY <1>3, <1>6, <1>7, <1>8 DEF Tabled, d

LEMMA BinaryDefaults == Tabled(set_default_binary_ops_prob, 18, 1)
<1> DEFINE x1 == If(On("muls"), 1)
           x2 == If(On("divs"), 1)
           d == set_default_binary_ops_prob
<1>1. x1 \in 0..1 /\ x2 \in 0..1 BY IfBounds
<1>3. DOMAIN d = 1..18 /\ Len(d) = 18 BY DEF set_default_binary_ops_prob
<1>4. d[1] = <<"Add", 1>> /\ d[2] = <<"Sub", 1>> /\ d[3] = <<"Mul", x1>> /\
      d[4] = <<"Div", x2>> /\ d[5] = <<"Mod", 1>> /\ d[6] = <<"CmpGt", 1>> /\
      d[7] = <<"CmpLt", 1>> /\ d[8] = <<"CmpGe", 1>> /\ d[9] = <<"CmpLe", 1>> /\
      d[10] = <<"CmpEq", 1>> /\ d[11] = <<"CmpNe", 1>> /\ d[12] = <<"And", 1>> /\
      d[13] = <<"Or", 1>> /\ d[14] = <<"BitXor", 1>> /\ d[15] = <<"BitAnd", 1>> /\
      d[16] = <<"BitOr", 1>> /\ d[17] = <<"RShift", 1>> /\ d[18] = <<"LShift", 1>>
    BY DEF set_default_binary_ops_prob
<1> HIDE DEF x1, x2, d
<1>5. \A i \in 1..18 : i = 1 \/ i = 2 \/ i = 3 \/ i = 4 \/ i = 5 \/ i = 6 \/ i = 7 \/ i = 8 \/
      i = 9 \/ i = 10 \/ i = 11 \/ i = 12 \/ i = 13 \/ i = 14 \/ i = 15 \/ i = 16 \/ i = 17 \/
      i = 18
    OBVIOUS
<1>6. \A i \in 1..18 : d[i][2] \in 0..1 BY <1>1, <1>4, <1>5
<1>7. \A i \in 1..18 : d[i][1] # "assert" /\ (d[i][1] = "void_prob" => d[i][2] = 0)
    BY <1>4, <1>5
<1>8. \A i, j \in 1..18 : d[i][1] = d[j][1] => i = j BY <1>4, <1>5
<1> QED BY <1>3, <1>6, <1>7, <1>8 DEF Tabled, d

LEMMA TypesDefaults == Tabled(set_default_simple_types_prob, 14, 1)
<1> DEFINE x1 == If(On("int8"), 1)
           x2 == If(~On("ccomp"), 1)
           x3 == If(On("allow_int64"), 1)
           x4 == If(On("uint8"), 1)
           x5 == If(On("float"), 1)
           x6 == If(On("Int128"), 1)
           x7 == If(On("UInt128"), 1)
           d == set_default_simple_types_prob
<1>1. x1 \in 0..1 /\ x2 \in 0..1 /\ x3 \in 0..1 /\ x4 \in 0..1 /\ x5 \in 0..1 /\ x6 \in 0..1 /\
      x7 \in 0..1 BY IfBounds
<1>3. DOMAIN d = 1..14 /\ Len(d) = 14 BY DEF set_default_simple_types_prob
<1>4. d[1] = <<"void_prob", 0>> /\ d[2] = <<"Char", x1>> /\ d[3] = <<"Int", 1>> /\
      d[4] = <<"Short", 1>> /\ d[5] = <<"Long", x2>> /\ d[6] = <<"LongLong", x3>> /\
      d[7] = <<"UChar", x4>> /\ d[8] = <<"UInt", 1>> /\ d[9] = <<"UShort", 1>> /\
      d[10] = <<"ULong", x2>> /\ d[11] = <<"ULongLong", x3>> /\ d[12] = <<"Float", x5>> /\
      d[13] = <<"Int128", x6>> /\ d[14] = <<"UInt128", x7>>
    BY DEF set_default_simple_types_prob
<1> HIDE DEF x1, x2, x3, x4, x5, x6, x7, d
<1>5. \A i \in 1..14 : i = 1 \/ i = 2 \/ i = 3 \/ i = 4 \/ i = 5 \/ i = 6 \/ i = 7 \/ i = 8 \/
      i = 9 \/ i = 10 \/ i = 11 \/ i = 12 \/ i = 13 \/ i = 14
    OBVIOUS
<1>6. \A i \in 1..14 : d[i][2] \in 0..1 BY <1>1, <1>4, <1>5
<1>7. \A i \in 1..14 : d[i][1] # "assert" /\ (d[i][1] = "void_prob" => d[i][2] = 0)
    BY <1>4, <1>5
<1>8. \A i, j \in 1..14 : d[i][1] = d[j][1] => i = j BY <1>4, <1>5
<1> QED BY <1>3, <1>6, <1>7, <1>8 DEF Tabled, d

LEMMA SizeDefaults == Tabled(set_default_safe_ops_size_prob, 4, 1)
<1> DEFINE x1 == If({"int8", "uint8"} \subseteq opt.on, 1)
           x2 == If(On("allow_int64"), 1)
           d == set_default_safe_ops_size_prob
<1>1. x1 \in 0..1 /\ x2 \in 0..1
    BY DEF If
<1>3. DOMAIN d = 1..4 /\ Len(d) = 4 BY DEF set_default_safe_ops_size_prob
<1>4. d[1] = <<"Int8", x1>> /\ d[2] = <<"Int16", 1>> /\ d[3] = <<"Int32", 1>> /\
      d[4] = <<"Int64", x2>>
    BY DEF set_default_safe_ops_size_prob
<1> HIDE DEF x1, x2, d
<1>5. \A i \in 1..4 : i = 1 \/ i = 2 \/ i = 3 \/ i = 4
    OBVIOUS
<1>6. \A i \in 1..4 : d[i][2] \in 0..1 BY <1>1, <1>4, <1>5
<1>7. \A i \in 1..4 : d[i][1] # "assert" /\ (d[i][1] = "void_prob" => d[i][2] = 0)
    BY <1>4, <1>5
<1>8. \A i, j \in 1..4 : d[i][1] = d[j][1] => i = j BY <1>4, <1>5
<1> QED BY <1>3, <1>6, <1>7, <1>8 DEF Tabled, d

-----------------------------------------------------------------------------
(* Induction, extrema, and functions defined by recursion.                 *)

\* A set that holds 0 and with n holds n + 1 holds every natural number.
LEMMA SetInduction ==
    ASSUME NEW S, 0 \in S, \A n \in Nat : n \in S => n + 1 \in S
    PROVE  Nat \subseteq S
<1> DEFINE T == Nat \ S
<1> SUFFICES ASSUME T # {} PROVE FALSE OBVIOUS
<1>1. PICK m \in T : \A n \in T : ~(<<n, m>> \in OpToRel(<, Nat))
    BY NatLessThanWellFounded, WFMin
<1>2. \A n \in T : ~(<<n, m>> \in {ss \in Nat \X Nat : ss[1] < ss[2]})
    BY <1>1, Zenon DEF OpToRel
<1>3. m \in Nat /\ m # 0 OBVIOUS
<1>4. m - 1 \in T => <<m - 1, m>> \in {ss \in Nat \X Nat : ss[1] < ss[2]} BY <1>3
<1>5. m - 1 \notin T BY <1>2, <1>4, Zenon
<1>6. m - 1 \in Nat /\ m - 1 + 1 = m BY <1>3
<1>7. m \in S BY <1>5, <1>6
<1> QED BY <1>7

LEMMA LeastOf ==
    ASSUME NEW S \in SUBSET Nat, S # {}
    PROVE  Min(S) \in S /\ \A y \in S : Min(S) <= y
<1>1. \E x \in S : \A y \in S : x <= y
    <2> SUFFICES ASSUME \A x \in S : \E y \in S : ~(x <= y) PROVE FALSE OBVIOUS
    <2> DEFINE L == {n \in Nat : \A x \in S : n < x}
    <2>1. 0 \in L BY SMT
    <2>2. ASSUME NEW n \in Nat, n \in L PROVE n + 1 \in L
        <3> SUFFICES ASSUME NEW x \in S PROVE n + 1 < x OBVIOUS
        <3>1. PICK y \in S : ~(x <= y) OBVIOUS
        <3> QED BY <2>2, <3>1
    <2>3. Nat \subseteq L BY <2>1, <2>2, SetInduction
    <2>4. PICK x \in S : TRUE OBVIOUS
    <2>5. x < x BY <2>3
    <2> QED BY <2>5
<1> QED BY <1>1 DEF Min

LEMMA ExtremaOf ==
    ASSUME NEW hi \in Nat, NEW S \in SUBSET (0..hi), S # {}
    PROVE  /\ Min(S) \in S /\ \A y \in S : Min(S) <= y
           /\ Max(S) \in S /\ \A y \in S : Max(S) >= y
<1>1. S \in SUBSET Nat OBVIOUS
<1>2. Min(S) \in S /\ \A y \in S : Min(S) <= y BY <1>1, LeastOf
<1>3. \E x \in S : \A y \in S : x >= y
    <2> DEFINE T == {hi - x : x \in S}
    <2>1. T \in SUBSET Nat /\ T # {}
        <3>1. \A x \in S : hi - x \in Nat OBVIOUS
        <3> QED BY <3>1
    <2>2. Min(T) \in T /\ \A y \in T : Min(T) <= y BY <2>1, LeastOf
    <2>3. PICK x \in S : Min(T) = hi - x BY <2>2
    <2>4. ASSUME NEW y \in S PROVE x >= y
        <3>1. Min(T) <= hi - y BY <2>2
        <3> QED BY <2>3, <3>1
    <2> QED BY <2>4
<1>4. Max(S) \in S /\ \A y \in S : Max(S) >= y BY <1>3 DEF Max
<1> QED BY <1>2, <1>4

\* A function on 0..n is given by its first value and by what follows from each.
Recursive(f, n, b, h) == f = [i \in 0..n |-> IF i = 0 THEN b ELSE h[<<f[i - 1], i>>]]

LEMMA Recursion ==
    ASSUME NEW T, NEW n \in Nat, NEW b \in T, NEW h, h \in [T \X (1..n) -> T]
    PROVE  \E f \in [0..n -> T] : Recursive(f, n, b, h)
<1> DEFINE Is(f, k) == f = [i \in 0..k |-> IF i = 0 THEN b ELSE h[<<f[i - 1], i>>]]
           S == {k \in Nat : k <= n => \E f \in [0..k -> T] : Is(f, k)}
<1>1. 0 \in S
    <2> DEFINE f == [i \in 0..0 |-> b]
    <2>1. f \in [0..0 -> T] OBVIOUS
    <2>2. Is(f, 0) OBVIOUS
    <2> HIDE DEF f
    <2> QED BY <2>1, <2>2
<1>2. ASSUME NEW k \in Nat, k \in S PROVE k + 1 \in S
    <2> SUFFICES ASSUME k + 1 <= n PROVE \E f \in [0..k + 1 -> T] : Is(f, k + 1) OBVIOUS
    <2>1. PICK f \in [0..k -> T] : Is(f, k) BY <1>2
    <2> DEFINE e == h[<<f[k], k + 1>>]
               g == [i \in 0..k + 1 |-> IF i = k + 1 THEN e ELSE f[i]]
    <2>2. f[k] \in T BY <2>1
    <2>3. <<f[k], k + 1>> \in T \X (1..n) BY <2>2
    <2>4. e \in T BY <2>3
    <2>5. g \in [0..k + 1 -> T]
        <3>1. \A i \in 0..k + 1 : i # k + 1 => i \in 0..k OBVIOUS
        <3> QED BY <2>4, <3>1
    <2>6. ASSUME NEW i \in 0..k + 1 PROVE g[i] = IF i = 0 THEN b ELSE h[<<g[i - 1], i>>]
        <3>1. CASE i = 0
            <4>1. g[0] = f[0] /\ f[0] = b BY <2>1
            <4> QED BY <3>1, <4>1
        <3>2. CASE i = k + 1
            <4>1. g[i] = e /\ g[i - 1] = f[k] /\ i # 0 BY <3>2
            <4>2. h[<<g[i - 1], i>>] = e BY <3>2, <4>1
            <4> HIDE DEF g, e
            <4> QED BY <4>1, <4>2
        <3>3. CASE i # 0 /\ i # k + 1
            <4>1. i \in 0..k /\ i - 1 \in 0..k BY <3>3
            <4>2. g[i] = f[i] /\ g[i - 1] = f[i - 1] BY <4>1
            <4>3. f[i] = h[<<f[i - 1], i>>] BY <2>1, <3>3, <4>1
            <4> QED BY <3>3, <4>2, <4>3
        <3> QED BY <3>1, <3>2, <3>3
    <2>7. g = [i \in 0..k + 1 |-> g[i]] OBVIOUS
    <2> HIDE DEF g
    <2>8. Is(g, k + 1) BY <2>6, <2>7
    <2> QED BY <2>5, <2>8
<1>3. n \in S BY <1>1, <1>2, SetInduction
<1> QED BY <1>3 DEF Recursive

-----------------------------------------------------------------------------
(* Distribution tables.                                                    *)

\* f adds the weights one after the other.
Adds(f, tab, n) ==
    f[0] = 0 /\ get_max(tab) = f[n] /\ \A i \in 1..n : f[i] = f[i - 1] + tab[i][2]

LEMMA SumStep ==
    ASSUME NEW tab, NEW n \in Nat, Len(tab) = n, \A i \in 1..n : tab[i][2] \in Nat
    PROVE  \E f \in [0..n -> Nat] : Adds(f, tab, n)
<1> DEFINE h == [x \in Nat \X (1..n) |-> x[1] + tab[x[2]][2]]
           IsSum(f) == f = [i \in 0..Len(tab) |-> IF i = 0 THEN 0 ELSE f[i - 1] + tab[i][2]]
           c == CHOOSE f : IsSum(f)
<1>1. h \in [Nat \X (1..n) -> Nat]
    <2>1. ASSUME NEW x \in Nat \X (1..n) PROVE x[1] + tab[x[2]][2] \in Nat
        <3>1. x[1] \in Nat /\ x[2] \in 1..n OBVIOUS
        <3> QED BY <3>1
    <2> QED BY <2>1
<1>2. PICK f \in [0..n -> Nat] : Recursive(f, n, 0, h)
    <2> HIDE DEF h
    <2>1. 0 \in Nat OBVIOUS
    <2> QED BY <1>1, <2>1, Recursion
<1>3. IsSum(f)
    <2>1. ASSUME NEW i \in 0..n PROVE f[i] = IF i = 0 THEN 0 ELSE f[i - 1] + tab[i][2]
        <3>1. CASE i = 0 BY <1>2, <3>1 DEF Recursive
        <3>2. CASE i # 0
            <4>1. i \in 1..n /\ i - 1 \in 0..n BY <3>2
            <4>2. <<f[i - 1], i>> \in Nat \X (1..n) BY <4>1, <1>2
            <4>3. h[<<f[i - 1], i>>] = f[i - 1] + tab[i][2] BY <4>2
            <4>4. f[i] = h[<<f[i - 1], i>>] BY <1>2, <3>2 DEF Recursive
            <4> QED BY <3>2, <4>3, <4>4
        <3> QED BY <3>1, <3>2
    <2>2. f = [i \in 0..n |-> f[i]] OBVIOUS
    <2> QED BY <2>1, <2>2
<1>4. IsSum(c) BY <1>3
<1>5. get_max(tab) = c[n] BY DEF get_max
<1> HIDE DEF c
<1>6. \A i \in 0..n : c[i] = IF i = 0 THEN 0 ELSE c[i - 1] + tab[i][2] BY <1>4
<1>7. c[0] = 0 /\ \A i \in 1..n : c[i] = c[i - 1] + tab[i][2] BY <1>6
<1>8. \A i \in 0..n : c[i] \in Nat
    <2> DEFINE S == {i \in Nat : i <= n => c[i] \in Nat}
    <2>1. 0 \in S BY <1>7
    <2>2. ASSUME NEW i \in Nat, i \in S PROVE i + 1 \in S
        <3> SUFFICES ASSUME i + 1 <= n PROVE c[i + 1] \in Nat OBVIOUS
        <3>1. i + 1 \in 1..n /\ i + 1 - 1 = i /\ c[i] \in Nat BY <2>2
        <3>2. c[i + 1] = c[i] + tab[i + 1][2] BY <1>7, <3>1
        <3> QED BY <3>1, <3>2
    <2>3. Nat \subseteq S BY <2>1, <2>2, SetInduction
    <2> QED BY <2>3
<1>9. DOMAIN c = 0..n /\ c = [i \in 0..n |-> c[i]] BY <1>4
<1>10. c \in [0..n -> Nat] BY <1>8, <1>9
<1> QED BY <1>5, <1>7, <1>10 DEF Adds

\* A key that a roll may find: it is on, and not the mark of a failed assertion.
Key(x) == x # "assert" /\ SwitchedOn(x)

\* A table of keys with weights.
Weights(tab) ==
    /\ Len(tab) \in Nat /\ tab = [i \in 1..Len(tab) |-> tab[i]]
    /\ \A i \in 1..Len(tab) : tab[i][2] \in Nat /\ Key(tab[i][1])

\* The keys that are in the tables whatever the options.
LEMMA FixedKeys ==
    \A x \in {"Function", "Variable", "Constant", "HIPExpression", "SimpleAssign", "BitAndAssign",
              "BitXorAssign", "BitOrAssign", "Sync", "Literal", "SIMD", "BuiltIn"} : Key(x)
BY DEF Key, SwitchedOn, Switched

LEMMA SumNat ==
    ASSUME NEW tab, Weights(tab)
    PROVE  get_max(tab) \in Nat /\ (Len(tab) = 0 => get_max(tab) = 0)
<1>1. PICK f \in [0..Len(tab) -> Nat] : Adds(f, tab, Len(tab)) BY SumStep DEF Weights
<1>2. Len(tab) \in 0..Len(tab) BY DEF Weights
<1> QED BY <1>1, <1>2 DEF Adds

\* Rolls below the sum of a table find one of its keys.
LEMMA RolledKeys ==
    ASSUME NEW tab, Weights(tab), NEW n \in Nat, n <= get_max(tab)
    PROVE  \A x \in Rolled(tab, n) : Key(x)
<1>1. get_max(tab) \in Nat BY SumNat
<1>2. ASSUME NEW r \in 0..(n - 1) PROVE Key(rnd_num_to_key(tab, r))
    <2> DEFINE S == {i \in DOMAIN tab : r < get_max(SubSeq(tab, 1, i))}
    <2>1. DOMAIN tab = 1..Len(tab) BY DEF Weights
    <2>2. SubSeq(tab, 1, Len(tab)) = tab BY DEF Weights
    <2>3. Len(tab) # 0
        <3>1. n > 0 BY SMT
        <3> QED BY <1>1, <3>1, SumNat
    <2>4. Len(tab) \in S
        <3>1. Len(tab) \in 1..Len(tab) BY <2>3 DEF Weights
        <3>2. r < get_max(tab) BY <1>1
        <3> QED BY <2>1, <2>2, <3>1, <3>2
    <2>5. S \in SUBSET Nat /\ S # {} BY <2>1, <2>4
    <2>6. Min(S) \in S BY <2>5, LeastOf
    <2>7. rnd_num_to_key(tab, r) = tab[Min(S)][1] BY DEF rnd_num_to_key
    <2> QED BY <2>1, <2>6, <2>7 DEF Weights
<1> QED BY <1>1, <1>2 DEF Rolled

\* A function on 1..n is a sequence.
LEMMA IsSequence ==
    ASSUME NEW n \in Nat, NEW s, s = [i \in 1..n |-> s[i]]
    PROVE  s \in Seq({s[i] : i \in 1..n}) /\ Len(s) = n
OBVIOUS

LEMMA WeightsAppended ==
    ASSUME NEW s, NEW t, Weights(s), Weights(t)
    PROVE  Weights(s \o t)
<1> DEFINE u == s \o t
           X == {s[i] : i \in 1..Len(s)} \cup {t[i] : i \in 1..Len(t)}
<1>1. Len(s) \in Nat /\ Len(t) \in Nat BY DEF Weights
<1>2. s \in Seq(X) /\ t \in Seq(X)
    <2>1. s \in Seq({s[i] : i \in 1..Len(s)}) /\ t \in Seq({t[i] : i \in 1..Len(t)})
        BY IsSequence DEF Weights
    <2> QED BY <2>1
<1> HIDE DEF X
<1>3. /\ u \in Seq(X) /\ Len(u) = Len(s) + Len(t)
      /\ \A i \in 1..Len(u) : u[i] = IF i <= Len(s) THEN s[i] ELSE t[i - Len(s)]
    BY <1>2, ConcatProperties
<1>4. u = [i \in 1..Len(u) |-> u[i]] BY <1>3, LenProperties
<1>5. \A i \in 1..Len(u) : u[i][2] \in Nat /\ Key(u[i][1])
    <2> TAKE i \in 1..Len(u)
    <2>1. CASE i <= Len(s)
        <3>1. i \in 1..Len(s) /\ u[i] = s[i] BY <1>1, <1>3, <2>1
        <3> QED BY <3>1 DEF Weights
    <2>2. CASE ~(i <= Len(s))
        <3>1. i - Len(s) \in 1..Len(t) /\ u[i] = t[i - Len(s)] BY <1>1, <1>3, <2>2
        <3> QED BY <3>1 DEF Weights
    <2> QED BY <2>1, <2>2
<1> QED BY <1>1, <1>3, <1>4, <1>5 DEF Weights

LEMMA WeightedIs ==
    ASSUME NEW name, NEW key, <<key, name>> \in Switched, NEW w \in Nat
    PROVE  Weights(Weighted(name, key, w))
<1>1. CASE On(name)
    <2>1. Key(key) BY <1>1 DEF Key, SwitchedOn, Switched
    <2>2. Weighted(name, key, w) = << <<key, w>> >> BY <1>1 DEF Weighted
    <2> QED BY <2>1, <2>2 DEF Weights
<1>2. CASE ~On(name) BY <1>2 DEF Weighted, Weights
<1> QED BY <1>1, <1>2

-----------------------------------------------------------------------------
(* The table of statements.                                                *)

\* Keys ascend by gap at least: 1 if no two of them are the same, 0 otherwise.
Ascends(t, gap) == \A i, j \in 1..Len(t) : i < j => t[i][1] + gap <= t[j][1]

Entries(t) == {t[i] : i \in 1..Len(t)}

\* r is t with e put in at p.
HasPut(r, t, p, e) ==
    /\ Len(r) = Len(t) + 1
    /\ \A i \in 1..Len(t) + 1 : /\ i < p => r[i] = t[i]
                                /\ i = p => r[i] = e
                                /\ i > p => r[i] = t[i - 1]

LEMMA Inserted ==
    ASSUME NEW X, NEW t \in Seq(X), NEW e \in X, NEW p \in 1..Len(t) + 1
    PROVE  InsertAt(t, p, e) \in Seq(X) /\ HasPut(InsertAt(t, p, e), t, p, e)
<1> DEFINE a == SubSeq(t, 1, p - 1)
           b == SubSeq(t, p, Len(t))
           m == a \o <<e>>
<1>1. Len(t) \in Nat /\ p \in Int /\ \A i \in 1..Len(t) : t[i] \in X BY LenProperties, ElementOfSeq
<1>2. a \in Seq(X) /\ Len(a) = p - 1 /\ \A i \in 1..p - 1 : a[i] = t[i]
    <2>1. \A i \in 1..p - 1 : t[i] \in X BY <1>1
    <2>2. /\ a \in Seq(X) /\ Len(a) = IF 1 <= p - 1 THEN p - 1 - 1 + 1 ELSE 0
          /\ \A i \in 1..p - 1 - 1 + 1 : a[i] = t[1 + i - 1]
        BY <1>1, <2>1, SubSeqProperties
    <2> HIDE DEF a
    <2>3. Len(a) = p - 1 BY <1>1, <2>2
    <2>4. \A i \in 1..p - 1 : i \in 1..p - 1 - 1 + 1 /\ 1 + i - 1 = i BY <1>1
    <2> QED BY <2>2, <2>3, <2>4
<1>3. b \in Seq(X) /\ Len(b) = Len(t) - p + 1 /\ \A i \in 1..Len(t) - p + 1 : b[i] = t[p + i - 1]
    <2>1. \A i \in p..Len(t) : t[i] \in X BY <1>1
    <2>2. /\ b \in Seq(X) /\ Len(b) = IF p <= Len(t) THEN Len(t) - p + 1 ELSE 0
          /\ \A i \in 1..Len(t) - p + 1 : b[i] = t[p + i - 1]
        BY <1>1, <2>1, SubSeqProperties
    <2> HIDE DEF b
    <2> QED BY <1>1, <2>2
<1>4. InsertAt(t, p, e) = m \o b BY DEF InsertAt
<1> HIDE DEF a, b
<1>5. <<e>> \in Seq(X) /\ Len(<<e>>) = 1 /\ <<e>>[1] = e OBVIOUS
<1>6. /\ m \in Seq(X) /\ Len(m) = p
      /\ \A i \in 1..p : m[i] = IF i < p THEN t[i] ELSE e
    <2>1. /\ m \in Seq(X) /\ Len(m) = Len(a) + 1
          /\ \A i \in 1..Len(a) + 1 : m[i] = IF i <= Len(a) THEN a[i] ELSE <<e>>[i - Len(a)]
        BY <1>2, <1>5, ConcatProperties
    <2> HIDE DEF m
    <2>2. ASSUME NEW i \in 1..p PROVE m[i] = IF i < p THEN t[i] ELSE e
        <3>1. CASE i < p BY <1>1, <1>2, <2>1, <3>1
        <3>2. CASE i = p
            <4>1. m[i] = <<e>>[i - Len(a)] /\ i - Len(a) = 1 BY <1>1, <1>2, <2>1, <3>2
            <4>2. m[i] = <<e>>[1] BY <4>1
            <4> QED BY <1>5, <3>2, <4>2
        <3> QED BY <1>1, <3>1, <3>2
    <2> QED BY <1>1, <1>2, <2>1, <2>2
<1> HIDE DEF m
<1>7. /\ m \o b \in Seq(X) /\ Len(m \o b) = Len(m) + Len(b)
      /\ \A i \in 1..Len(m) + Len(b) : (m \o b)[i] = IF i <= Len(m) THEN m[i] ELSE b[i - Len(m)]
    BY <1>3, <1>6, ConcatProperties
<1>8. ASSUME NEW i \in 1..Len(t) + 1
      PROVE  /\ i < p => (m \o b)[i] = t[i]
             /\ i = p => (m \o b)[i] = e
             /\ i > p => (m \o b)[i] = t[i - 1]
    <2> DEFINE w == (m \o b)[i]
    <2>1. i <= p => w = IF i < p THEN t[i] ELSE e
        <3> SUFFICES ASSUME i <= p PROVE w = IF i < p THEN t[i] ELSE e OBVIOUS
        <3>1. i \in 1..p /\ i \in 1..Len(m) + Len(b) BY <1>1, <1>3, <1>6
        <3>2. w = m[i] BY <1>6, <1>7, <3>1
        <3> QED BY <1>6, <3>1, <3>2
    <2>2. i > p => w = t[i - 1]
        <3> SUFFICES ASSUME i > p PROVE w = t[i - 1] OBVIOUS
        <3>1. w = b[i - p] /\ i - p \in 1..Len(t) - p + 1 BY <1>1, <1>3, <1>6, <1>7
        <3>2. p + (i - p) - 1 = i - 1 BY <1>1
        <3>3. b[i - p] = t[p + (i - p) - 1] BY <1>3, <3>1
        <3> QED BY <3>1, <3>2, <3>3
    <2> HIDE DEF w
    <2>3. i < p => i <= p /\ w = t[i] BY <1>1, <2>1
    <2>4. i = p => i <= p /\ ~(i < p) BY <1>1
    <2>5. i = p => w = e BY <2>1, <2>4
    <2> QED BY <2>2, <2>3, <2>5 DEF w
<1>9. Len(m \o b) = Len(t) + 1 BY <1>1, <1>3, <1>6, <1>7
<1> QED BY <1>4, <1>7, <1>8, <1>9 DEF HasPut

\* No entry has key k.
NewKey(t, k) == \A i \in 1..Len(t) : t[i][1] # k

\* An entry is put in where it belongs.
LEMMA InsertSorted ==
    ASSUME NEW X, \A x \in X : x[1] \in Nat, NEW t \in Seq(X), NEW e \in X, NEW gap \in {0, 1},
           Ascends(t, gap),
           gap = 1 => NewKey(t, e[1])
    PROVE  /\ sorted_insert(t, e) \in Seq(X)
           /\ Ascends(sorted_insert(t, e), gap)
           /\ Entries(sorted_insert(t, e)) = Entries(t) \cup {e}
<1> DEFINE after == {i \in DOMAIN t : t[i][1] > e[1]}
           p == IF after = {} THEN Len(t) + 1 ELSE Min(after)
           r == sorted_insert(t, e)
<1>0. Len(t) \in Nat BY LenProperties
<1>1. Len(t) \in Nat /\ DOMAIN t = 1..Len(t) /\ e[1] \in Nat /\ \A i \in 1..Len(t) : t[i][1] \in Nat
    BY LenProperties, ElementOfSeq
<1>2. /\ p \in 1..Len(t) + 1
      /\ \A i \in 1..Len(t) : i < p => t[i][1] <= e[1]
      /\ \A i \in 1..Len(t) : i >= p => t[i][1] > e[1]
    <2>1. CASE after = {}
        <3>1. \A i \in 1..Len(t) : ~(t[i][1] > e[1]) BY <1>1, <2>1
        <3> QED BY <1>1, <2>1, <3>1
    <2>2. CASE after # {}
        <3>1. after \in SUBSET Nat BY <1>1
        <3>2. Min(after) \in after /\ \A y \in after : Min(after) <= y
            <4> HIDE DEF after
            <4> QED BY <2>2, <3>1, LeastOf
        <3>3. p = Min(after) BY <2>2
        <3>4. p \in 1..Len(t) /\ t[p][1] > e[1] BY <1>1, <3>2, <3>3
        <3>5. ASSUME NEW i \in 1..Len(t), i < p PROVE t[i][1] <= e[1]
            <4>1. i \notin after
                <5> HIDE DEF after, p
                <5> QED BY <3>2, <3>3, <3>4, <3>5
            <4> QED BY <1>1, <4>1
        <3>6. ASSUME NEW i \in 1..Len(t), i >= p PROVE t[i][1] > e[1]
            <4> HIDE DEF p
            <4>1. i = p \/ p < i BY <3>4, <3>6
            <4>2. t[p][1] <= t[i][1] \/ i = p BY <3>4, <4>1 DEF Ascends
            <4> QED BY <1>1, <3>4, <4>2
        <3> HIDE DEF p
        <3> QED BY SMTT(30), <1>1, <3>4, <3>5, <3>6
    <2> QED BY <2>1, <2>2
<1>3. r = InsertAt(t, p, e)
    <2>1. CASE after = {}
        <3>1. r = Append(t, e) BY <2>1 DEF sorted_insert
        <3> DEFINE x == InsertAt(t, Len(t) + 1, e)
                   y == Append(t, e)
        <3>2. /\ x \in Seq(X) /\ Len(x) = Len(t) + 1
              /\ \A i \in 1..Len(t) + 1 : x[i] = IF i < Len(t) + 1 THEN t[i] ELSE e
            <4>1. Len(t) + 1 \in 1..Len(t) + 1 BY <1>1
            <4>3. x \in Seq(X) /\ HasPut(x, t, Len(t) + 1, e) BY <4>1, Inserted
            <4> HIDE DEF x
            <4> QED BY <1>1, <4>3 DEF HasPut
        <3>3. /\ y \in Seq(X) /\ Len(y) = Len(t) + 1
              /\ \A i \in 1..Len(t) : y[i] = t[i]
              /\ y[Len(t) + 1] = e
            BY AppendProperties
        <3> HIDE DEF x, y
        <3>4. \A i \in 1..Len(x) : x[i] = y[i] BY <1>1, <3>2, <3>3
        <3>5. x = y BY <3>2, <3>3, <3>4, SeqEqual
        <3> QED BY <2>1, <3>1, <3>5 DEF x, y
    <2>2. CASE after # {} BY <2>2 DEF sorted_insert
    <2> QED BY <2>1, <2>2
<1> HIDE DEF p, r
<1>4. r \in Seq(X) /\ HasPut(r, t, p, e) BY <1>2, <1>3, Inserted
<1> USE DEF HasPut
<1>5. Ascends(r, gap)
    <2>1. SUFFICES ASSUME NEW i \in 1..Len(r), NEW j \in 1..Len(r), i < j
                   PROVE  r[i][1] + gap <= r[j][1]
        BY DEF Ascends
    <2> DEFINE a == IF i < p THEN i ELSE i - 1
               b == IF j < p THEN j ELSE j - 1
    <2>2. i \in 1..Len(t) + 1 /\ j \in 1..Len(t) + 1 BY <1>4
    <2>3. CASE i # p /\ j # p
        <3>1. a \in 1..Len(t) /\ b \in 1..Len(t) /\ a < b BY <1>1, <1>2, <2>1, <2>2, <2>3
        <3>2. r[i] = t[a]
            <4>1. CASE i < p BY <1>4, <2>2, <4>1
            <4>2. CASE i > p BY <1>4, <2>2, <4>2
            <4> QED BY <1>2, <2>2, <2>3, <4>1, <4>2
        <3>3. r[j] = t[b]
            <4>1. CASE j < p BY <1>4, <2>2, <4>1
            <4>2. CASE j > p BY <1>4, <2>2, <4>2
            <4> QED BY <1>2, <2>2, <2>3, <4>1, <4>2
        <3> HIDE DEF a, b
        <3> QED BY <3>1, <3>2, <3>3 DEF Ascends
    <2>4. CASE i = p
        <3>1. j - 1 \in 1..Len(t) /\ j - 1 >= p BY <1>1, <1>2, <2>1, <2>2, <2>4
        <3>2. r[i] = e /\ r[j] = t[j - 1] BY <1>2, <1>4, <2>1, <2>2, <2>4
        <3>3. t[j - 1][1] > e[1] BY <1>2, <3>1
        <3>4. t[j - 1][1] \in Nat /\ e[1] \in Nat BY <1>1, <3>1
        <3> QED BY <3>2, <3>3, <3>4
    <2>5. CASE j = p
        <3>1. i \in 1..Len(t) /\ i < p BY <1>1, <1>2, <2>1, <2>2, <2>5
        <3>2. r[i] = t[i] /\ r[j] = e BY <1>2, <1>4, <2>1, <2>2, <2>5
        <3>3. t[i][1] <= e[1] BY <1>2, <3>1
        <3>4. t[i][1] \in Nat /\ e[1] \in Nat BY <1>1, <3>1
        <3>5. gap = 1 => t[i][1] # e[1] BY <3>1 DEF NewKey
        <3>6. t[i][1] + gap <= e[1] BY <3>3, <3>4, <3>5
        <3> QED BY <3>2, <3>6
    <2> QED BY <2>3, <2>4, <2>5
<1>6. Entries(r) = Entries(t) \cup {e}
    <2>1. ASSUME NEW x \in Entries(r) PROVE x \in Entries(t) \cup {e}
        <3>1. PICK i \in 1..Len(t) + 1 : x = r[i] BY <1>4 DEF Entries
        <3>2. CASE i < p
            <4>1. i \in 1..Len(t) /\ x = t[i] BY <1>1, <1>2, <1>4, <3>1, <3>2
            <4> QED BY <4>1 DEF Entries
        <3>3. CASE i = p BY <1>4, <3>1, <3>3
        <3>4. CASE i > p
            <4>1. i - 1 \in 1..Len(t) /\ x = t[i - 1] BY <1>2, <1>4, <3>1, <3>4
            <4> QED BY <4>1 DEF Entries
        <3> QED BY <1>2, <3>2, <3>3, <3>4
    <2>2. e \in Entries(r) BY <1>2, <1>4 DEF Entries
    <2>3. ASSUME NEW i \in 1..Len(t) PROVE t[i] \in Entries(r)
        <3>1. CASE i < p
            <4>1. i \in 1..Len(r) /\ r[i] = t[i] BY <1>1, <1>4, <3>1
            <4> QED BY <4>1 DEF Entries
        <3>2. CASE ~(i < p)
            <4>1. i + 1 \in 1..Len(r) /\ i + 1 > p /\ i + 1 - 1 = i BY <1>0, <1>2, <1>4, <3>2
            <4>2. r[i + 1] = t[i] BY <1>0, <1>4, <4>1
            <4> QED BY <4>1, <4>2 DEF Entries
        <3> QED BY <3>1, <3>2
    <2> QED BY <2>1, <2>2, <2>3 DEF Entries
<1> QED BY <1>4, <1>5, <1>6 DEF r

\* What is not 0 in the first k elements of a list.
Shares(list, k) == {<<list[i].val, list[i].name>> : i \in {j \in 1..k : list[j].val > 0}}

\* The table of a list, one element after the other.
Step(t, e) == IF e.val > 0 THEN sorted_insert(t, <<e.val, e.name>>) ELSE t

LEMMA TableSteps ==
    ASSUME NEW list, NEW n \in Nat, Len(list) = n, \A i \in 1..n : list[i].val \in Nat,
           NEW N, \A i \in 1..n : list[i].name \in N
    PROVE  \E f :
              /\ f[0] = << >> /\ set_prob_table(list) = f[n]
              /\ \A i \in 1..n : f[i] = Step(f[i - 1], list[i])
<1> DEFINE T == {t \in Seq(Nat \X N) : Ascends(t, 0)}
           h == [x \in T \X (1..n) |-> Step(x[1], list[x[2]])]
           IsTab(f) == f = [i \in 0..Len(list) |->
                              IF i = 0 THEN << >>
                              ELSE IF list[i].val > 0
                                   THEN sorted_insert(f[i - 1], <<list[i].val, list[i].name>>)
                              ELSE f[i - 1]]
           c == CHOOSE f : IsTab(f)
<1>1. h \in [T \X (1..n) -> T]
    <2>1. ASSUME NEW t \in T, NEW i \in 1..n PROVE Step(t, list[i]) \in T
        <3>1. CASE list[i].val > 0
            <4> DEFINE e == <<list[i].val, list[i].name>>
            <4> DEFINE X == Nat \X N
            <4>1. e \in X /\ \A x \in X : x[1] \in Nat OBVIOUS
            <4>2. t \in Seq(X) /\ Ascends(t, 0) OBVIOUS
            <4> HIDE DEF e, X
            <4>3. sorted_insert(t, e) \in Seq(X) /\ Ascends(sorted_insert(t, e), 0)
                BY <4>1, <4>2, InsertSorted
            <4>4. Step(t, list[i]) = sorted_insert(t, e) BY <3>1 DEF Step, e
            <4> QED BY <4>3, <4>4 DEF X
        <3>2. CASE ~(list[i].val > 0) BY <3>2 DEF Step
        <3> QED BY <3>1, <3>2
    <2> HIDE DEF T
    <2>2. ASSUME NEW x \in T \X (1..n) PROVE Step(x[1], list[x[2]]) \in T
        <3>1. x[1] \in T /\ x[2] \in 1..n OBVIOUS
        <3> QED BY <2>1, <3>1
    <2> QED BY <2>2
<1>2. << >> \in T BY DEF Ascends
<1> HIDE DEF T
<1>3. PICK f \in [0..n -> T] : Recursive(f, n, << >>, h)
    <2> HIDE DEF h
    <2> QED BY <1>1, <1>2, Recursion
<1>4. IsTab(f)
    <2>1. ASSUME NEW i \in 0..n
          PROVE  f[i] = IF i = 0 THEN << >>
                        ELSE IF list[i].val > 0
                             THEN sorted_insert(f[i - 1], <<list[i].val, list[i].name>>)
                        ELSE f[i - 1]
        <3>1. CASE i = 0 BY <1>3, <3>1 DEF Recursive
        <3>2. CASE i # 0
            <4>1. i \in 1..n /\ i - 1 \in 0..n BY <3>2
            <4>2. <<f[i - 1], i>> \in T \X (1..n) BY <4>1, <1>3
            <4>3. h[<<f[i - 1], i>>] = Step(f[i - 1], list[i]) BY <4>2
            <4>4. f[i] = h[<<f[i - 1], i>>] BY <1>3, <3>2 DEF Recursive
            <4> QED BY <3>2, <4>3, <4>4 DEF Step
        <3> QED BY <3>1, <3>2
    <2>2. f = [i \in 0..n |-> f[i]] OBVIOUS
    <2> QED BY <2>1, <2>2
<1>5. IsTab(c) BY <1>4
<1>6. set_prob_table(list) = c[n] BY DEF set_prob_table
<1> HIDE DEF c
<1>7. c[0] = << >> BY <1>5
<1>8. \A i \in 1..n : c[i] = Step(c[i - 1], list[i]) BY <1>5 DEF Step
<1> QED BY <1>6, <1>7, <1>8

LEMMA TableIs ==
    ASSUME NEW list, NEW n \in Nat, Len(list) = n, \A i \in 1..n : list[i].val \in Nat,
           NEW N, \A i \in 1..n : list[i].name \in N, NEW gap \in {0, 1},
           gap = 1 => \A i, j \in 1..n : list[i].val = list[j].val /\ list[i].val > 0 => i = j
    PROVE  /\ set_prob_table(list) \in Seq(Nat \X N)
           /\ Ascends(set_prob_table(list), gap)
           /\ Entries(set_prob_table(list)) = Shares(list, n)
<1>1. PICK f : /\ f[0] = << >> /\ set_prob_table(list) = f[n]
               /\ \A i \in 1..n : f[i] = Step(f[i - 1], list[i])
    BY TableSteps
<1> DEFINE P(k) == f[k] \in Seq(Nat \X N) /\ Ascends(f[k], gap) /\ Entries(f[k]) = Shares(list, k)
           S == {k \in Nat : k <= n => P(k)}
<1>2. 0 \in S
    <2>1. Ascends(<< >>, gap) /\ << >> \in Seq(Nat \X N) BY DEF Ascends
    <2>2. Entries(<< >>) = {} BY DEF Entries
    <2>3. Shares(list, 0) = {} BY DEF Shares
    <2>4. P(0)
        <3> HIDE DEF Ascends
        <3> QED BY <1>1, <2>1, <2>2, <2>3
    <2> HIDE DEF P
    <2> QED BY <2>4
<1>3. ASSUME NEW k \in Nat, k \in S PROVE k + 1 \in S
    <2> SUFFICES ASSUME k + 1 <= n PROVE P(k + 1) OBVIOUS
    <2> DEFINE t == f[k]
               x == list[k + 1]
               e == <<x.val, x.name>>
    <2>1. t \in Seq(Nat \X N) /\ Ascends(t, gap) /\ Entries(t) = Shares(list, k) BY <1>3
    <2>2. k + 1 \in 1..n /\ k + 1 - 1 = k OBVIOUS
    <2>3. f[k + 1] = Step(t, x) BY <1>1, <2>2
    <2>4. CASE x.val > 0
        <3>1. f[k + 1] = sorted_insert(t, e) BY <2>3, <2>4 DEF Step
        <3>2. e \in Nat \X N BY <2>2
        <3>3. Shares(list, k + 1) = Shares(list, k) \cup {e}
            <4>1. {j \in 1..k + 1 : list[j].val > 0} = {j \in 1..k : list[j].val > 0} \cup {k + 1}
                BY <2>4
            <4> QED BY <4>1 DEF Shares
        <3>4. gap = 1 => NewKey(t, e[1])
            <4> SUFFICES ASSUME gap = 1, NEW i \in 1..Len(t), t[i][1] = e[1] PROVE FALSE BY DEF NewKey
            <4>1. t[i] \in Shares(list, k) BY <2>1 DEF Entries
            <4>2. PICK j \in 1..k : t[i] = <<list[j].val, list[j].name>> BY <4>1 DEF Shares
            <4>3. list[j].val = x.val /\ j \in 1..n /\ j # k + 1 BY <2>2, <4>2
            <4> QED BY <2>2, <2>4, <4>3
        <3> DEFINE X == Nat \X N
        <3>5. \A y \in X : y[1] \in Nat OBVIOUS
        <3>6. t \in Seq(X) /\ e \in X BY <2>1, <3>2
        <3> HIDE DEF e, t, X
        <3>7. /\ sorted_insert(t, e) \in Seq(X)
              /\ Ascends(sorted_insert(t, e), gap)
              /\ Entries(sorted_insert(t, e)) = Entries(t) \cup {e}
            BY <2>1, <3>4, <3>5, <3>6, InsertSorted
        <3> QED BY <2>1, <3>1, <3>3, <3>7 DEF X
    <2>5. CASE ~(x.val > 0)
        <3>1. f[k + 1] = t BY <2>3, <2>5 DEF Step
        <3>2. Shares(list, k + 1) = Shares(list, k)
            <4>1. {j \in 1..k + 1 : list[j].val > 0} = {j \in 1..k : list[j].val > 0} BY <2>5
            <4> QED BY <4>1 DEF Shares
        <3> QED BY <2>1, <3>1, <3>2
    <2> QED BY <2>4, <2>5
<1>4. Nat \subseteq S
    <2> HIDE DEF S
    <2> QED BY <1>2, <1>3, SetInduction
<1>5. P(n) BY <1>4
<1> QED BY <1>1, <1>5

\* The entry that a number finds, and a number that finds each entry.
LEMMA Found ==
    ASSUME NEW X, \A x \in X : x[1] \in Nat, NEW t \in Seq(X), NEW k \in Nat, Ascends(t, 0),
           NEW m \in 1..Len(t), k < t[m][1]
    PROVE  /\ k < t[Len(t)][1]
           /\ \E i \in 1..Len(t) : /\ t[Min({j \in DOMAIN t : t[j][1] > k})] = t[i]
                                   /\ t[i][1] > k /\ i <= m
                                   /\ \A j \in 1..Len(t) : j < i => t[j][1] <= k
<1> DEFINE S == {j \in DOMAIN t : t[j][1] > k}
<1>0. Len(t) \in Nat BY LenProperties
<1>1. Len(t) \in Nat /\ DOMAIN t = 1..Len(t) /\ \A i \in 1..Len(t) : t[i][1] \in Nat
    <2>1. \A i \in 1..Len(t) : t[i] \in X BY ElementOfSeq
    <2> QED BY <2>1, LenProperties
<1>2. m \in S BY <1>1
<1>3. S \in SUBSET Nat /\ S # {} BY <1>1, <1>2
<1>4. Min(S) \in S /\ \A y \in S : Min(S) <= y
    <2> HIDE DEF S
    <2> QED BY <1>3, LeastOf
<1>5. \A j \in 1..Len(t) : j < Min(S) => t[j][1] <= k
    <2> SUFFICES ASSUME NEW j \in 1..Len(t), j < Min(S) PROVE t[j][1] <= k OBVIOUS
    <2>1. j \notin S
        <3>1. j \in Int BY <1>0
        <3>2. Min(S) \in Int BY <1>3, <1>4
        <3> HIDE DEF S
        <3>3. ~(Min(S) <= j) BY <3>1, <3>2
        <3> QED BY <1>4, <3>3
    <2> QED BY <1>1, <2>1
<1>6. k < t[Len(t)][1]
    <2>1. m = Len(t) \/ (m < Len(t) /\ Len(t) \in 1..Len(t))
        <3>1. m \in Int /\ 1 <= m /\ m <= Len(t) BY <1>0
        <3> QED BY <1>0, <3>1
    <2>2. t[m][1] <= t[Len(t)][1]
        <3>1. CASE m = Len(t) BY <1>1, <3>1
        <3>2. CASE m < Len(t) /\ Len(t) \in 1..Len(t) BY <3>2 DEF Ascends
        <3> QED BY <2>1, <3>1, <3>2
    <2>3. t[m][1] \in Nat /\ t[Len(t)][1] \in Nat BY <1>1, <2>1
    <2> QED BY <2>2, <2>3
<1> QED BY <1>1, <1>2, <1>4, <1>5, <1>6

LEMMA Percentages ==
    0..100 \subseteq Nat /\ \A x \in 0..99 : x \in Nat /\ x < 100
OBVIOUS

\* With a number 100 the table holds every roll, and each roll finds a statement that is
\* on; when no two numbers are the same, each of these is found.
LEMMA TableFinds ==
    ASSUME NEW list, NEW n \in Nat, Len(list) = n, \A i \in 1..n : list[i].val \in 0..100,
           \E i \in 1..n : list[i].val = 100, table = set_prob_table(list)
    PROVE  /\ \A v \in 0..99 : InTable(v)
           /\ \A v \in 0..99 : \E i \in 1..n : list[i].val > 0 /\ list[i].name = get_value(v)
           /\ (\A i, j \in 1..n : list[i].val = list[j].val /\ list[i].val > 0 => i = j) =>
                  \A i \in 1..n : list[i].val > 0 => get_value(list[i].val - 1) = list[i].name
<1>1. PICK N : N = {list[i].name : i \in 1..n} OBVIOUS
<1>2. PICK X : X = Nat \X N OBVIOUS
<1>3. (\A i \in 1..n : list[i].val \in Nat) /\ (\A i \in 1..n : list[i].name \in N)
    <2>1. 0..100 \subseteq Nat BY Percentages
    <2>2. \A i \in 1..n : list[i].val \in Nat BY <2>1
    <2>3. \A i \in 1..n : list[i].name \in N BY <1>1
    <2> QED BY <2>2, <2>3
<1>4. PICK t : t = table OBVIOUS
<1>5. t \in Seq(X) /\ Ascends(t, 0) /\ Entries(t) = Shares(list, n)
    <2>1. 0 \in {0, 1} /\ 0 # 1 OBVIOUS
    <2>2. /\ set_prob_table(list) \in Seq(Nat \X N) /\ Ascends(set_prob_table(list), 0)
          /\ Entries(set_prob_table(list)) = Shares(list, n)
        BY <1>3, <2>1, TableIs
    <2> QED BY <1>2, <1>4, <2>2
<1>6. \A x \in X : x[1] \in Nat BY <1>2
<1>7. Len(t) \in Nat /\ DOMAIN t = 1..Len(t) BY <1>5, LenProperties
<1>8. ASSUME NEW i \in 1..n, list[i].val > 0
      PROVE  \E m \in 1..Len(t) : t[m][1] = list[i].val /\ t[m][2] = list[i].name
    <2>1. <<list[i].val, list[i].name>> \in Entries(t) BY <1>5, <1>8 DEF Shares
    <2>2. PICK m \in 1..Len(t) : t[m] = <<list[i].val, list[i].name>> BY <2>1 DEF Entries
    <2> QED BY <2>2
<1>9. ASSUME NEW m \in 1..Len(t)
      PROVE  \E i \in 1..n : list[i].val > 0 /\ list[i].val = t[m][1] /\ list[i].name = t[m][2]
    <2>1. t[m] \in Shares(list, n) BY <1>5 DEF Entries
    <2>2. PICK i \in 1..n : list[i].val > 0 /\ t[m] = <<list[i].val, list[i].name>>
        BY <2>1 DEF Shares
    <2> QED BY <2>2
<1>10. ASSUME NEW v \in Nat, NEW m \in 1..Len(t), v < t[m][1]
       PROVE  /\ InTable(v)
              /\ \E i \in 1..Len(t) : /\ get_value(v) = t[i][2] /\ t[i][1] > v /\ i <= m
    <2>1. /\ v < t[Len(t)][1]
          /\ \E i \in 1..Len(t) : /\ t[Min({j \in DOMAIN t : t[j][1] > v})] = t[i]
                                  /\ t[i][1] > v /\ i <= m
                                  /\ \A j \in 1..Len(t) : j < i => t[j][1] <= v
        BY <1>5, <1>6, <1>10, Found
    <2> QED BY <1>4, <2>1 DEF InTable, get_value
<1>11. ASSUME NEW v \in 0..99
       PROVE  InTable(v) /\ \E i \in 1..n : list[i].val > 0 /\ list[i].name = get_value(v)
    <2>1. PICK m \in 1..Len(t) : t[m][1] = 100
        <3>1. PICK i \in 1..n : list[i].val = 100 OBVIOUS
        <3>2. list[i].val > 0 BY <3>1
        <3>3. PICK m \in 1..Len(t) : t[m][1] = list[i].val BY <1>8, <3>2
        <3> QED BY <3>1, <3>3
    <2>2. v \in Nat /\ v < t[m][1]
        <3>1. v \in Nat /\ v < 100 BY Percentages
        <3> QED BY <2>1, <3>1
    <2>3. InTable(v) BY <1>10, <2>2
    <2>4. PICK j \in 1..Len(t) : get_value(v) = t[j][2] BY <1>10, <2>2
    <2> QED BY <1>9, <2>3, <2>4
<1>12. ASSUME \A i, j \in 1..n : list[i].val = list[j].val /\ list[i].val > 0 => i = j,
              NEW i \in 1..n, list[i].val > 0
       PROVE  get_value(list[i].val - 1) = list[i].name
    <2>1. Ascends(t, 1)
        <3>1. 1 \in {0, 1} OBVIOUS
        <3> QED BY <1>3, <1>4, <1>12, <3>1, TableIs
    <2>2. PICK m \in 1..Len(t) : t[m][1] = list[i].val /\ t[m][2] = list[i].name BY <1>8, <1>12
    <2>3. PICK v \in Nat : v = list[i].val - 1 /\ v < t[m][1]
        <3>1. list[i].val - 1 \in Nat /\ list[i].val - 1 < list[i].val BY <1>3, <1>12
        <3> QED BY <2>2, <3>1
    <2>4. PICK k \in 1..Len(t) : get_value(v) = t[k][2] /\ t[k][1] > v /\ k <= m
        BY <1>10, <2>3
    <2>5. k = m
        <3> SUFFICES ASSUME k < m PROVE FALSE
            <4>1. k \in Int /\ m \in Int BY <1>7
            <4> QED BY <2>4, <4>1
        <3>1. t[k][1] + 1 <= t[m][1] BY <2>1 DEF Ascends
        <3>2. t[k][1] \in Nat
            <4>1. t[k] \in X BY <1>5, ElementOfSeq
            <4> QED BY <1>6, <4>1
        <3>3. t[m][1] = v + 1 BY <1>3, <2>2, <2>3
        <3> QED BY <2>4, <3>1, <3>2, <3>3
    <2> QED BY <2>2, <2>3, <2>4, <2>5
<1> QED BY <1>11, <1>12

-----------------------------------------------------------------------------
(* No roll is out of the tables that are fixed.                            *)

LEMMA FixedTables ==
    /\ Weights(InitExprProbabilityTable) /\ Weights(InitParamProbabilityTable)
    /\ Weights(assignOpsTable)
    /\ Weights(hip_stmt_table) /\ get_max(hip_stmt_table) = 10
    /\ Weights(vector_expr_table) /\ get_max(vector_expr_table) = 40
<1>1. Weights(InitExprProbabilityTable)
    <2>1. Weights(<< <<"Function", 70>>, <<"Variable", 20>>, <<"Constant", 10>> >>) BY FixedKeys DEF Weights
    <2>2. Weights(<< <<"HIPExpression", 15>> >>) BY FixedKeys DEF Weights
    <2>3. /\ Weights(Weighted("embedded_assigns", "Assignment", 10))
          /\ Weights(Weighted("comma_exprs", "CommaExpr", 10))
        BY WeightedIs DEF Switched
    <2> QED BY <2>1, <2>2, <2>3, WeightsAppended DEF InitExprProbabilityTable
<1>2. Weights(InitParamProbabilityTable)
    <2>1. Weights(<< <<"Function", 40>>, <<"Variable", 40>>, <<"Constant", 0>> >>) BY FixedKeys DEF Weights
    <2>2. /\ Weights(Weighted("embedded_assigns", "Assignment", 10))
          /\ Weights(Weighted("comma_exprs", "CommaExpr", 10))
        BY WeightedIs DEF Switched
    <2> QED BY <2>1, <2>2, WeightsAppended DEF InitParamProbabilityTable
<1>3. Weights(assignOpsTable)
    <2>1. Weights(<< <<"SimpleAssign", 70>>, <<"BitAndAssign", 10>>, <<"BitXorAssign", 10>>,
                     <<"BitOrAssign", 10>> >>)
        BY FixedKeys DEF Weights
    <2>2. /\ Weights(Weighted("pre_incr", "PreIncr", 5)) /\ Weights(Weighted("pre_decr", "PreDecr", 5))
          /\ Weights(Weighted("post_incr", "PostIncr", 5)) /\ Weights(Weighted("post_decr", "PostDecr", 5))
        BY WeightedIs DEF Switched
    <2> QED BY <2>1, <2>2, WeightsAppended DEF assignOpsTable
<1>4. Weights(hip_stmt_table) /\ get_max(hip_stmt_table) = 10
    <2> DEFINE tab == << <<"Sync", 10>> >>
    <2>1. Len(tab) = 1 /\ tab[1][2] = 10 /\ Weights(tab) BY FixedKeys DEF Weights
    <2>2. \A i \in 1..1 : tab[i][2] \in Nat BY <2>1
    <2> HIDE DEF tab
    <2>3. PICK f \in [0..1 -> Nat] : Adds(f, tab, 1)
        BY <2>1, <2>2, SumStep
    <2>4. get_max(tab) = f[1] /\ f[1] = f[1 - 1] + tab[1][2] /\ f[0] = 0 BY <2>3 DEF Adds
    <2>5. get_max(tab) = 10 BY <2>1, <2>4
    <2> QED BY <2>1, <2>5 DEF hip_stmt_table, tab
<1>5. Weights(vector_expr_table) /\ get_max(vector_expr_table) = 40
    <2> DEFINE tab == << <<"Literal", 10>>, <<"Variable", 10>>, <<"SIMD", 10>>, <<"BuiltIn", 10>> >>
    <2>1. Len(tab) = 4 /\ Weights(tab) BY FixedKeys DEF Weights
    <2>2. tab[1][2] = 10 /\ tab[2][2] = 10 /\ tab[3][2] = 10 /\ tab[4][2] = 10 OBVIOUS
    <2>3. \A i \in 1..4 : tab[i][2] \in Nat BY <2>1 DEF Weights
    <2> HIDE DEF tab
    <2>4. PICK f \in [0..4 -> Nat] : Adds(f, tab, 4)
        BY <2>1, <2>3, SumStep
    <2>5. /\ f[1] = f[1 - 1] + tab[1][2] /\ f[2] = f[2 - 1] + tab[2][2]
          /\ f[3] = f[3 - 1] + tab[3][2] /\ f[4] = f[4 - 1] + tab[4][2]
          /\ get_max(tab) = f[4] /\ f[0] = 0
        BY <2>4 DEF Adds
    <2>6. get_max(tab) = 40 BY <2>2, <2>5
    <2> QED BY <2>1, <2>6 DEF vector_expr_table, tab
<1> QED BY <1>1, <1>2, <1>3, <1>4, <1>5

\* The rolls for anything but a statement or an operator find keys, which are on.
LEMMA AnswersInTable ==
    ASSUME NEW q, q.ask \in {"expr", "param", "assign", "hip_statement", "vector"}, NEW x \in Answers(q)
    PROVE  /\ Key(x)
           /\ q.ask = "assign" /\ ~On("compound_assignment") => x = "SimpleAssign"
<1>1. \A y \in Rolled(InitExprProbabilityTable, get_max(InitExprProbabilityTable)) : Key(y)
    <2>1. get_max(InitExprProbabilityTable) \in Nat BY FixedTables, SumNat
    <2> QED BY <2>1, FixedTables, RolledKeys
<1>2. \A y \in Rolled(InitParamProbabilityTable, get_max(InitParamProbabilityTable)) : Key(y)
    <2>1. get_max(InitParamProbabilityTable) \in Nat BY FixedTables, SumNat
    <2> QED BY <2>1, FixedTables, RolledKeys
<1>3. \A y \in Rolled(assignOpsTable, get_max(assignOpsTable)) : Key(y)
    <2>1. get_max(assignOpsTable) \in Nat BY FixedTables, SumNat
    <2> QED BY <2>1, FixedTables, RolledKeys
<1>4. \A y \in Rolled(hip_stmt_table, 10) : Key(y) BY FixedTables, RolledKeys
<1>5. \A y \in Rolled(vector_expr_table, 30) : Key(y) BY FixedTables, RolledKeys
<1>6. CASE q.ask = "expr" BY <1>1, <1>6, FixedKeys DEF Answers, make_random
<1>7. CASE q.ask = "param" BY <1>2, <1>7 DEF Answers, make_random_param
<1>8. CASE q.ask = "assign" BY <1>3, <1>8, FixedKeys DEF Answers, AssignOpsProbability
<1>9. CASE q.ask = "hip_statement" BY <1>4, <1>9 DEF Answers
<1>10. CASE q.ask = "vector" BY <1>5, <1>10 DEF Answers
<1> QED BY <1>6, <1>7, <1>8, <1>9, <1>10

-----------------------------------------------------------------------------
(* The inductive invariant.                                                *)

Size(g) == Len(Defaults(g))
Name(g, i) == Defaults(g)[i][1]
Base(g, i) == Defaults(g)[i][2]
Hi(g) == IF is_equal(g) THEN 1 ELSE 100

\* Values that a group with defaults d may have: in range, 0 where they are off, and
\* such that a dump of them is accepted and the table made of them covers every roll.
GoodVals(g, d, v) ==
    /\ \A i \in 1..Len(d) : v[i] \in 0..Hi(g) /\ (d[i][2] = 0 => v[i] = 0)
    /\ is_equal(g) => \E i \in 1..Len(d) : v[i] = 1
    /\ g = "statement" =>
           /\ \E i \in 1..Len(d) : v[i] = 100
           /\ \A i, j \in 1..Len(d) : v[i] = v[j] /\ v[i] > 0 => i = j

\* The first n elements of a group with defaults d.
Elements(d, n, s) ==
    /\ s = [i \in 1..n |-> [name |-> d[i][1], def |-> d[i][2], val |-> s[i].val]]
    /\ \A i \in 1..n : s[i].val \in 0..100

\* They are what they may be: in range, and 0 where they are off.
InRange(g, d, n, s) == \A i \in 1..n : s[i].val \in 0..Hi(g) /\ (d[i][2] = 0 => s[i].val = 0)

\* The numbers drawn differ from each other and from 100, and are ruled out for the next.
Apart(n, s, invalid) ==
    /\ invalid = {0, 100} \cup {s[i].val : i \in 1..n}
    /\ \A i \in 1..n : s[i].val # 100
    /\ \A i, j \in 1..n : s[i].val = s[j].val /\ s[i].val > 0 => i = j

AsBase(d, n, s) == \A i \in 1..n : s[i].val = d[i][2]

ValsIn(n, s) == [i \in 1..n |-> s[i].val]

Done(k) == phase # "init" \/ k < cur.g
Filled(k) == IF Done(k) THEN Size(Groups[k]) ELSE IF k = cur.g THEN cur.i - 1 ELSE 0

Setup ==
    /\ opt \in Options /\ byHand \in BOOLEAN
    /\ phase \in {"init", "dump", "parse", "run", "abort"}
    /\ mode \in [kind : {"run", "dump_default", "dump_random"}, rr : BOOLEAN, focus : {mode.focus}]
    /\ phase # "init" => (phase = "dump" <=> mode.kind # "run")
    /\ byHand => mode.kind = "run" /\ ~mode.rr
    /\ cur \in [g : 1..6, i : Nat \ {0}, invalid : {cur.invalid}, low : {cur.low}, high : {cur.high}]
    /\ \A k \in 1..6 : k = cur.g => cur.i <= Size(Groups[k]) + 1
    /\ prob = [g \in Group |-> prob[g]]
    /\ \A k \in 1..6 : Elements(Defaults(Groups[k]), Filled(k), prob[Groups[k]])

\* The group being initialized.
Drawing ==
    \A k \in 1..6 : phase = "init" /\ k = cur.g =>
        /\ InRange(Groups[k], Defaults(Groups[k]), cur.i - 1, prob[Groups[k]])
        /\ Groups[k] = "statement" /\ random_random =>
               Apart(cur.i - 1, prob[Groups[k]], cur.invalid)

\* Without --random-random the values are the defaults.
AsDefault ==
    phase \in {"init", "dump"} /\ ~random_random =>
        \A k \in 1..6 : AsBase(Defaults(Groups[k]), Filled(k), prob[Groups[k]])

GoodGroups ==
    \A k \in 1..6 : Done(k) /\ (phase \in {"init", "dump"} \/ ~byHand) =>
        GoodVals(Groups[k], Defaults(Groups[k]), ValsIn(Size(Groups[k]), prob[Groups[k]]))

\* The lines that a dump of the saved values writes.
SingleOf(d, v, i) == SingleLine(d[i][1], v[i])
GroupOf(g, d, v) == GroupLine(is_equal(g), g, [i \in 1..Len(d) |-> <<d[i][1], v[i]>>])
SavedSingle(i) == SingleOf(Defaults("single"), saved["single"], i)
SavedGroup(k) == GroupOf(Groups[k], Defaults(Groups[k]), saved[Groups[k]])
TrueLines ==
    {[kind |-> "comment"]} \cup {SavedSingle(i) : i \in 1..Size("single")}
    \cup {SavedGroup(k) : k \in 2..6}

In(file, line) == \E n \in 1..Len(file) : file[n] = line

\* The values saved are some that a dump can be made of.
SavedFits ==
    /\ saved = [g \in Group |-> [i \in 1..Size(g) |-> saved[g][i]]]
    /\ \A g \in Group : GoodVals(g, Defaults(g), saved[g])

\* What was read is as it was saved, the rest is still in the file.
HasRead(g, n) == phase # "init" /\ ValsIn(n, prob[g]) = saved[g]

Saved ==
    saved # None =>
        /\ mode.kind = "run" /\ ~byHand /\ SavedFits
        /\ conf \in Seq(TrueLines)
        /\ \A i \in 1..Size("single") :
               In(conf, SavedSingle(i)) \/ (phase # "init" /\ prob["single"][i].val = saved["single"][i])
        /\ \A k \in 2..6 : In(conf, SavedGroup(k)) \/ HasRead(Groups[k], Size(Groups[k]))

File ==
    /\ byHand => saved = None /\ conf \in Seq(Lines)
    /\ ~byHand /\ saved = None => conf = None
    /\ phase = "run" => conf = None

\* x is in the group and its value is not 0.
HasValue(g, x) ==
    \E i \in 1..Size(g) : prob[g][i].name = x /\ prob[g][i].val # 0

\* What a choice may have returned.
Allowed(q, x) ==
    /\ q.ask = "statement" => HasValue("statement", x)
    /\ q.ask = "equal" => q.group \in Group /\ HasValue(q.group, x)
    /\ q.ask \in {"expr", "param", "assign"} => SwitchedOn(x)
    /\ q.ask = "assign" /\ ~On("compound_assignment") => x = "SimpleAssign"

Decided ==
    /\ phase \in {"init", "dump", "parse"} => table = None /\ last = None
    /\ table # None => table = set_prob_table(prob["statement"])
    /\ last # None =>
           /\ table # None /\ last = <<last[1], last[2]>> /\ last[1] \in Questions
           /\ ~byHand /\ last[2] # "rolling" => Allowed(last[1], last[2])

PInv == Setup /\ Drawing /\ AsDefault /\ GoodGroups /\ Saved /\ File /\ Decided /\ NoAbort

\* A line written by hand gives each member of a group once, in the right brackets.
WellWritten(line) ==
    line.kind = "group" =>
        /\ line.name \in Group => line.equal = is_equal(line.name)
        /\ \A j, k \in DOMAIN line.elems : line.elems[j][1] = line.elems[k][1] => j = k

\* With such a file some statement keeps the number 100.
ByHand ==
    byHand =>
        /\ \A n \in 1..Len(conf) : WellWritten(conf[n])
        /\ phase # "init" => \E i \in 1..Size("statement") : prob["statement"][i].val = 100

-----------------------------------------------------------------------------
(* What the invariant says of the defaults.                                *)

LEMMA DefaultsAre ==
    ASSUME opt \in Options, NEW g \in Group
    PROVE  /\ Tabled(Defaults(g), Size(g), Hi(g))
           /\ Size(g) \in Nat \ {0}
           /\ g = "statement" => Size(g) = 10
<1>1. CASE g = "single"
    <2>1. Defaults(g) = initialize_single_probs /\ Hi(g) = 100 BY <1>1 DEF Defaults, Hi, is_equal
    <2>2. Tabled(Defaults(g), 30, Hi(g)) BY <2>1, SingleDefaults
    <2>3. Size(g) = 30 BY <2>2 DEF Tabled, Size
    <2> QED BY <1>1, <2>2, <2>3
<1>2. CASE g = "statement"
    <2>1. Defaults(g) = set_default_statement_prob /\ Hi(g) = 100
        BY <1>2 DEF Defaults, Hi, is_equal
    <2>2. Tabled(Defaults(g), 10, Hi(g)) BY <2>1, StatementDefaults
    <2>3. Size(g) = 10 BY <2>2 DEF Tabled, Size
    <2> QED BY <2>2, <2>3
<1>3. CASE g = "unary"
    <2>1. Defaults(g) = set_default_unary_ops_prob /\ Hi(g) = 1
        BY <1>3 DEF Defaults, Hi, is_equal
    <2>2. Tabled(Defaults(g), 4, Hi(g)) BY <2>1, UnaryDefaults
    <2>3. Size(g) = 4 BY <2>2 DEF Tabled, Size
    <2> QED BY <1>3, <2>2, <2>3
<1>4. CASE g = "binary"
    <2>1. Defaults(g) = set_default_binary_ops_prob /\ Hi(g) = 1
        BY <1>4 DEF Defaults, Hi, is_equal
    <2>2. Tabled(Defaults(g), 18, Hi(g)) BY <2>1, BinaryDefaults
    <2>3. Size(g) = 18 BY <2>2 DEF Tabled, Size
    <2> QED BY <1>4, <2>2, <2>3
<1>5. CASE g = "types"
    <2>1. Defaults(g) = set_default_simple_types_prob /\ Hi(g) = 1
        BY <1>5 DEF Defaults, Hi, is_equal
    <2>2. Tabled(Defaults(g), 14, Hi(g)) BY <2>1, TypesDefaults
    <2>3. Size(g) = 14 BY <2>2 DEF Tabled, Size
    <2> QED BY <1>5, <2>2, <2>3
<1>6. CASE g = "size"
    <2>1. Defaults(g) = set_default_safe_ops_size_prob /\ Hi(g) = 1
        BY <1>6 DEF Defaults, Hi, is_equal
    <2>2. Tabled(Defaults(g), 4, Hi(g)) BY <2>1, SizeDefaults
    <2>3. Size(g) = 4 BY <2>2 DEF Tabled, Size
    <2> QED BY <1>6, <2>2, <2>3
<1> QED BY <1>1, <1>2, <1>3, <1>4, <1>5, <1>6 DEF Group

LEMMA NamesDiffer ==
    ASSUME opt \in Options, NEW g \in Group
    PROVE  /\ \A i \in 1..Size(g) : /\ Name(g, i) # "assert" /\ Base(g, i) \in 0..Hi(g)
                                    /\ Name(g, i) = "void_prob" => Base(g, i) = 0
           /\ \A i, j \in 1..Size(g) : Name(g, i) = Name(g, j) => i = j
           /\ Hi(g) \in {1, 100}
BY DefaultsAre DEF Tabled, Name, Base, Hi

\* By default Assign has the number 100, and no two statements have the same.
LEMMA StatementNumbers ==
    LET d == set_default_statement_prob
    IN  d[1][2] = 100 /\ \A i, j \in 1..10 : d[i][2] = d[j][2] /\ d[i][2] > 0 => i = j
<1> DEFINE x1 == If(On("jumps"), 50)
           x2 == If(On("arrays"), IF On("jumps") THEN 60 ELSE 55)
           d == set_default_statement_prob
<1>1. x1 \in {0, 50} /\ x2 \in {0, 55, 60} BY DEF If
<1>2. d[1] = <<"Assign", 100>> /\ d[2] = <<"Block", 0>> /\ d[3] = <<"For", 30>> /\ d[4] = <<"IfElse", 15>>
      /\ d[5] = <<"Return", 35>> /\ d[6] = <<"Continue", 40>> /\ d[7] = <<"Break", 45>>
      /\ d[8] = <<"Goto", x1>> /\ d[9] = <<"ArrayOp", x2>> /\ d[10] = <<"HIPStatement", 5>>
    BY DEF set_default_statement_prob
<1> HIDE DEF x1, x2, d
<1>3. \A i \in 1..10 : i = 1 \/ i = 2 \/ i = 3 \/ i = 4 \/ i = 5 \/ i = 6 \/ i = 7 \/ i = 8 \/ i = 9
          \/ i = 10
    OBVIOUS
<1>4. /\ d[1][2] = 100 /\ d[2][2] = 0 /\ d[3][2] = 30 /\ d[4][2] = 15 /\ d[5][2] = 35
      /\ d[6][2] = 40 /\ d[7][2] = 45 /\ d[8][2] = x1 /\ d[9][2] = x2 /\ d[10][2] = 5
    BY <1>2
<1>5. \A i, j \in 1..10 : d[i][2] = d[j][2] /\ d[i][2] > 0 => i = j BY <1>1, <1>3, <1>4
<1> QED BY <1>4, <1>5 DEF d

LEMMA BasesGood ==
    ASSUME opt \in Options, NEW g \in Group, NEW v, \A i \in 1..Size(g) : v[i] = Base(g, i)
    PROVE  GoodVals(g, Defaults(g), v)
<1>1. \A i \in 1..Size(g) : v[i] \in 0..Hi(g) /\ (Base(g, i) = 0 => v[i] = 0) BY NamesDiffer
<1>2. g = "statement" => /\ \E i \in 1..Size(g) : v[i] = 100
                         /\ \A i, j \in 1..Size(g) : v[i] = v[j] /\ v[i] > 0 => i = j
    <2> SUFFICES ASSUME g = "statement"
                 PROVE  /\ \E i \in 1..Size(g) : v[i] = 100
                        /\ \A i, j \in 1..Size(g) : v[i] = v[j] /\ v[i] > 0 => i = j
        OBVIOUS
    <2>1. Size(g) = 10 BY DefaultsAre
    <2>2. \A i \in 1..10 : v[i] = set_default_statement_prob[i][2] BY <2>1 DEF Base, Defaults
    <2>3. 1 \in 1..10 OBVIOUS
    <2> QED BY <2>1, <2>2, <2>3, StatementNumbers
<1>3. is_equal(g) => \E i \in 1..Size(g) : v[i] = 1
    <2>1. CASE g = "unary"
        <3>1. Size(g) = 4 /\ Base(g, 2) = 1
            BY <2>1 DEF Size, Base, Defaults, set_default_unary_ops_prob
        <3>2. 2 \in 1..Size(g) BY <3>1
        <3> QED BY <3>1, <3>2
    <2>2. CASE g = "binary"
        <3>1. Size(g) = 18 /\ Base(g, 1) = 1
            BY <2>2 DEF Size, Base, Defaults, set_default_binary_ops_prob
        <3>2. 1 \in 1..Size(g) BY <3>1
        <3> QED BY <3>1, <3>2
    <2>3. CASE g = "types"
        <3>1. Size(g) = 14 /\ Base(g, 3) = 1
            BY <2>3 DEF Size, Base, Defaults, set_default_simple_types_prob
        <3>2. 3 \in 1..Size(g) BY <3>1
        <3> QED BY <3>1, <3>2
    <2>4. CASE g = "size"
        <3>1. Size(g) = 4 /\ Base(g, 2) = 1
            BY <2>4 DEF Size, Base, Defaults, set_default_safe_ops_size_prob
        <3>2. 2 \in 1..Size(g) BY <3>1
        <3> QED BY <3>1, <3>2
    <2> QED BY <2>1, <2>2, <2>3, <2>4 DEF is_equal, Group
<1> QED BY <1>1, <1>2, <1>3 DEF GoodVals, Size, Base

-----------------------------------------------------------------------------
(* The steps of the initialization.                                        *)

\* Nothing but the options decides on the defaults.
LEMMA Fixed ==
    ASSUME opt' = opt
    PROVE  /\ \A g \in Group : Defaults(g)' = Defaults(g)
           /\ \A g \in Group : Size(g)' = Size(g)
           /\ \A g \in Group : \A i : Name(g, i)' = Name(g, i) /\ Base(g, i)' = Base(g, i)
<1>1. ASSUME NEW g \in Group PROVE Defaults(g)' = Defaults(g)
    BY DEF Defaults, initialize_single_probs, set_default_statement_prob, set_default_unary_ops_prob,
           set_default_binary_ops_prob, set_default_simple_types_prob, set_default_safe_ops_size_prob, On
<1> QED BY <1>1 DEF Size, Name, Base

LEMMA ElementsOf ==
    ASSUME NEW d, NEW n \in Nat, NEW s, Elements(d, n, s)
    PROVE  /\ DOMAIN s = 1..n /\ Len(s) = n
           /\ \A i \in 1..n : /\ s[i].name = d[i][1] /\ s[i].def = d[i][2]
                              /\ s[i] = [name |-> d[i][1], def |-> d[i][2], val |-> s[i].val]
                              /\ s[i].val \in 0..100
<1>1. s = [i \in 1..n |-> s[i]] BY DEF Elements
<1>2. Len(s) = n BY <1>1, IsSequence
<1>3. ASSUME NEW i \in 1..n
      PROVE  /\ s[i].name = d[i][1] /\ s[i].def = d[i][2]
             /\ s[i] = [name |-> d[i][1], def |-> d[i][2], val |-> s[i].val]
             /\ s[i].val \in 0..100
    <2>1. /\ s[i] = [name |-> d[i][1], def |-> d[i][2], val |-> s[i].val]
          /\ s[i].val \in 0..100
        BY DEF Elements
    <2>2. s[i].name = d[i][1] /\ s[i].def = d[i][2] BY <2>1
    <2> QED BY <2>1, <2>2
<1> QED BY <1>1, <1>2, <1>3

Lengthened(r, s, n, v) == r[n + 1].val = v /\ \A i \in 1..n : r[i] = s[i]

LEMMA OneMore ==
    ASSUME NEW d, NEW n \in Nat, NEW s, Elements(d, n, s), NEW v \in 0..100, NEW e,
           e = [name |-> d[n + 1][1], def |-> d[n + 1][2], val |-> v]
    PROVE  Elements(d, n + 1, Append(s, e)) /\ Lengthened(Append(s, e), s, n, v)
<1> DEFINE X == {s[i] : i \in 1..n} \cup {e}
           r == Append(s, e)
<1>1. s = [i \in 1..n |-> s[i]] BY DEF Elements
<1>2. s \in Seq({s[i] : i \in 1..n}) /\ Len(s) = n BY <1>1, IsSequence
<1>3. s \in Seq(X) /\ e \in X BY <1>2
<1>4. /\ r \in Seq(X) /\ Len(r) = n + 1 /\ r[n + 1] = e
      /\ \A i \in 1..n : r[i] = s[i]
    <2> HIDE DEF X
    <2> QED BY <1>2, <1>3, AppendProperties
<1> HIDE DEF X, r
<1>5. r = [i \in 1..n + 1 |-> r[i]] BY <1>4, LenProperties
<1>6. \A i \in 1..n + 1 : /\ r[i] = [name |-> d[i][1], def |-> d[i][2], val |-> r[i].val]
                          /\ r[i].val \in 0..100
    <2> TAKE i \in 1..n + 1
    <2>1. CASE i = n + 1
        <3>1. r[i] = e /\ e.val = v BY <1>4, <2>1
        <3> QED BY <2>1, <3>1
    <2>2. CASE i # n + 1
        <3>1. i \in 1..n /\ r[i] = s[i] BY <1>4, <2>2
        <3>2. /\ s[i] = [name |-> d[i][1], def |-> d[i][2], val |-> s[i].val]
              /\ s[i].val \in 0..100
            BY <3>1, ElementsOf
        <3> QED BY <3>1, <3>2
    <2> QED BY <2>1, <2>2
<1>7. Elements(d, n + 1, r) BY <1>5, <1>6 DEF Elements
<1>8. Lengthened(r, s, n, v) BY <1>4 DEF Lengthened
<1> QED BY <1>7, <1>8 DEF r

\* At most nine numbers are ruled out besides 0 and 100: some are left.
Ruled(n, v) == {0, 100} \cup {v[i] : i \in 1..n}

LEMMA NumbersLeft ==
    ASSUME NEW n \in 0..9, NEW v
    PROVE  0..100 \ Ruled(n, v) # {}
<1>1. 0..100 \ ({0, 100} \cup {v[i] : i \in 1..n}) # {} BY SMTT(60)
<1> QED BY <1>1 DEF Ruled

LEMMA DrawnWell ==
    ASSUME Setup, Drawing, phase = "init", NEW g, g = Groups[cur.g], cur.i <= Size(g),
           NEW d, d = Base(g, cur.i), NEW S,
           S = IF random_random THEN get_random_single_prob(g, d, cur.invalid) ELSE {d},
           NEW v \in Sample(g, S)
    PROVE  /\ v \in 0..Hi(g) /\ (d = 0 => v = 0)
           /\ ~random_random => v = d
           /\ g = "statement" /\ random_random => v = 0 \/ v \notin cur.invalid
<1>1. g \in Group /\ opt \in Options /\ cur.i \in Nat \ {0} BY GroupsAre DEF Setup
<1>2. d \in 0..Hi(g) /\ Hi(g) \in {1, 100} /\ Size(g) \in Nat
    <2>1. cur.i \in 1..Size(g) BY <1>1, DefaultsAre
    <2> QED BY <1>1, <2>1, NamesDiffer, DefaultsAre
<1>3. S \in SUBSET (0..Hi(g)) /\ S # {}
    <2>1. CASE ~random_random \/ d = 0 BY <1>2, <2>1 DEF get_random_single_prob
    <2>2. CASE random_random /\ d # 0 /\ is_equal(g)
        BY <1>2, <2>2 DEF get_random_single_prob, Hi
    <2>3. CASE random_random /\ d # 0 /\ g = "single"
        BY <1>2, <2>3 DEF get_random_single_prob, Hi, is_equal
    <2>4. CASE random_random /\ d # 0 /\ g = "statement"
        <3>1. S = 0..100 \ cur.invalid /\ Hi(g) = 100
            BY <2>4 DEF get_random_single_prob, is_equal, Hi
        <3>2. cur.i - 1 \in 0..9 BY <1>1, <2>4, DefaultsAre
        <3> DEFINE w == [i \in 1..cur.i - 1 |-> prob[g][i].val]
        <3>3. cur.invalid = Ruled(cur.i - 1, w)
            <4>1. cur.invalid = {0, 100} \cup {prob[g][i].val : i \in 1..cur.i - 1}
                <5>1. cur.g \in 1..6 BY DEF Setup
                <5>2. Apart(cur.i - 1, prob[g], cur.invalid) BY <2>4, <5>1 DEF Drawing
                <5> QED BY <5>2 DEF Apart
            <4> QED BY <4>1 DEF Ruled
        <3> HIDE DEF w
        <3>4. 0..100 \ cur.invalid # {} BY <3>2, <3>3, NumbersLeft
        <3> QED BY <3>1, <3>4
    <2> QED BY <2>1, <2>2, <2>3, <2>4 DEF is_equal
<1>4. v \in S
    <2>1. Hi(g) \in Nat BY <1>2
    <2>2. Min(S) \in S /\ Max(S) \in S BY <1>3, <2>1, ExtremaOf
    <2> QED BY <2>2 DEF Sample
<1>5. v \in 0..Hi(g) BY <1>3, <1>4
<1>6. d = 0 => v = 0 BY <1>4 DEF get_random_single_prob
<1>7. ~random_random => v = d BY <1>4
<1>8. g = "statement" /\ random_random => v = 0 \/ v \notin cur.invalid
    BY <1>4 DEF get_random_single_prob, is_equal
<1> QED BY <1>5, <1>6, <1>7, <1>8

LEMMA RangeMore ==
    ASSUME NEW g, NEW d, NEW n \in Nat, NEW s, NEW r, NEW v, Lengthened(r, s, n, v),
           InRange(g, d, n, s), v \in 0..Hi(g), d[n + 1][2] = 0 => v = 0
    PROVE  InRange(g, d, n + 1, r)
<1> SUFFICES ASSUME NEW i \in 1..n + 1
             PROVE  r[i].val \in 0..Hi(g) /\ (d[i][2] = 0 => r[i].val = 0)
    BY DEF InRange
<1>1. CASE i = n + 1 BY <1>1 DEF Lengthened
<1>2. CASE i # n + 1
    <2>1. i \in 1..n /\ r[i] = s[i] BY <1>2 DEF Lengthened
    <2> QED BY <2>1 DEF InRange
<1> QED BY <1>1, <1>2

LEMMA BaseMore ==
    ASSUME NEW d, NEW n \in Nat, NEW s, NEW r, NEW v, Lengthened(r, s, n, v),
           AsBase(d, n, s), v = d[n + 1][2]
    PROVE  AsBase(d, n + 1, r)
<1> SUFFICES ASSUME NEW i \in 1..n + 1 PROVE r[i].val = d[i][2] BY DEF AsBase
<1>1. CASE i = n + 1 BY <1>1 DEF Lengthened
<1>2. CASE i # n + 1
    <2>1. i \in 1..n /\ r[i] = s[i] BY <1>2 DEF Lengthened
    <2> QED BY <2>1 DEF AsBase
<1> QED BY <1>1, <1>2

LEMMA ApartMore ==
    ASSUME NEW n \in Nat, NEW s, NEW r, NEW v \in Nat, NEW inv, Lengthened(r, s, n, v),
           Apart(n, s, inv), v = 0 \/ v \notin inv
    PROVE  Apart(n + 1, r, inv \cup {v})
<1>1. r[n + 1].val = v /\ \A i \in 1..n : r[i].val = s[i].val BY DEF Lengthened
<1>2. \A i \in 1..n + 1 : i = n + 1 \/ i \in 1..n OBVIOUS
<1>3. n + 1 \in 1..n + 1 /\ \A i \in 1..n : i \in 1..n + 1 OBVIOUS
<1>4. inv = {0, 100} \cup {s[i].val : i \in 1..n} /\ v # 100 BY DEF Apart
<1>5. inv \cup {v} = {0, 100} \cup {r[i].val : i \in 1..n + 1}
    <2>1. {r[i].val : i \in 1..n + 1} = {s[i].val : i \in 1..n} \cup {v} BY <1>1, <1>2, <1>3
    <2> QED BY <1>4, <2>1
<1>6. \A i \in 1..n + 1 : r[i].val # 100 BY <1>1, <1>2, <1>4 DEF Apart
<1>7. ASSUME NEW i \in 1..n + 1, NEW j \in 1..n + 1, r[i].val = r[j].val, r[i].val > 0
      PROVE  i = j
    <2>1. CASE i \in 1..n /\ j \in 1..n BY <1>1, <1>7, <2>1 DEF Apart
    <2>2. CASE i = n + 1 /\ j \in 1..n
        <3>1. v = s[j].val /\ v > 0 /\ v \in inv BY <1>1, <1>4, <1>7, <2>2
        <3> QED BY <3>1
    <2>3. CASE i \in 1..n /\ j = n + 1
        <3>1. v = s[i].val /\ v > 0 /\ v \in inv BY <1>1, <1>4, <1>7, <2>3
        <3> QED BY <3>1
    <2> QED BY <1>2, <2>1, <2>2, <2>3
<1> QED BY <1>5, <1>6, <1>7 DEF Apart

\* What is in the file and what was saved from it is about the defaults only.
LEMMA SavedFixed ==
    ASSUME opt' = opt, saved' = saved
    PROVE  /\ \A i : SavedSingle(i)' = SavedSingle(i)
           /\ \A k \in 1..6 : SavedGroup(k)' = SavedGroup(k)
           /\ TrueLines' = TrueLines
           /\ SavedFits' = SavedFits
           /\ Size("single")' = Size("single")
           /\ \A k \in 1..6 : Size(Groups[k])' = Size(Groups[k])
<1>1. "single" \in Group /\ \A k \in 1..6 : Groups[k] \in Group BY GroupsAre DEF Group
<1>2. /\ Defaults("single")' = Defaults("single") /\ Size("single")' = Size("single")
      /\ \A k \in 1..6 : Defaults(Groups[k])' = Defaults(Groups[k]) /\ Size(Groups[k])' = Size(Groups[k])
    BY <1>1, Fixed
<1>3. \A i : SavedSingle(i)' = SavedSingle(i) BY <1>2 DEF SavedSingle
<1>4. \A k \in 1..6 : SavedGroup(k)' = SavedGroup(k) BY <1>2 DEF SavedGroup
<1>5. TrueLines' = TrueLines
    <2>1. {SavedSingle(i)' : i \in 1..Size("single")'} = {SavedSingle(i) : i \in 1..Size("single")}
        BY <1>2, <1>3
    <2>2. {SavedGroup(k)' : k \in 2..6} = {SavedGroup(k) : k \in 2..6} BY <1>4
    <2> QED BY <2>1, <2>2 DEF TrueLines
<1>6. SavedFits' = SavedFits
    <2>1. \A g \in Group : Defaults(g)' = Defaults(g) /\ Size(g)' = Size(g) BY Fixed
    <2> QED BY <2>1 DEF SavedFits
<1> QED BY <1>2, <1>3, <1>4, <1>5, <1>6

\* What is saved stays so while the next run initializes its own probabilities.
LEMMA SavedWaits ==
    ASSUME Saved, phase = "init", UNCHANGED <<opt, mode, conf, byHand, saved>>
    PROVE  Saved'
<1>1. /\ \A i : SavedSingle(i)' = SavedSingle(i)
      /\ \A k \in 2..6 : SavedGroup(k)' = SavedGroup(k)
      /\ TrueLines' = TrueLines /\ SavedFits' = SavedFits /\ Size("single")' = Size("single")
    BY SavedFixed
<1> SUFFICES ASSUME saved' # None
             PROVE  /\ mode'.kind = "run" /\ ~byHand' /\ SavedFits'
                    /\ conf' \in Seq(TrueLines')
                    /\ \A i \in 1..Size("single")' :
                           In(conf', SavedSingle(i)')
                           \/ (phase' # "init" /\ prob'["single"][i].val = saved'["single"][i])
                    /\ \A k \in 2..6 :
                           In(conf', SavedGroup(k)') \/ HasRead(Groups[k], Size(Groups[k]))'
    BY DEF Saved
<1>2. \A i \in 1..Size("single") : In(conf, SavedSingle(i)) BY DEF Saved
<1>3. \A k \in 2..6 : In(conf, SavedGroup(k)) BY DEF Saved, HasRead
<1> QED BY <1>1, <1>2, <1>3 DEF Saved

\* One element is added to the group being initialized.
LEMMA InitElemStep ==
    ASSUME PInv, InitElem
    PROVE  PInv'
<1>1. PICK k \in 1..6, n \in Nat :
          /\ cur.g = k /\ cur.i = n + 1 /\ phase = "init" /\ opt \in Options
    <2>1. cur.i \in Nat \ {0} /\ cur.g \in 1..6 /\ phase = "init" /\ opt \in Options
        BY DEF InitElem, PInv, Setup
    <2>2. cur.i - 1 \in Nat /\ cur.i = (cur.i - 1) + 1 BY <2>1
    <2> QED BY <2>1, <2>2
<1>2. PICK g \in Group : g = Groups[k] BY GroupsAre
<1>3. PICK d : d = Defaults(g) OBVIOUS
<1>4. n + 1 <= Size(g) /\ Size(g) \in Nat \ {0} /\ Len(d) = Size(g)
    BY <1>1, <1>2, <1>3, DefaultsAre DEF InitElem, Size
<1>5. PICK b : b = d[n + 1][2] /\ b = Base(g, cur.i) BY <1>1, <1>3 DEF Base
<1>6. PICK S : S = IF random_random THEN get_random_single_prob(g, b, cur.invalid) ELSE {b}
    OBVIOUS
<1>7. UNCHANGED <<opt, mode, phase, conf, byHand, saved, table, last>> BY DEF InitElem
<1>8. PICK v \in Sample(g, S) :
          /\ prob' = [prob EXCEPT ![g] = Append(@, [name |-> d[n + 1][1], def |-> b, val |-> v])]
          /\ cur' = [g |-> k, i |-> n + 2, invalid |-> cur.invalid \cup {v},
                     low |-> cur'.low, high |-> cur'.high]
    <2>1. \E v \in Sample(g, S) :
              /\ prob' = [prob EXCEPT ![g] = Append(@, [name |-> d[n + 1][1], def |-> b, val |-> v])]
              /\ \E low, high : cur' = [cur EXCEPT !.i = @ + 1, !.invalid = @ \cup {v},
                                                   !.low = low, !.high = high]
        <3>1. Groups[cur.g] = g /\ Defaults(Groups[cur.g]) = d /\ d[cur.i][2] = b /\ cur.i = n + 1
            BY <1>1, <1>2, <1>3, <1>5
        <3>2. \E w \in Sample(g, S) :
                  /\ prob' = [prob EXCEPT ![g] = Append(@, [name |-> d[cur.i][1], def |-> d[cur.i][2], val |-> w])]
                  /\ cur' = [cur EXCEPT !.i = @ + 1, !.invalid = @ \cup {w},
                                        !.low = cur.low + If(Cardinality(S) > 1 /\ w = Min(S), 1),
                                        !.high = cur.high + If(Cardinality(S) > 1 /\ w = Max(S), 1)]
            <4>1. S = IF random_random THEN get_random_single_prob(g, d[cur.i][2], cur.invalid) ELSE {d[cur.i][2]}
                BY <1>6, <3>1
            <4> QED BY <3>1, <4>1, Zenon DEF InitElem
        <3>3. d[n + 1][1] = d[cur.i][1] BY <1>1
        <3>4. \E w \in Sample(g, S) :
                  /\ prob' = [prob EXCEPT ![g] = Append(@, [name |-> d[cur.i][1], def |-> d[cur.i][2], val |-> w])]
                  /\ \E low, high : cur' = [cur EXCEPT !.i = @ + 1, !.invalid = @ \cup {w},
                                                       !.low = low, !.high = high]
            <4> DEFINE low(w) == cur.low + If(Cardinality(S) > 1 /\ w = Min(S), 1)
                       high(w) == cur.high + If(Cardinality(S) > 1 /\ w = Max(S), 1)
            <4>1. PICK w \in Sample(g, S) :
                      /\ prob' = [prob EXCEPT ![g] = Append(@, [name |-> d[cur.i][1], def |-> d[cur.i][2], val |-> w])]
                      /\ cur' = [cur EXCEPT !.i = @ + 1, !.invalid = @ \cup {w}, !.low = low(w), !.high = high(w)]
                BY <3>2, Zenon
            <4> HIDE DEF low, high
            <4> QED BY <4>1
        <3> QED BY <3>1, <3>3, <3>4
    <2>2. cur \in [g : 1..6, i : Nat \ {0}, invalid : {cur.invalid}, low : {cur.low}, high : {cur.high}]
        BY DEF PInv, Setup
    <2>3. ASSUME NEW v, NEW low, NEW high,
                 cur' = [cur EXCEPT !.i = @ + 1, !.invalid = @ \cup {v}, !.low = low, !.high = high]
          PROVE  cur' = [g |-> k, i |-> n + 2, invalid |-> cur.invalid \cup {v},
                         low |-> cur'.low, high |-> cur'.high]
        <3>1. cur.i + 1 = n + 2 BY <1>1
        <3> QED BY <1>1, <2>2, <2>3, <3>1
    <2> QED BY <2>1, <2>3
<1>9. cur'.g = k /\ cur'.i = n + 2 /\ cur'.invalid = cur.invalid \cup {v} BY <1>8
<1>10. /\ v \in 0..Hi(g) /\ (b = 0 => v = 0)
       /\ ~random_random => v = b
       /\ g = "statement" /\ random_random => v = 0 \/ v \notin cur.invalid
    <2>1. Setup /\ Drawing /\ cur.i <= Size(g) /\ g = Groups[cur.g] BY <1>1, <1>2, <1>4 DEF PInv
    <2> QED BY <1>1, <1>5, <1>6, <2>1, DrawnWell
<1>11. v \in 0..100 BY <1>10 DEF Hi
<1>12. PICK s, r : s = prob[g] /\ r = Append(s, [name |-> d[n + 1][1], def |-> b, val |-> v])
    OBVIOUS
<1>13. Elements(d, n, s)
    <2>1. Filled(k) = n BY <1>1 DEF Filled, Done
    <2> QED BY <1>1, <1>2, <1>3, <1>12, <2>1 DEF PInv, Setup
<1>14. Elements(d, n + 1, r) /\ Lengthened(r, s, n, v)
    BY <1>5, <1>11, <1>12, <1>13, OneMore
<1>15. /\ prob'[g] = r /\ \A h \in Group : h # g => prob'[h] = prob[h]
       /\ prob' = [h \in Group |-> prob'[h]]
    BY <1>8, <1>12 DEF PInv, Setup
<1>16. /\ \A j \in 1..6 : /\ Groups[j] \in Group /\ (j # k => Groups[j] # g)
                          /\ Defaults(Groups[j])' = Defaults(Groups[j])
                          /\ Size(Groups[j])' = Size(Groups[j])
       /\ Defaults(g)' = d /\ Size(g)' = Size(g)
    BY <1>1, <1>2, <1>3, <1>7, GroupsAre, Fixed
<1>17. /\ \A j \in 1..6 : /\ Done(j)' = Done(j)
                          /\ j # k => Filled(j)' = Filled(j)
       /\ Filled(k)' = n + 1 /\ ~Done(k)
    BY <1>1, <1>7, <1>9, <1>16 DEF Filled, Done
<1>18. Setup'
    <2>1. ASSUME NEW j \in 1..6
          PROVE  Elements(Defaults(Groups[j])', Filled(j)', prob'[Groups[j]])
        <3>1. CASE j = k BY <1>2, <1>14, <1>15, <1>16, <1>17, <3>1
        <3>2. CASE j # k
            <4>1. Elements(Defaults(Groups[j]), Filled(j), prob[Groups[j]]) BY DEF PInv, Setup
            <4> QED BY <1>15, <1>16, <1>17, <3>2, <4>1
        <3> QED BY <3>1, <3>2
    <2>2. cur' \in [g : 1..6, i : Nat \ {0}, invalid : {cur'.invalid}, low : {cur'.low}, high : {cur'.high}]
        BY <1>1, <1>8
    <2>3. \A j \in 1..6 : j = cur'.g => cur'.i <= Size(Groups[j])' + 1
        <3>1. Size(Groups[k])' = Size(g) BY <1>2, <1>16
        <3> QED BY <1>4, <1>9, <3>1
    <2>4. /\ opt' \in Options /\ byHand' \in BOOLEAN
          /\ phase' \in {"init", "dump", "parse", "run", "abort"}
          /\ mode' \in [kind : {"run", "dump_default", "dump_random"}, rr : BOOLEAN, focus : {mode'.focus}]
          /\ phase' # "init" => (phase' = "dump" <=> mode'.kind # "run")
          /\ byHand' => mode'.kind = "run" /\ ~mode'.rr
        BY <1>7 DEF PInv, Setup
    <2> QED BY <1>15, <2>1, <2>2, <2>3, <2>4 DEF Setup
<1>19. Drawing'
    <2>1. InRange(g, d, n, s) /\ (g = "statement" /\ random_random => Apart(n, s, cur.invalid))
        BY <1>1, <1>2, <1>3, <1>12 DEF PInv, Drawing
    <2>2. InRange(g, d, n + 1, r) BY <1>5, <1>10, <1>14, <2>1, RangeMore
    <2>3. g = "statement" /\ random_random => Apart(n + 1, r, cur.invalid \cup {v})
        BY <1>10, <1>11, <1>14, <2>1, ApartMore
    <2>4. random_random' = random_random BY <1>7 DEF random_random
    <2> SUFFICES ASSUME NEW j \in 1..6, j = cur'.g
                 PROVE  /\ InRange(Groups[j], Defaults(Groups[j])', cur'.i - 1, prob'[Groups[j]])
                        /\ Groups[j] = "statement" /\ random_random' =>
                               Apart(cur'.i - 1, prob'[Groups[j]], cur'.invalid)
        BY DEF Drawing
    <2>5. cur'.i - 1 = n + 1 /\ Groups[j] = g /\ Defaults(Groups[j])' = d
        BY <1>2, <1>9, <1>16
    <2> QED BY <1>9, <1>15, <2>2, <2>3, <2>4, <2>5
<1>20. AsDefault'
    <2> SUFFICES ASSUME phase' \in {"init", "dump"} /\ ~random_random', NEW j \in 1..6
                 PROVE  AsBase(Defaults(Groups[j])', Filled(j)', prob'[Groups[j]])
        BY DEF AsDefault
    <2>1. ~random_random BY <1>7 DEF random_random
    <2>2. AsBase(Defaults(Groups[j]), Filled(j), prob[Groups[j]])
        BY <1>1, <2>1 DEF PInv, AsDefault
    <2>3. CASE j = k
        <3>1. AsBase(d, n, s) BY <1>1, <1>2, <1>3, <1>12, <2>2, <2>3 DEF Filled, Done
        <3>2. AsBase(d, n + 1, r) BY <1>5, <1>10, <1>14, <2>1, <3>1, BaseMore
        <3> QED BY <1>2, <1>15, <1>16, <1>17, <2>3, <3>2
    <2>4. CASE j # k BY <1>15, <1>16, <1>17, <2>2, <2>4
    <2> QED BY <2>3, <2>4
<1>21. GoodGroups'
    <2> SUFFICES ASSUME NEW j \in 1..6, Done(j)'
                 PROVE  GoodVals(Groups[j], Defaults(Groups[j])', ValsIn(Size(Groups[j])', prob'[Groups[j]]))
        BY DEF GoodGroups
    <2>1. Done(j) /\ j # k BY <1>17
    <2>2. GoodVals(Groups[j], Defaults(Groups[j]), ValsIn(Size(Groups[j]), prob[Groups[j]]))
        BY <1>1, <2>1 DEF PInv, GoodGroups
    <2> QED BY <1>15, <1>16, <2>1, <2>2
<1>22. Saved' BY <1>1, <1>7, SavedWaits DEF PInv
<1>23. File' /\ NoAbort' BY <1>1, <1>7 DEF PInv, File, NoAbort
<1>24. Decided' BY <1>1, <1>7 DEF PInv, Decided
<1> QED BY <1>18, <1>19, <1>20, <1>21, <1>22, <1>23, <1>24 DEF PInv

\* A list is a copy of itself.
LEMMA WholeList ==
    ASSUME NEW d, NEW n \in Nat, NEW s, Elements(d, n, s)
    PROVE  SubSeq(s, 1, Len(s)) = s
<1>1. s = [i \in 1..n |-> s[i]] BY DEF Elements
<1>2. s \in Seq({s[i] : i \in 1..n}) BY <1>1, IsSequence
<1> QED BY <1>2

\* What the end of a group makes of random values: something is on, and one statement
\* has the number 100.
LEMMA FinishedWell ==
    ASSUME opt \in Options, NEW g \in Group, g # "single", NEW s, NEW invalid,
           Elements(Defaults(g), Size(g), s), InRange(g, Defaults(g), Size(g), s),
           g = "statement" => Apart(Size(g), s, invalid),
           NEW list \in Finished(s, is_equal(g))
    PROVE  /\ Elements(Defaults(g), Size(g), SubSeq(list, 1, Len(list)))
           /\ GoodVals(g, Defaults(g), ValsIn(Size(g), SubSeq(list, 1, Len(list))))
<1>0. PICK d : d = Defaults(g) OBVIOUS
<1>1. PICK n \in Nat : d = Defaults(g) /\ n = Size(g) /\ n = Len(d) BY <1>0, DefaultsAre DEF Size
<1>2. /\ DOMAIN s = 1..n /\ Len(s) = n
      /\ \A i \in 1..n : /\ s[i].name = d[i][1] /\ s[i].def = d[i][2]
                         /\ s[i] = [name |-> d[i][1], def |-> d[i][2], val |-> s[i].val]
                         /\ s[i].val \in 0..100
      /\ s = [i \in 1..n |-> s[i]]
    BY <1>1, ElementsOf DEF Elements
<1>3. \A i \in 1..n : s[i].val \in 0..Hi(g) /\ (d[i][2] = 0 => s[i].val = 0)
    BY <1>1 DEF InRange
<1> SUFFICES Elements(d, n, list) /\ GoodVals(g, d, ValsIn(n, list))
    BY <1>1, WholeList
<1>4. CASE ~is_equal(g)
    <2>1. g = "statement" /\ Hi(g) = 100 BY <1>4 DEF is_equal, Hi
    <2>2. PICK k \in 1..n : list = [s EXCEPT ![k].val = 100] /\ s[k].val # 0
        BY <1>2, <1>4 DEF Finished
    <2>3. \A i \in 1..n : list[i] = [name |-> d[i][1], def |-> d[i][2],
                                     val |-> IF i = k THEN 100 ELSE s[i].val]
        BY <1>2, <2>2
    <2>4. list = [i \in 1..n |-> list[i]] BY <1>2, <2>2
    <2>5. ASSUME NEW i \in 1..n PROVE list[i].val = IF i = k THEN 100 ELSE s[i].val
        <3>1. list[i] = [name |-> d[i][1], def |-> d[i][2], val |-> IF i = k THEN 100 ELSE s[i].val]
            BY <2>3
        <3> QED BY <3>1
    <2> HIDE <2>2
    <2>6. Elements(d, n, list)
        <3>1. ASSUME NEW i \in 1..n
              PROVE  /\ list[i] = [name |-> d[i][1], def |-> d[i][2], val |-> list[i].val]
                     /\ list[i].val \in 0..100
            <4>1. list[i] = [name |-> d[i][1], def |-> d[i][2], val |-> list[i].val] BY <2>3, <2>5
            <4>2. s[i].val \in 0..100 BY <1>2
            <4>3. list[i].val \in 0..100 BY <2>5, <4>2
            <4> QED BY <4>1, <4>3
        <3> QED BY <2>4, <3>1 DEF Elements
    <2>7. \A i \in 1..n : list[i].val \in 0..Hi(g) /\ (d[i][2] = 0 => list[i].val = 0)
        BY <1>3, <2>1, <2>2, <2>5
    <2>8. list[k].val = 100 BY <2>5
    <2>9. \A i, j \in 1..n : list[i].val = list[j].val /\ list[i].val > 0 => i = j
        <3>1. \A i \in 1..n : s[i].val # 100 BY <1>1, <2>1 DEF Apart
        <3>2. \A i, j \in 1..n : s[i].val = s[j].val /\ s[i].val > 0 => i = j
            BY <1>1, <2>1 DEF Apart
        <3> QED BY <2>5, <3>1, <3>2
    <2> DEFINE v == ValsIn(n, list)
    <2>10. \A i \in 1..n : v[i] = list[i].val BY DEF ValsIn
    <2> HIDE DEF v
    <2>11. GoodVals(g, d, v) BY <1>1, <1>4, <2>7, <2>8, <2>9, <2>10 DEF GoodVals
    <2> QED BY <2>6, <2>11 DEF v
<1>5. CASE is_equal(g) /\ \E i \in 1..n : s[i].val # 0
    <2>1. list = s BY <1>2, <1>5 DEF Finished
    <2>2. g # "statement" /\ Hi(g) = 1 BY <1>5 DEF is_equal, Hi
    <2> DEFINE v == ValsIn(n, s)
    <2>3. \A i \in 1..n : v[i] = s[i].val BY DEF ValsIn
    <2> HIDE DEF v
    <2>4. \E i \in 1..n : v[i] = 1 BY <1>3, <1>5, <2>2, <2>3
    <2>5. GoodVals(g, d, v) BY <1>1, <1>3, <2>2, <2>3, <2>4 DEF GoodVals
    <2> QED BY <1>1, <2>1, <2>5 DEF v
<1>6. CASE is_equal(g) /\ \A i \in 1..n : s[i].val = 0
    <2>1. list = [i \in 1..n |-> [s[i] EXCEPT !.val = s[i].def]] BY <1>2, <1>6 DEF Finished
    <2>2. \A i \in 1..n : [s[i] EXCEPT !.val = s[i].def] = [name |-> d[i][1], def |-> d[i][2], val |-> d[i][2]]
        BY <1>2
    <2>3. \A i \in 1..n : list[i] = [name |-> d[i][1], def |-> d[i][2], val |-> d[i][2]]
        BY <2>1, <2>2
    <2>4. list = [i \in 1..n |-> list[i]] BY <2>1
    <2>5. ASSUME NEW i \in 1..n PROVE list[i].val = d[i][2]
        <3>1. list[i] = [name |-> d[i][1], def |-> d[i][2], val |-> d[i][2]] BY <2>3
        <3> QED BY <3>1
    <2>6. \A i \in 1..n : d[i][2] \in 0..100
        <3>1. \A i \in 1..n : d[i][2] \in 0..Hi(g) BY <1>1, NamesDiffer DEF Base
        <3>2. Hi(g) = 1 BY <1>6 DEF Hi
        <3> QED BY <3>1, <3>2
    <2>7. Elements(d, n, list)
        <3>1. \A i \in 1..n : list[i] = [name |-> d[i][1], def |-> d[i][2], val |-> list[i].val]
            BY <2>3, <2>5
        <3> QED BY <2>4, <2>5, <2>6, <3>1 DEF Elements
    <2>8. GoodVals(g, d, ValsIn(n, list))
        <3>1. \A i \in 1..n : ValsIn(n, list)[i] = Base(g, i) BY <1>1, <2>5 DEF ValsIn, Base
        <3> QED BY <1>1, <3>1, BasesGood
    <2> QED BY <2>7, <2>8
<1> QED BY <1>4, <1>5, <1>6

\* A group is finished; the next one, or what follows the initialization, begins.
LEMMA EndGroupStep ==
    ASSUME PInv, EndGroup
    PROVE  PInv'
<1>1. PICK k \in 1..6 : cur.g = k /\ phase = "init" /\ opt \in Options
    BY DEF EndGroup, PInv, Setup
<1>2. PICK g \in Group : g = Groups[k] BY GroupsAre
<1>3. PICK d : d = Defaults(g) OBVIOUS
<1>4. PICK n \in Nat : n = Size(g) /\ n = Len(d) BY <1>1, <1>2, <1>3, DefaultsAre DEF Size
<1>5. cur.i = n + 1
    <2>1. cur.i > n /\ cur.i \in Nat BY <1>1, <1>2, <1>3, <1>4 DEF EndGroup, PInv, Setup
    <2>2. cur.i <= n + 1 BY <1>1, <1>2, <1>4 DEF PInv, Setup
    <2> QED BY <2>1, <2>2
<1>6. PICK s : s = prob[g] OBVIOUS
<1>7. Elements(d, n, s)
    <2>1. Filled(k) = n BY <1>1, <1>5 DEF Filled, Done
    <2> QED BY <1>2, <1>3, <1>6, <2>1 DEF PInv, Setup
<1>8. InRange(g, d, n, s) /\ (g = "statement" /\ random_random => Apart(n, s, cur.invalid))
    <2>1. cur.i - 1 = n BY <1>5
    <2> QED BY <1>1, <1>2, <1>3, <1>6, <2>1 DEF PInv, Drawing
<1>9. ~random_random => AsBase(d, n, s)
    <2>1. Filled(k) = n BY <1>1, <1>5 DEF Filled, Done
    <2> QED BY <1>1, <1>2, <1>3, <1>6, <2>1 DEF PInv, AsDefault
<1>10. PICK list \in IF random_random /\ g # "single" THEN Finished(s, is_equal(g)) ELSE {s} :
           prob' = [prob EXCEPT ![g] = SubSeq(list, 1, Len(list))]
    <2>1. Groups[cur.g] = g BY <1>1, <1>2
    <2> QED BY <1>6, <2>1, Zenon DEF EndGroup
<1>11. PICK r : r = SubSeq(list, 1, Len(list)) OBVIOUS
<1>12. /\ prob'[g] = r /\ \A h \in Group : h # g => prob'[h] = prob[h]
       /\ prob' = [h \in Group |-> prob'[h]]
    BY <1>10, <1>11 DEF PInv, Setup
<1>13. /\ Elements(d, n, r) /\ GoodVals(g, d, ValsIn(n, r))
       /\ ~random_random => AsBase(d, n, r)
    <2>1. CASE random_random /\ g # "single"
        <3>1. list \in Finished(s, is_equal(g)) BY <1>10, <2>1
        <3> QED BY <1>1, <1>3, <1>4, <1>7, <1>8, <1>11, <2>1, <3>1, FinishedWell
    <2>2. CASE ~(random_random /\ g # "single")
        <3>1. list = s BY <1>10, <2>2
        <3>2. r = s BY <1>7, <1>11, <3>1, WholeList
        <3> DEFINE v == ValsIn(n, s)
        <3>3. \A i \in 1..n : v[i] = s[i].val BY DEF ValsIn
        <3> HIDE DEF v
        <3>4. GoodVals(g, d, v)
            <4>1. CASE g = "single"
                <5>1. \A i \in 1..n : v[i] \in 0..Hi(g) /\ (d[i][2] = 0 => v[i] = 0)
                    BY <1>8, <3>3 DEF InRange
                <5> QED BY <1>4, <4>1, <5>1 DEF GoodVals, is_equal
            <4>2. CASE ~random_random
                <5>1. \A i \in 1..n : v[i] = d[i][2] BY <1>9, <3>3, <4>2 DEF AsBase
                <5>2. \A i \in 1..Size(g) : v[i] = Base(g, i) BY <1>3, <1>4, <5>1 DEF Base
                <5> QED BY <1>1, <1>3, <5>2, BasesGood
            <4> QED BY <2>2, <4>1, <4>2
        <3> QED BY <1>7, <1>9, <3>2, <3>4 DEF v
    <2> QED BY <2>1, <2>2
<1>14. UNCHANGED <<opt, mode, conf, byHand, saved, table, last>> BY DEF EndGroup
<1>15. /\ \A j \in 1..6 : /\ Groups[j] \in Group /\ (j # k => Groups[j] # g)
                          /\ Defaults(Groups[j])' = Defaults(Groups[j])
                          /\ Size(Groups[j])' = Size(Groups[j])
       /\ Defaults(g)' = d /\ Size(g)' = n
    BY <1>1, <1>2, <1>3, <1>4, <1>14, GroupsAre, Fixed
<1>16. random_random' = random_random BY <1>14 DEF random_random
<1>17. \/ /\ k < 6 /\ phase' = "init"
          /\ cur' = [g |-> k + 1, i |-> 1, invalid |-> {0, 100}, low |-> 0, high |-> 0]
       \/ /\ k = 6 /\ cur' = cur
          /\ phase' = IF mode.kind = "run" THEN "parse" ELSE "dump"
    BY <1>1, GroupsAre DEF EndGroup, Start
<1>18. \A j \in 1..6 : Done(j)' <=> j <= k
    BY <1>1, <1>17 DEF Done
<1>19. \A j \in 1..6 : j # k => Filled(j)' = Filled(j) /\ (Done(j)' => Done(j))
    <2> SUFFICES ASSUME NEW j \in 1..6, j # k
                 PROVE  Filled(j)' = Filled(j) /\ (Done(j)' => Done(j))
        OBVIOUS
    <2>1. Done(j) <=> j < k BY <1>1 DEF Done
    <2>2. CASE j < k BY <1>15, <1>18, <2>1, <2>2 DEF Filled
    <2>3. CASE j > k
        <3>1. Filled(j) = 0 /\ ~Done(j) BY <1>1, <2>1, <2>3 DEF Filled
        <3>2. ~Done(j)' /\ k < 6 BY <1>18, <2>3
        <3>3. cur'.i - 1 = 0 BY <1>17, <3>2
        <3>4. Filled(j)' = 0 BY <3>2, <3>3 DEF Filled
        <3> QED BY <3>1, <3>2, <3>4
    <2> QED BY <2>2, <2>3
<1>20. Filled(k)' = n BY <1>2, <1>15, <1>18 DEF Filled
<1>21. Setup'
    <2>1. ASSUME NEW j \in 1..6
          PROVE  Elements(Defaults(Groups[j])', Filled(j)', prob'[Groups[j]])
        <3>1. CASE j = k BY <1>2, <1>12, <1>13, <1>15, <1>20, <3>1
        <3>2. CASE j # k
            <4>1. Elements(Defaults(Groups[j]), Filled(j), prob[Groups[j]]) BY DEF PInv, Setup
            <4> QED BY <1>12, <1>15, <1>19, <3>2, <4>1
        <3> QED BY <3>1, <3>2
    <2>2. /\ cur' \in [g : 1..6, i : Nat \ {0}, invalid : {cur'.invalid}, low : {cur'.low}, high : {cur'.high}]
          /\ \A j \in 1..6 : j = cur'.g => cur'.i <= Size(Groups[j])' + 1
        <3>1. CASE k < 6
            <4>1. cur' = [g |-> k + 1, i |-> 1, invalid |-> {0, 100}, low |-> 0, high |-> 0]
                BY <1>17, <3>1
            <4>2. \A j \in 1..6 : Size(Groups[j]) \in Nat BY <1>1, <1>15, DefaultsAre
            <4> QED BY <1>15, <3>1, <4>1, <4>2
        <3>2. CASE k = 6
            <4>1. cur' = cur BY <1>17, <3>2
            <4> QED BY <1>15, <4>1 DEF PInv, Setup
        <3> QED BY <3>1, <3>2
    <2>3. /\ opt' \in Options /\ byHand' \in BOOLEAN
          /\ mode' \in [kind : {"run", "dump_default", "dump_random"}, rr : BOOLEAN, focus : {mode'.focus}]
          /\ byHand' => mode'.kind = "run" /\ ~mode'.rr
        BY <1>14 DEF PInv, Setup
    <2>4. /\ phase' \in {"init", "dump", "parse", "run", "abort"}
          /\ phase' # "init" => (phase' = "dump" <=> mode'.kind # "run")
        BY <1>14, <1>17
    <2> QED BY <1>12, <2>1, <2>2, <2>3, <2>4 DEF Setup
<1>22. Drawing'
    <2> SUFFICES ASSUME NEW j \in 1..6, phase' = "init", j = cur'.g
                 PROVE  /\ InRange(Groups[j], Defaults(Groups[j])', cur'.i - 1, prob'[Groups[j]])
                        /\ Groups[j] = "statement" /\ random_random' =>
                               Apart(cur'.i - 1, prob'[Groups[j]], cur'.invalid)
        BY DEF Drawing
    <2>1. cur'.i - 1 = 0 /\ cur'.invalid = {0, 100} BY <1>17
    <2>2. InRange(Groups[j], Defaults(Groups[j])', 0, prob'[Groups[j]]) BY DEF InRange
    <2>3. Apart(0, prob'[Groups[j]], {0, 100}) BY DEF Apart
    <2> QED BY <2>1, <2>2, <2>3
<1>23. AsDefault'
    <2> SUFFICES ASSUME phase' \in {"init", "dump"} /\ ~random_random', NEW j \in 1..6
                 PROVE  AsBase(Defaults(Groups[j])', Filled(j)', prob'[Groups[j]])
        BY DEF AsDefault
    <2>1. CASE j = k BY <1>2, <1>12, <1>13, <1>15, <1>16, <1>20, <2>1
    <2>2. CASE j # k
        <3>1. AsBase(Defaults(Groups[j]), Filled(j), prob[Groups[j]])
            BY <1>1, <1>16 DEF PInv, AsDefault
        <3> QED BY <1>12, <1>15, <1>19, <2>2, <3>1
    <2> QED BY <2>1, <2>2
<1>24. GoodGroups'
    <2> SUFFICES ASSUME NEW j \in 1..6, Done(j)'
                 PROVE  GoodVals(Groups[j], Defaults(Groups[j])', ValsIn(Size(Groups[j])', prob'[Groups[j]]))
        BY DEF GoodGroups
    <2>1. CASE j = k BY <1>2, <1>12, <1>13, <1>15, <2>1
    <2>2. CASE j # k
        <3>1. Done(j) BY <1>19, <2>2
        <3>2. GoodVals(Groups[j], Defaults(Groups[j]), ValsIn(Size(Groups[j]), prob[Groups[j]]))
            BY <1>1, <3>1 DEF PInv, GoodGroups
        <3> QED BY <1>12, <1>15, <2>2, <3>2
    <2> QED BY <2>1, <2>2
<1>25. Saved' BY <1>1, <1>14, SavedWaits DEF PInv
<1>26. File' /\ NoAbort' BY <1>1, <1>14, <1>17 DEF PInv, File, NoAbort
<1>27. Decided' BY <1>1, <1>14 DEF PInv, Decided
<1> QED BY <1>21, <1>22, <1>23, <1>24, <1>25, <1>26, <1>27 DEF PInv

-----------------------------------------------------------------------------
(* The dumps.                                                              *)

\* What a dump writes of the values v of all groups.
SinglesOf(v) == [i \in 1..Size("single") |-> SingleOf(Defaults("single"), v["single"], i)]
GroupsOf(v) == [k \in 1..5 |-> GroupOf(Groups[k + 1], Defaults(Groups[k + 1]), v[Groups[k + 1]])]

\* Both dumps write the values there are: the default ones only when those are they.
LEMMA WrittenLines ==
    ASSUME opt \in Options, \A g \in Group : Elements(Defaults(g), Size(g), prob[g]),
           DOMAIN prob = Group
    PROVE  /\ DumpLines(dump_val) = SinglesOf(Vals) \o GroupsOf(Vals)
           /\ (\A g \in Group : AsBase(Defaults(g), Size(g), prob[g])) =>
                  DumpLines(dump_default) = SinglesOf(Vals) \o GroupsOf(Vals)
<1>1. \A g \in Group : Size(g) = Len(Defaults(g)) /\ Size(g) \in Nat BY DefaultsAre DEF Size
<1>2. \A g \in Group : DOMAIN prob[g] = 1..Size(g) BY <1>1, ElementsOf
<1>3. \A g \in Group : \A i \in 1..Size(g) : /\ prob[g][i].name = Defaults(g)[i][1]
                                             /\ prob[g][i].def = Defaults(g)[i][2]
    <2> SUFFICES ASSUME NEW g \in Group, NEW i \in 1..Size(g)
                 PROVE  /\ prob[g][i].name = Defaults(g)[i][1]
                        /\ prob[g][i].def = Defaults(g)[i][2]
        OBVIOUS
    <2>1. Elements(Defaults(g), Size(g), prob[g]) /\ Size(g) \in Nat BY <1>1
    <2>2. PICK d, s, n : d = Defaults(g) /\ s = prob[g] /\ n = Size(g) OBVIOUS
    <2>3. Elements(d, n, s) /\ n \in Nat /\ i \in 1..n BY <2>1, <2>2
    <2>4. \A j \in 1..n : /\ s[j].name = d[j][1] /\ s[j].def = d[j][2]
                          /\ s[j] = [name |-> d[j][1], def |-> d[j][2], val |-> s[j].val]
                          /\ s[j].val \in 0..100
        BY <2>3, ElementsOf
    <2>5. s[i].name = d[i][1] /\ s[i].def = d[i][2] BY <2>3, <2>4
    <2> QED BY <2>2, <2>5
<1>4. \A g \in Group : \A i \in 1..Size(g) : Vals[g][i] = prob[g][i].val BY <1>2 DEF Vals
<1>5. "single" \in Group /\ \A k \in 1..5 : Groups[k + 1] \in Group
    <2>1. \A k \in 1..5 : k + 1 \in 1..6 OBVIOUS
    <2> QED BY <2>1, GroupsAre DEF Group
<1>6. SinglesOf(Vals) = [i \in DOMAIN prob["single"] |->
                            SingleLine(prob["single"][i].name, prob["single"][i].val)]
    BY <1>2, <1>3, <1>4, <1>5 DEF SinglesOf, SingleOf
<1>7. ASSUME NEW k \in 1..5
      PROVE  GroupsOf(Vals)[k] =
                 GroupLine(is_equal(Groups[k + 1]), Groups[k + 1],
                     [i \in DOMAIN prob[Groups[k + 1]] |->
                         <<prob[Groups[k + 1]][i].name, prob[Groups[k + 1]][i].val>>])
    <2>1. PICK g \in Group : g = Groups[k + 1] BY <1>5
    <2>2. [i \in 1..Len(Defaults(g)) |-> <<Defaults(g)[i][1], Vals[g][i]>>]
          = [i \in DOMAIN prob[g] |-> <<prob[g][i].name, prob[g][i].val>>]
        BY <1>1, <1>2, <1>3, <1>4
    <2> QED BY <2>1, <2>2 DEF GroupsOf, GroupOf
<1>8. GroupsOf(Vals) = [k \in 1..(Len(Groups) - 1) |->
          LET g == Groups[k + 1]
          IN  GroupLine(is_equal(g), g, [i \in DOMAIN prob[g] |-> <<prob[g][i].name, prob[g][i].val>>])]
    <2>1. Len(Groups) - 1 = 5 BY GroupsAre
    <2>2. GroupsOf(Vals) = [k \in 1..5 |-> GroupsOf(Vals)[k]] BY DEF GroupsOf
    <2> HIDE DEF GroupsOf
    <2> QED BY <1>7, <2>1, <2>2
<1>9. DumpLines(dump_val) = SinglesOf(Vals) \o GroupsOf(Vals)
    BY <1>6, <1>8 DEF DumpLines, dump_val
<1>10. ASSUME \A g \in Group : AsBase(Defaults(g), Size(g), prob[g])
       PROVE  DumpLines(dump_default) = DumpLines(dump_val)
    <2>1. ASSUME NEW g \in Group, NEW i \in DOMAIN prob[g]
          PROVE  prob[g][i].def = prob[g][i].val
        <3>1. i \in 1..Size(g) BY <1>2
        <3>2. prob[g][i].def = Defaults(g)[i][2] BY <1>3, <3>1
        <3>3. prob[g][i].val = Defaults(g)[i][2] BY <1>10, <3>1 DEF AsBase
        <3> QED BY <3>2, <3>3
    <2>2. [i \in DOMAIN prob["single"] |-> SingleLine(prob["single"][i].name, prob["single"][i].def)]
          = [i \in DOMAIN prob["single"] |-> SingleLine(prob["single"][i].name, prob["single"][i].val)]
        BY <1>5, <2>1
    <2>3. [k \in 1..(Len(Groups) - 1) |->
              LET g == Groups[k + 1]
              IN  GroupLine(is_equal(g), g, [i \in DOMAIN prob[g] |-> <<prob[g][i].name, prob[g][i].def>>])]
          = [k \in 1..(Len(Groups) - 1) |->
              LET g == Groups[k + 1]
              IN  GroupLine(is_equal(g), g, [i \in DOMAIN prob[g] |-> <<prob[g][i].name, prob[g][i].val>>])]
        <3>1. \A g \in Group : [i \in DOMAIN prob[g] |-> <<prob[g][i].name, prob[g][i].def>>]
                               = [i \in DOMAIN prob[g] |-> <<prob[g][i].name, prob[g][i].val>>]
            BY <2>1
        <3>2. Len(Groups) - 1 = 5 BY GroupsAre
        <3> QED BY <1>5, <3>1, <3>2
    <2> QED BY <2>2, <2>3, Zenon DEF DumpLines, dump_val, dump_default
<1> QED BY <1>9, <1>10

LEMMA SequenceOf ==
    ASSUME NEW T, NEW n \in Nat, NEW A \in [1..n -> T]
    PROVE  A \in Seq(T) /\ Len(A) = n
OBVIOUS

Joined(u, s, t) ==
    /\ Len(u) = Len(s) + Len(t)
    /\ \A i \in 1..Len(s) : u[i] = s[i]
    /\ \A i \in 1..Len(t) : u[Len(s) + i] = t[i]

LEMMA Concatenated ==
    ASSUME NEW T, NEW s \in Seq(T), NEW t \in Seq(T)
    PROVE  Joined(s \o t, s, t) /\ s \o t \in Seq(T)
<1>1. Len(s) \in Nat /\ Len(t) \in Nat BY LenProperties
<1>2. /\ s \o t \in Seq(T) /\ Len(s \o t) = Len(s) + Len(t)
      /\ \A i \in 1..Len(s) + Len(t) : (s \o t)[i] = IF i <= Len(s) THEN s[i] ELSE t[i - Len(s)]
    BY ConcatProperties
<1> DEFINE u == s \o t
<1> HIDE DEF u
<1>3. \A i \in 1..Len(s) : u[i] = s[i] BY <1>1, <1>2 DEF u
<1>4. ASSUME NEW i \in 1..Len(t) PROVE u[Len(s) + i] = t[i]
    <2>1. Len(s) + i \in 1..Len(s) + Len(t) /\ ~(Len(s) + i <= Len(s)) /\ (Len(s) + i) - Len(s) = i
        BY <1>1
    <2> QED BY <1>2, <2>1 DEF u
<1> QED BY <1>2, <1>3, <1>4 DEF Joined, u

\* The program that writes a dump ends, and the next one finds in the file what it saved.
LEMMA DumpStep ==
    ASSUME PInv, dump_default_probabilities \/ dump_actual_probabilities
    PROVE  PInv'
<1>1. /\ phase = "dump" /\ opt \in Options /\ mode.kind # "run" /\ ~byHand
      /\ prob = [g \in Group |-> prob[g]] /\ table = None /\ last = None
    BY DEF dump_default_probabilities, dump_actual_probabilities, PInv, Setup, Decided
<1>2. \A g \in Group : Size(g) \in Nat /\ Size(g) = Len(Defaults(g)) BY <1>1, DefaultsAre DEF Size
<1>3. ASSUME NEW g \in Group
      PROVE  /\ Elements(Defaults(g), Size(g), prob[g])
             /\ GoodVals(g, Defaults(g), ValsIn(Size(g), prob[g]))
             /\ ~random_random => AsBase(Defaults(g), Size(g), prob[g])
    <2>1. PICK k \in 1..6 : Groups[k] = g BY GroupsAre
    <2>2. Done(k) /\ Filled(k) = Size(g) BY <1>1, <2>1 DEF Done, Filled
    <2>3. Elements(Defaults(g), Size(g), prob[g]) BY <2>1, <2>2 DEF PInv, Setup
    <2>4. GoodVals(g, Defaults(g), ValsIn(Size(g), prob[g])) BY <1>1, <2>1, <2>2 DEF PInv, GoodGroups
    <2>5. ~random_random => AsBase(Defaults(g), Size(g), prob[g])
        BY <1>1, <2>1, <2>2 DEF PInv, AsDefault
    <2> QED BY <2>3, <2>4, <2>5
<1>4. /\ saved' = Vals
      /\ conf' = SinglesOf(Vals) \o GroupsOf(Vals)
         \/ conf' = <<[kind |-> "comment"]>> \o (SinglesOf(Vals) \o GroupsOf(Vals))
    <2>1. DOMAIN prob = Group BY <1>1
    <2>2. CASE dump_default_probabilities
        <3>1. ~random_random BY <2>2 DEF dump_default_probabilities, random_random
        <3>2. conf' = DumpLines(dump_default) /\ saved' = Vals
            BY <2>2 DEF dump_default_probabilities, Dump
        <3>3. DumpLines(dump_default) = SinglesOf(Vals) \o GroupsOf(Vals)
            BY <1>1, <1>3, <2>1, <3>1, WrittenLines
        <3> QED BY <3>2, <3>3
    <2>3. CASE dump_actual_probabilities
        <3>1. conf' = <<[kind |-> "comment"]>> \o DumpLines(dump_val) /\ saved' = Vals
            BY <2>3 DEF dump_actual_probabilities, Dump
        <3>2. DumpLines(dump_val) = SinglesOf(Vals) \o GroupsOf(Vals)
            BY <1>1, <1>3, <2>1, WrittenLines
        <3> QED BY <3>1, <3>2
    <2> QED BY <2>2, <2>3
<1>5. /\ prob' = [g \in Group |-> << >>] /\ phase' = "init"
      /\ cur' = [g |-> 1, i |-> 1, invalid |-> {0, 100}, low |-> 0, high |-> 0]
      /\ mode' = [mode EXCEPT !.kind = "run"]
      /\ UNCHANGED <<opt, byHand, table, last>>
    BY <1>1 DEF dump_default_probabilities, dump_actual_probabilities, Dump, Start
<1>6. mode' \in [kind : {"run", "dump_default", "dump_random"}, rr : BOOLEAN, focus : {mode'.focus}]
      /\ mode'.kind = "run"
    BY <1>5 DEF PInv, Setup
<1>7. /\ \A g \in Group : Defaults(g)' = Defaults(g) /\ Size(g)' = Size(g)
      /\ \A k \in 1..6 : Groups[k] \in Group
      /\ "single" \in Group
    BY <1>5, Fixed, GroupsAre DEF Group
<1>8. \A k \in 1..6 : Done(k)' = FALSE /\ Filled(k)' = 0 BY <1>5 DEF Done, Filled
<1>9. Setup'
    <2>1. \A k \in 1..6 : Elements(Defaults(Groups[k])', Filled(k)', prob'[Groups[k]])
        <3>1. ASSUME NEW e PROVE Elements(e, 0, << >>) BY DEF Elements
        <3> QED BY <1>5, <1>7, <1>8, <3>1
    <2>2. \A k \in 1..6 : k = cur'.g => cur'.i <= Size(Groups[k])' + 1
        BY <1>2, <1>5, <1>7
    <2>3. cur' \in [g : 1..6, i : Nat \ {0}, invalid : {cur'.invalid}, low : {cur'.low}, high : {cur'.high}]
        BY <1>5
    <2>4. prob' = [g \in Group |-> prob'[g]] BY <1>5
    <2>5. opt' \in Options /\ byHand' \in BOOLEAN /\ ~byHand' BY <1>1, <1>5 DEF PInv, Setup
    <2> QED BY <1>5, <1>6, <2>1, <2>2, <2>3, <2>4, <2>5 DEF Setup
<1>10. Drawing'
    <2> SUFFICES ASSUME NEW j \in 1..6, j = cur'.g
                 PROVE  /\ InRange(Groups[j], Defaults(Groups[j])', cur'.i - 1, prob'[Groups[j]])
                        /\ Groups[j] = "statement" /\ random_random' =>
                               Apart(cur'.i - 1, prob'[Groups[j]], cur'.invalid)
        BY DEF Drawing
    <2>1. cur'.i - 1 = 0 /\ cur'.invalid = {0, 100} BY <1>5
    <2>2. InRange(Groups[j], Defaults(Groups[j])', 0, prob'[Groups[j]]) BY DEF InRange
    <2>3. Apart(0, prob'[Groups[j]], {0, 100}) BY DEF Apart
    <2> QED BY <2>1, <2>2, <2>3
<1>11. AsDefault'
    <2>1. ASSUME NEW e, NEW s PROVE AsBase(e, 0, s) BY DEF AsBase
    <2> QED BY <1>8, <2>1 DEF AsDefault
<1>12. GoodGroups' BY <1>8 DEF GoodGroups
<1>13. /\ saved' = [g \in Group |-> [i \in 1..Size(g) |-> saved'[g][i]]]
       /\ \A g \in Group : saved'[g] = ValsIn(Size(g), prob[g])
    <2>1. \A g \in Group : DOMAIN prob[g] = 1..Size(g) BY <1>2, <1>3, ElementsOf
    <2>2. \A g \in Group : saved'[g] = [i \in 1..Size(g) |-> prob[g][i].val]
        BY <1>1, <1>4, <2>1 DEF Vals
    <2>3. DOMAIN saved' = Group /\ saved' = [g \in Group |-> saved'[g]] BY <1>1, <1>4 DEF Vals
    <2>4. \A g \in Group : saved'[g] = [i \in 1..Size(g) |-> saved'[g][i]] BY <2>2
    <2> QED BY <2>2, <2>3, <2>4 DEF ValsIn
<1>14. SavedFits' BY <1>3, <1>7, <1>13 DEF SavedFits
<1>15. /\ \A i \in 1..Size("single") : SavedSingle(i)' = SinglesOf(Vals)[i]
       /\ \A k \in 2..6 : SavedGroup(k)' = GroupsOf(Vals)[k - 1]
    <2>1. Defaults("single")' = Defaults("single") BY <1>7
    <2>2. \A i \in 1..Size("single") : SavedSingle(i)' = SinglesOf(Vals)[i]
        BY <1>4, <2>1 DEF SavedSingle, SinglesOf
    <2>3. ASSUME NEW k \in 2..6 PROVE SavedGroup(k)' = GroupsOf(Vals)[k - 1]
        <3>1. k \in 1..6 /\ k - 1 \in 1..5 /\ (k - 1) + 1 = k OBVIOUS
        <3>2. Defaults(Groups[k])' = Defaults(Groups[k]) BY <1>7, <3>1
        <3> QED BY <1>4, <3>1, <3>2 DEF SavedGroup, GroupsOf
    <2> QED BY <2>2, <2>3
<1>16. PICK A, B, n : /\ A = SinglesOf(Vals) /\ B = GroupsOf(Vals) /\ n = Size("single")
                      /\ n \in Nat
    BY <1>2, <1>7
<1>17. A \in Seq(TrueLines') /\ B \in Seq(TrueLines') /\ Len(A) = n /\ Len(B) = 5
    <2>1. DOMAIN A = 1..n /\ A = [i \in 1..n |-> A[i]] BY <1>16 DEF SinglesOf
    <2>2. DOMAIN B = 1..5 /\ B = [i \in 1..5 |-> B[i]] BY <1>16 DEF GroupsOf
    <2>3. Size("single")' = n BY <1>7, <1>16
    <2>4. ASSUME NEW i \in 1..n PROVE A[i] \in TrueLines'
        <3>1. A[i] = SavedSingle(i)' BY <1>15, <1>16
        <3> QED BY <2>3, <3>1 DEF TrueLines
    <2>5. ASSUME NEW i \in 1..5 PROVE B[i] \in TrueLines'
        <3>1. i + 1 \in 2..6 /\ (i + 1) - 1 = i OBVIOUS
        <3>2. B[i] = SavedGroup(i + 1)' BY <1>15, <1>16, <3>1
        <3> QED BY <3>1, <3>2 DEF TrueLines
    <2> HIDE DEF TrueLines
    <2>6. PICK T : T = TrueLines' OBVIOUS
    <2>7. A \in [1..n -> T] /\ B \in [1..5 -> T] BY <2>1, <2>2, <2>4, <2>5, <2>6
    <2>8. A \in Seq(T) /\ B \in Seq(T) /\ Len(A) = n /\ Len(B) = 5 BY <1>16, <2>7, SequenceOf
    <2> QED BY <2>6, <2>8
<1>18. /\ conf' \in Seq(TrueLines')
       /\ \A i \in 1..n : In(conf', A[i])
       /\ \A i \in 1..5 : In(conf', B[i])
    <2> DEFINE T == TrueLines'
    <2>1. [kind |-> "comment"] \in T BY DEF TrueLines
    <2>2. A \in Seq(T) /\ B \in Seq(T) BY <1>17
    <2> HIDE DEF T
    <2> DEFINE C == A \o B
    <2>0. Joined(C, A, B) /\ C \in Seq(T) BY <2>2, Concatenated
    <2> HIDE DEF C
    <2>3. C \in Seq(T) /\ Len(C) = n + 5 /\ (\A i \in 1..n : C[i] = A[i])
          /\ (\A i \in 1..5 : C[n + i] = B[i])
        BY <1>16, <1>17, <2>0 DEF Joined
    <2>4. /\ \A i \in 1..n : \E j \in 1..Len(C) : C[j] = A[i]
          /\ \A i \in 1..5 : \E j \in 1..Len(C) : C[j] = B[i]
        <3>1. \A i \in 1..n : i \in 1..Len(C) BY <1>16, <2>3
        <3>2. \A i \in 1..5 : n + i \in 1..Len(C) BY SMTT(30), <1>16, <2>3
        <3> QED BY <2>3, <3>1, <3>2
    <2>5. CASE conf' = C BY <2>3, <2>4, <2>5 DEF In, T
    <2>6. CASE conf' = <<[kind |-> "comment"]>> \o C
        <3> DEFINE c == <<[kind |-> "comment"]>>
                   D == c \o C
        <3>1. c \in Seq(T) /\ Len(c) = 1 BY <2>1
        <3> HIDE DEF c
        <3>0. Joined(D, c, C) /\ D \in Seq(T) BY <2>3, <3>1, Concatenated
        <3> HIDE DEF D
        <3>2. D \in Seq(T) /\ Len(D) = 1 + Len(C) /\ \A i \in 1..Len(C) : D[1 + i] = C[i]
            BY <3>0, <3>1 DEF Joined
        <3>3. \A i \in 1..Len(C) : 1 + i \in 1..Len(D) BY <2>3, <3>2
        <3>4. \A x : (\E j \in 1..Len(C) : C[j] = x) => In(D, x) BY <3>2, <3>3 DEF In
        <3> QED BY <2>4, <2>6, <3>2, <3>4 DEF D, c, T
    <2> QED BY <1>4, <1>16, <2>5, <2>6 DEF C
<1>19. Saved'
    <2> SUFFICES ASSUME TRUE
                 PROVE  /\ mode'.kind = "run" /\ ~byHand' /\ SavedFits'
                        /\ conf' \in Seq(TrueLines')
                        /\ \A i \in 1..Size("single")' : In(conf', SavedSingle(i)')
                        /\ \A k \in 2..6 : In(conf', SavedGroup(k)')
        BY DEF Saved
    <2>1. \A i \in 1..Size("single")' : In(conf', SavedSingle(i)')
        BY <1>7, <1>15, <1>16, <1>18
    <2>2. ASSUME NEW k \in 2..6 PROVE In(conf', SavedGroup(k)')
        <3>1. k - 1 \in 1..5 OBVIOUS
        <3> QED BY <1>15, <1>16, <1>18, <3>1
    <2> QED BY <1>1, <1>5, <1>6, <1>14, <1>18, <2>1, <2>2
<1>20. File' /\ NoAbort'
    <2>1. saved' # None
        <3>1. DOMAIN saved' = Group BY <1>13
        <3> QED BY <1>7, <3>1 DEF None
    <2> QED BY <1>1, <1>5, <2>1 DEF File, NoAbort
<1>21. Decided' BY <1>1, <1>5 DEF Decided
<1> QED BY <1>9, <1>10, <1>11, <1>12, <1>19, <1>20, <1>21 DEF PInv

-----------------------------------------------------------------------------
(* The file.                                                               *)

\* r is s with the values of elems, where there are any.
StoredIn(r, s, n, elems) ==
    \A i \in 1..n :
        \/ /\ \A k \in DOMAIN elems : elems[k][1] # s[i].name
           /\ r[i].val = s[i].val
        \/ \E k \in DOMAIN elems : elems[k][1] = s[i].name /\ r[i].val = elems[k][2]

StoreOf(s, elems) ==
    [i \in DOMAIN s |->
        LET given == {k \in DOMAIN elems : elems[k][1] = s[i].name}
        IN  IF given = {} THEN s[i] ELSE [s[i] EXCEPT !.val = elems[Max(given)][2]]]

LEMMA StoreIs ==
    ASSUME NEW g, NEW elems, Store(g, elems), g \in DOMAIN prob
    PROVE  prob' = [prob EXCEPT ![g] = StoreOf(prob[g], elems)]
BY Zenon DEF Store, StoreOf

LEMMA StoredWell ==
    ASSUME NEW d, NEW n \in Nat, NEW s, Elements(d, n, s), NEW elems, NEW m \in Nat,
           DOMAIN elems = 1..m, \A k \in 1..m : elems[k][2] \in 0..100
    PROVE  Elements(d, n, StoreOf(s, elems)) /\ StoredIn(StoreOf(s, elems), s, n, elems)
<1>1. PICK r : r = StoreOf(s, elems) OBVIOUS
<1>2. DOMAIN s = 1..n BY ElementsOf
<1>3. \A j \in 1..n : /\ s[j].name = d[j][1] /\ s[j].def = d[j][2]
                      /\ s[j] = [name |-> d[j][1], def |-> d[j][2], val |-> s[j].val]
                      /\ s[j].val \in 0..100
    BY ElementsOf
<1>4. r = [i \in 1..n |-> r[i]] BY <1>1, <1>2 DEF StoreOf
<1>5. ASSUME NEW i \in 1..n
      PROVE  /\ r[i] = [name |-> d[i][1], def |-> d[i][2], val |-> r[i].val]
             /\ r[i].val \in 0..100
             /\ \/ /\ \A k \in DOMAIN elems : elems[k][1] # s[i].name
                   /\ r[i].val = s[i].val
                \/ \E k \in DOMAIN elems : elems[k][1] = s[i].name /\ r[i].val = elems[k][2]
    <2>1. PICK given : given = {k \in DOMAIN elems : elems[k][1] = s[i].name} OBVIOUS
    <2>2. r[i] = IF given = {} THEN s[i] ELSE [s[i] EXCEPT !.val = elems[Max(given)][2]]
        BY <1>1, <1>2, <2>1 DEF StoreOf
    <2>3. /\ s[i] = [name |-> d[i][1], def |-> d[i][2], val |-> s[i].val]
          /\ s[i].val \in 0..100
        BY <1>3
    <2>4. CASE given = {}
        <3>1. r[i] = s[i] BY <2>2, <2>4
        <3>2. \A k \in DOMAIN elems : elems[k][1] # s[i].name BY <2>1, <2>4
        <3> QED BY <2>3, <3>1, <3>2
    <2>5. CASE given # {}
        <3>1. given \in SUBSET (0..m) BY <2>1
        <3>2. PICK k : k = Max(given) /\ k \in given BY <2>5, <3>1, ExtremaOf
        <3>3. k \in 1..m /\ elems[k][1] = s[i].name /\ elems[k][2] \in 0..100 BY <2>1, <3>2
        <3>4. r[i] = [s[i] EXCEPT !.val = elems[k][2]] BY <2>2, <2>5, <3>2
        <3>5. r[i] = [name |-> d[i][1], def |-> d[i][2], val |-> elems[k][2]] BY <2>3, <3>4
        <3>6. r[i].val = elems[k][2] BY <3>5
        <3>7. r[i] = [name |-> d[i][1], def |-> d[i][2], val |-> r[i].val] BY <3>5, <3>6
        <3> QED BY <3>3, <3>6, <3>7
    <2> QED BY <2>4, <2>5
<1>6. Elements(d, n, r) BY <1>4, <1>5 DEF Elements
<1>7. StoredIn(r, s, n, elems) BY <1>5 DEF StoredIn
<1> QED BY <1>1, <1>6, <1>7

\* While a file is read, all groups are complete.
LEMMA AllComplete ==
    ASSUME Setup, phase # "init", NEW g \in Group
    PROVE  /\ Elements(Defaults(g), Size(g), prob[g]) /\ Size(g) \in Nat
           /\ Size(g) = Len(Defaults(g)) /\ DOMAIN prob[g] = 1..Size(g) /\ g \in DOMAIN prob
           /\ \A i \in 1..Size(g) : prob[g][i].name = Name(g, i) /\ prob[g][i].def = Base(g, i)
           /\ NamesOf(g) = {Name(g, i) : i \in 1..Size(g)}
<1>1. PICK k \in 1..6 : Groups[k] = g BY GroupsAre
<1>2. Filled(k) = Size(g) BY <1>1 DEF Filled, Done
<1>3. Elements(Defaults(g), Size(g), prob[g]) BY <1>1, <1>2 DEF Setup
<1>4. opt \in Options /\ g \in DOMAIN prob BY DEF Setup
<1>5. Size(g) \in Nat /\ Size(g) = Len(Defaults(g)) BY <1>4, DefaultsAre DEF Size
<1>6. DOMAIN prob[g] = 1..Size(g) BY <1>3, <1>5, ElementsOf
<1>7. \A i \in 1..Size(g) : prob[g][i].name = Name(g, i) /\ prob[g][i].def = Base(g, i)
    <2>1. PICK d, s, n : d = Defaults(g) /\ s = prob[g] /\ n = Size(g) OBVIOUS
    <2>2. Elements(d, n, s) /\ n \in Nat BY <1>3, <1>5, <2>1
    <2>3. \A j \in 1..n : /\ s[j].name = d[j][1] /\ s[j].def = d[j][2]
                          /\ s[j] = [name |-> d[j][1], def |-> d[j][2], val |-> s[j].val]
                          /\ s[j].val \in 0..100
        BY <2>2, ElementsOf
    <2>4. \A j \in 1..n : s[j].name = d[j][1] /\ s[j].def = d[j][2] BY <2>3
    <2> QED BY <2>1, <2>4 DEF Name, Base
<1>8. NamesOf(g) = {Name(g, i) : i \in 1..Size(g)} BY <1>6, <1>7 DEF NamesOf
<1> QED BY <1>3, <1>4, <1>5, <1>6, <1>7, <1>8

\* A line is a comment, a probability, or a group with some elements.
Formed(line) ==
    \/ line.kind = "comment"
    \/ line.kind = "single" /\ line.val \in Int
    \/ line.kind = "group" /\ \E m \in Nat : DOMAIN line.elems = 1..m

\* What a line that is read gives: the elems of group g.
Gives(line, g, elems) ==
    \/ line.kind = "comment" /\ g = "single" /\ elems = << >>
    \/ /\ line.kind = "single" /\ g = "single" /\ val_assert(line.val) /\ line.name \in NamesOf(g)
       /\ elems = IF line.val = -1 THEN << >> ELSE << <<line.name, line.val>> >>
    \/ /\ line.kind = "group" /\ g = line.name /\ elems = line.elems
       /\ setup_group_probabilities(line.equal, g, elems)

\* What stops the program.
Refused(line) ==
    \/ line.kind = "single" /\ (line.name \notin NamesOf("single") \/ ~val_assert(line.val))
    \/ /\ line.kind = "group"
       /\ line.elems = << >> \/ ~setup_group_probabilities(line.equal, line.name, line.elems)

\* The values that are stored are percentages, whatever the file.
LEMMA GivenValues ==
    ASSUME NEW line, Formed(line), NEW g, NEW elems, Gives(line, g, elems)
    PROVE  \E m \in Nat : DOMAIN elems = 1..m /\ \A k \in 1..m : elems[k][2] \in 0..100
<1>1. CASE elems = << >>
    <2>1. DOMAIN elems = 1..0 BY <1>1
    <2> QED BY <2>1
<1>2. CASE line.kind = "single" /\ elems # << >>
    <2>1. line.val \in 0..100 /\ elems = << <<line.name, line.val>> >>
        BY <1>2 DEF Gives, Formed, val_assert
    <2>2. DOMAIN elems = 1..1 /\ elems[1][2] = line.val BY <2>1
    <2> QED BY <2>1, <2>2
<1>3. CASE line.kind = "group"
    <2>1. elems = line.elems /\ setup_group_probabilities(line.equal, g, elems)
        BY <1>3 DEF Gives
    <2>2. PICK m \in Nat : DOMAIN elems = 1..m BY <1>3, <2>1 DEF Formed
    <2>3. ASSUME NEW k \in 1..m PROVE elems[k][2] \in 0..100
        <3>1. parse_single_elem(line.equal, g, elems[k])
            BY <2>1, <2>2 DEF setup_group_probabilities
        <3>2. elems[k][2] \in {0, 1} \/ elems[k][2] \in 0..100 BY <3>1 DEF parse_single_elem
        <3> QED BY <3>2
    <2> QED BY <2>2, <2>3
<1> QED BY <1>1, <1>2, <1>3 DEF Gives

LEMMA ParseEffect ==
    ASSUME Setup, parse_line, Formed(Head(conf))
    PROVE  /\ phase = "parse" /\ conf # None
           /\ UNCHANGED <<opt, mode, cur, byHand, saved, table, last>>
           /\ \/ phase' = "abort" /\ prob' = prob /\ conf' = conf /\ Refused(Head(conf))
              \/ /\ phase' = "parse" /\ conf' = Tail(conf)
                 /\ \E g \in Group : \E elems :
                        /\ Gives(Head(conf), g, elems)
                        /\ prob' = [prob EXCEPT ![g] = StoreOf(prob[g], elems)]
<1>1. PICK line : line = Head(conf) OBVIOUS
<1>2. DOMAIN prob = Group /\ "single" \in Group /\ prob = [g \in Group |-> prob[g]]
    BY DEF Setup, Group
<1>3. phase = "parse" /\ conf # None BY DEF parse_line
<1>4. CASE line.kind = "comment"
    <2>1. conf' = Tail(conf) /\ UNCHANGED <<opt, mode, phase, prob, cur, byHand, saved, table, last>>
        BY <1>1, <1>4 DEF parse_line
    <2>2. prob' = [prob EXCEPT !["single"] = StoreOf(prob["single"], << >>)]
        <3>1. PICK s, n : s = prob["single"] /\ n = Size("single") OBVIOUS
        <3>2. Elements(Defaults("single"), n, s) /\ DOMAIN s = 1..n
            BY <1>2, <1>3, <3>1, AllComplete
        <3>3. s = [i \in DOMAIN s |-> s[i]] BY <3>2 DEF Elements
        <3>4. StoreOf(s, << >>) = [i \in DOMAIN s |-> s[i]]
            <4>1. \A i : {k \in DOMAIN << >> : << >>[k][1] = s[i].name} = {} OBVIOUS
            <4> QED BY <4>1 DEF StoreOf
        <3>5. StoreOf(prob["single"], << >>) = prob["single"] BY <3>1, <3>3, <3>4
        <3> QED BY <1>2, <2>1, <3>5
    <2>3. Gives(line, "single", << >>) BY <1>4 DEF Gives
    <2> QED BY <1>1, <1>2, <1>3, <2>1, <2>2, <2>3
<1>5. CASE line.kind = "single"
    <2>1. parse_single_probability(line) BY <1>1, <1>5 DEF parse_line
    <2>2. CASE line.name \notin NamesOf("single") \/ ~val_assert(line.val)
        <3>1. Abort /\ Refused(line) BY <1>5, <2>1, <2>2 DEF parse_single_probability, Refused
        <3> QED BY <1>1, <1>3, <3>1 DEF Abort
    <2>3. CASE line.name \in NamesOf("single") /\ val_assert(line.val)
        <3>1. PICK elems : elems = IF line.val = -1 THEN << >> ELSE << <<line.name, line.val>> >>
            OBVIOUS
        <3>2. Store("single", elems) /\ conf' = Tail(conf)
              /\ UNCHANGED <<opt, mode, phase, cur, byHand, saved, table, last>>
            BY <2>1, <2>3, <3>1 DEF parse_single_probability
        <3>3. prob' = [prob EXCEPT !["single"] = StoreOf(prob["single"], elems)]
            BY <1>2, <3>2, StoreIs
        <3>4. Gives(line, "single", elems) BY <1>5, <2>3, <3>1 DEF Gives
        <3> QED BY <1>1, <1>2, <1>3, <3>2, <3>3, <3>4
    <2> QED BY <2>2, <2>3
<1>6. CASE line.kind = "group"
    <2>1. parse_group_probabilities(line) BY <1>1, <1>6 DEF parse_line
    <2>2. CASE line.elems = << >> \/ ~setup_group_probabilities(line.equal, line.name, line.elems)
        <3>1. Abort /\ Refused(line) BY <1>6, <2>1, <2>2 DEF parse_group_probabilities, Refused
        <3> QED BY <1>1, <1>3, <3>1 DEF Abort
    <2>3. CASE line.elems # << >> /\ setup_group_probabilities(line.equal, line.name, line.elems)
        <3>1. PICK g, elems : g = line.name /\ elems = line.elems OBVIOUS
        <3>2. Store(g, elems) /\ conf' = Tail(conf)
              /\ UNCHANGED <<opt, mode, phase, cur, byHand, saved, table, last>>
            BY <2>1, <2>3, <3>1 DEF parse_group_probabilities
        <3>3. g \in Group BY <1>2, <2>3, <3>1 DEF setup_group_probabilities
        <3>4. prob' = [prob EXCEPT ![g] = StoreOf(prob[g], elems)] BY <1>2, <3>2, <3>3, StoreIs
        <3>5. Gives(line, g, elems) BY <1>6, <2>3, <3>1 DEF Gives
        <3> QED BY <1>1, <1>3, <3>2, <3>3, <3>4, <3>5
    <2> QED BY <2>2, <2>3
<1> QED BY <1>1, <1>4, <1>5, <1>6 DEF Formed

LEMMA HandFormed ==
    ASSUME NEW line \in Lines
    PROVE  Formed(line)
<1>1. CASE line \in [kind : {"comment"}] BY <1>1 DEF Formed
<1>2. CASE line \in [kind : {"single"}, name : STRING, val : Int] BY <1>2 DEF Formed
<1>3. CASE line \in [kind : {"group"}, equal : BOOLEAN, name : STRING, elems : Seq(STRING \X Int)]
    <2>1. PICK X : X = STRING \X Int OBVIOUS
    <2>2. line.kind = "group" /\ line.elems \in Seq(X) BY <1>3, <2>1
    <2>3. DOMAIN line.elems = 1..Len(line.elems) /\ Len(line.elems) \in Nat BY <2>2, LenProperties
    <2> QED BY <2>2, <2>3 DEF Formed
<1> QED BY <1>1, <1>2, <1>3 DEF Lines

\* What a dump has written is of the shape that the parser reads ...
LEMMA TrueFormed ==
    ASSUME opt \in Options, SavedFits, NEW line \in TrueLines
    PROVE  /\ Formed(line)
           /\ line.kind = "single" => \E i \in 1..Size("single") : line = SavedSingle(i)
           /\ line.kind = "group" => \E k \in 2..6 : line = SavedGroup(k)
<1>1. \A g \in Group : Size(g) \in Nat /\ Size(g) = Len(Defaults(g)) BY DefaultsAre DEF Size
<1>2. CASE line = [kind |-> "comment"] BY <1>2 DEF Formed
<1>3. ASSUME NEW i \in 1..Size("single"), line = SavedSingle(i)
      PROVE  line.kind = "single" /\ line.val \in 0..100
    <2>1. "single" \in Group /\ Hi("single") = 100 BY DEF Group, Hi, is_equal
    <2>2. saved["single"][i] \in 0..100 BY <1>1, <2>1 DEF SavedFits, GoodVals
    <2> QED BY <1>3, <2>2 DEF SavedSingle, SingleOf, SingleLine
<1>4. ASSUME NEW k \in 2..6, line = SavedGroup(k)
      PROVE  line.kind = "group" /\ \E m \in Nat : DOMAIN line.elems = 1..m
    <2>1. Groups[k] \in Group
        <3>1. k \in 1..6 OBVIOUS
        <3> QED BY <3>1, GroupsAre
    <2>2. PICK g, v : g = Groups[k] /\ v = saved[Groups[k]] OBVIOUS
    <2>3. line.kind = "group" /\ line.elems = [i \in 1..Len(Defaults(g)) |-> <<Defaults(g)[i][1], v[i]>>]
        BY <1>4, <2>2 DEF SavedGroup, GroupOf, GroupLine
    <2>4. Len(Defaults(g)) \in Nat BY <1>1, <2>1, <2>2
    <2> QED BY <2>3, <2>4
<1>5. \/ line = [kind |-> "comment"]
      \/ \E i \in 1..Size("single") : line = SavedSingle(i)
      \/ \E k \in 2..6 : line = SavedGroup(k)
    BY DEF TrueLines
<1>6. CASE \E i \in 1..Size("single") : line = SavedSingle(i)
    <2>1. line.kind = "single" /\ line.val \in 0..100 BY <1>3, <1>6
    <2> QED BY <1>6, <2>1 DEF Formed
<1>7. CASE \E k \in 2..6 : line = SavedGroup(k)
    <2>1. line.kind = "group" /\ \E m \in Nat : DOMAIN line.elems = 1..m BY <1>4, <1>7
    <2> QED BY <1>7, <2>1 DEF Formed
<1> QED BY <1>2, <1>5, <1>6, <1>7

\* ... and that it accepts.
LEMMA TrueAccepted ==
    ASSUME Setup, phase # "init", SavedFits, NEW line \in TrueLines
    PROVE  ~Refused(line)
<1>1. opt \in Options /\ prob = [g \in Group |-> prob[g]] BY DEF Setup
<1>2. CASE line.kind = "single"
    <2>1. PICK i \in 1..Size("single") : line = SavedSingle(i) BY <1>1, <1>2, TrueFormed
    <2>2. "single" \in Group /\ Hi("single") = 100 BY DEF Group, Hi, is_equal
    <2>3. Size("single") = Len(Defaults("single")) BY DEF Size
    <2>4. saved["single"][i] \in 0..100 BY <2>2, <2>3 DEF SavedFits, GoodVals
    <2>5. line.name = Name("single", i) /\ line.val \in 0..100
        BY <2>1, <2>4 DEF SavedSingle, SingleOf, SingleLine, Name
    <2>6. line.name \in NamesOf("single") BY <2>2, <2>5, AllComplete
    <2> QED BY <1>2, <2>5, <2>6 DEF Refused, val_assert
<1>3. CASE line.kind = "group"
    <2>1. PICK k \in 2..6 : line = SavedGroup(k) BY <1>1, <1>3, TrueFormed
    <2>2. PICK g, v, d, n : g = Groups[k] /\ v = saved[Groups[k]] /\ d = Defaults(g) /\ n = Size(g)
        OBVIOUS
    <2>3. g \in Group /\ g # "single"
        <3>1. k \in 1..6 /\ k # 1 /\ 1 \in 1..6 OBVIOUS
        <3> QED BY <2>2, <3>1, GroupsAre
    <2>4. n \in Nat /\ n = Len(d) /\ GoodVals(g, d, v) /\ n > 0
        <3>1. n \in Nat \ {0} BY <1>1, <2>2, <2>3, DefaultsAre
        <3>2. n = Len(d) BY <2>2 DEF Size
        <3>3. GoodVals(g, d, v) BY <2>2, <2>3 DEF SavedFits
        <3> QED BY <3>1, <3>2, <3>3
    <2>5. PICK elems : elems = [i \in 1..n |-> <<d[i][1], v[i]>>] OBVIOUS
    <2>6. line = GroupLine(is_equal(g), g, elems) BY <2>1, <2>2, <2>4, <2>5 DEF SavedGroup, GroupOf
    <2>7. line.name = g /\ line.elems = elems /\ line.equal = is_equal(g)
        BY <2>6 DEF GroupLine
    <2>8. DOMAIN elems = 1..n /\ \A i \in 1..n : elems[i][1] = d[i][1] /\ elems[i][2] = v[i]
        BY <2>5
    <2>9. \A i \in 1..n : v[i] \in 0..Hi(g) /\ (d[i][2] = 0 => v[i] = 0) BY <2>4 DEF GoodVals
    <2>10. \A i \in 1..n : /\ elems[i][1] \in NamesOf(g)
                           /\ elems[i][1] = "void_prob" => elems[i][2] = 0
        <3>1. \A i \in 1..n : d[i][1] = "void_prob" => d[i][2] = 0
            BY <1>1, <2>2, <2>3, NamesDiffer DEF Name, Base
        <3>2. NamesOf(g) = {Name(g, i) : i \in 1..n} BY <2>2, <2>3, AllComplete
        <3> QED BY <2>2, <2>8, <2>9, <3>1, <3>2 DEF Name
    <2>11. elems # << >> BY <2>4, <2>8
    <2>12. g \in DOMAIN prob \ {"single"} BY <1>1, <2>3
    <2>13. setup_group_probabilities(is_equal(g), g, elems)
        <3>1. CASE is_equal(g)
            <4>1. Hi(g) = 1 /\ is_equal(g) = TRUE BY <3>1 DEF Hi
            <4>2. \A i \in 1..n : parse_single_elem(TRUE, g, elems[i])
                BY <2>8, <2>9, <2>10, <4>1 DEF parse_single_elem
            <4>3. 1 \in {elems[i][2] : i \in DOMAIN elems} BY <2>4, <2>8, <3>1 DEF GoodVals
            <4>4. setup_group_probabilities(TRUE, g, elems)
                BY <2>8, <2>12, <4>2, <4>3 DEF setup_group_probabilities
            <4> QED BY <4>1, <4>4
        <3>2. CASE ~is_equal(g)
            <4>1. Hi(g) = 100 /\ is_equal(g) = FALSE /\ g = "statement" BY <2>3, <3>2 DEF Hi, is_equal
            <4>2. \A i \in 1..n : parse_single_elem(FALSE, g, elems[i])
                BY <2>8, <2>9, <2>10, <4>1 DEF parse_single_elem
            <4>3. 100 \in {elems[i][2] : i \in DOMAIN elems} BY <2>4, <2>8, <4>1 DEF GoodVals
            <4>4. \A j, i \in DOMAIN elems : elems[j][2] = elems[i][2] /\ elems[j][2] > 0 => j = i
                BY <2>4, <2>8, <4>1 DEF GoodVals
            <4>5. setup_group_probabilities(FALSE, g, elems)
                BY <2>8, <2>12, <4>2, <4>3, <4>4 DEF setup_group_probabilities
            <4> QED BY <4>1, <4>5
        <3> QED BY <3>1, <3>2
    <2>14. setup_group_probabilities(line.equal, line.name, line.elems)
        BY <2>7, <2>13
    <2> QED BY <1>3, <2>7, <2>11, <2>14 DEF Refused
<1> QED BY <1>2, <1>3 DEF Refused

LEMMA TailHas ==
    ASSUME NEW T, NEW file \in Seq(T), file # None
    PROVE  /\ Head(file) \in T /\ Tail(file) \in Seq(T)
           /\ \A x : In(file, x) => x = Head(file) \/ In(Tail(file), x)
<1>1. file # << >> BY DEF None
<1>2. /\ Head(file) \in T /\ Tail(file) \in Seq(T) /\ Len(Tail(file)) = Len(file) - 1
      /\ \A i \in 1..Len(Tail(file)) : Tail(file)[i] = file[i + 1]
    BY <1>1, HeadTailProperties
<1>3. Len(file) \in Nat /\ Head(file) = file[1] BY <1>1, LenProperties
<1>4. ASSUME NEW x, In(file, x) PROVE x = Head(file) \/ In(Tail(file), x)
    <2>1. PICK j \in 1..Len(file) : file[j] = x BY <1>4 DEF In
    <2>2. CASE j = 1 BY <1>3, <2>1, <2>2
    <2>3. CASE j # 1
        <3>1. j - 1 \in 1..Len(Tail(file)) /\ (j - 1) + 1 = j BY <1>2, <1>3, <2>3
        <3>2. Tail(file)[j - 1] = x BY <1>2, <2>1, <3>1
        <3> QED BY <3>1, <3>2 DEF In
    <2> QED BY <2>2, <2>3
<1> QED BY <1>2, <1>4

\* The names of what was saved are those of the defaults: a line of a dump is about one
\* element, and gives it the value it was saved with.
LEMMA TrueGives ==
    ASSUME Setup, phase # "init", SavedFits, NEW line \in TrueLines,
           NEW g \in Group, NEW elems, Gives(line, g, elems), NEW r,
           StoredIn(r, prob[g], Size(g), elems)
    PROVE  /\ \A i \in 1..Size(g) : r[i].val \in {prob[g][i].val, saved[g][i]}
           /\ g # "single" => \A i \in 1..Size(g) : r[i].val = saved[g][i]
           /\ \A i \in 1..Size("single") :
                  line = SavedSingle(i) => g = "single" /\ r[i].val = saved[g][i]
           /\ \A k \in 2..6 : line = SavedGroup(k) => g = Groups[k]
<1>1. opt \in Options BY DEF Setup
<1>2. PICK n, s, v, d : n = Size(g) /\ s = prob[g] /\ v = saved[g] /\ d = Defaults(g) OBVIOUS
<1>3. /\ n \in Nat /\ n = Len(d) /\ \A i \in 1..n : s[i].name = d[i][1]
    BY <1>2, AllComplete DEF Name
<1>4. \A i, j \in 1..n : d[i][1] = d[j][1] => i = j BY <1>1, <1>2, NamesDiffer DEF Name
<1>5. \A i \in 1..n : \/ /\ \A k \in DOMAIN elems : elems[k][1] # s[i].name
                         /\ r[i].val = s[i].val
                      \/ \E k \in DOMAIN elems : elems[k][1] = s[i].name /\ r[i].val = elems[k][2]
    BY <1>2 DEF StoredIn
<1>6. CASE line.kind = "comment"
    <2>1. elems = << >> /\ g = "single" BY <1>6 DEF Gives
    <2>2. \A i \in 1..n : r[i].val = s[i].val BY <1>5, <2>1
    <2>3. \A i : line # SavedSingle(i) BY <1>6 DEF SavedSingle, SingleOf, SingleLine
    <2>4. \A k : line # SavedGroup(k) BY <1>6 DEF SavedGroup, GroupOf, GroupLine
    <2> QED BY <1>2, <2>1, <2>2, <2>3, <2>4
<1>7. CASE line.kind = "single"
    <2>1. PICK i0 \in 1..Size("single") : line = SavedSingle(i0) BY <1>1, <1>7, TrueFormed
    <2>2. g = "single" BY <1>7 DEF Gives
    <2>3. line.name = d[i0][1] /\ line.val = v[i0] /\ i0 \in 1..n
        BY <1>2, <2>1, <2>2 DEF SavedSingle, SingleOf, SingleLine
    <2>4. v[i0] \in 0..100
        <3>1. GoodVals(g, d, v) BY <1>2 DEF SavedFits
        <3>2. Hi(g) = 100 BY <2>2 DEF Hi, is_equal
        <3> QED BY <1>3, <2>3, <3>1, <3>2 DEF GoodVals
    <2>5. elems = << <<line.name, line.val>> >>
        <3>1. elems = IF line.val = -1 THEN << >> ELSE << <<line.name, line.val>> >> BY <1>7 DEF Gives
        <3>2. line.val # -1 BY <2>3, <2>4
        <3> QED BY <3>1, <3>2
    <2>6. DOMAIN elems = {1} /\ elems[1][1] = d[i0][1] /\ elems[1][2] = v[i0] BY <2>3, <2>5
    <2>7. \A i \in 1..n : r[i].val = IF i = i0 THEN v[i] ELSE s[i].val
        BY <1>3, <1>4, <1>5, <2>3, <2>6
    <2>8. ASSUME NEW i \in 1..Size("single"), line = SavedSingle(i) PROVE i = i0
        <3>1. line.name = d[i][1] /\ i \in 1..n
            BY <1>2, <2>2, <2>8 DEF SavedSingle, SingleOf, SingleLine
        <3> QED BY <1>4, <2>3, <3>1
    <2>9. \A k : line # SavedGroup(k) BY <1>7 DEF SavedGroup, GroupOf, GroupLine
    <2> QED BY <1>2, <2>2, <2>3, <2>7, <2>8, <2>9
<1>8. CASE line.kind = "group"
    <2>1. PICK k0 \in 2..6 : line = SavedGroup(k0) BY <1>1, <1>8, TrueFormed
    <2>2. g = line.name /\ elems = line.elems BY <1>8 DEF Gives
    <2>3. g = Groups[k0] BY <2>1, <2>2 DEF SavedGroup, GroupOf, GroupLine
    <2>4. elems = [i \in 1..n |-> <<d[i][1], v[i]>>]
        BY <1>2, <1>3, <2>1, <2>2, <2>3 DEF SavedGroup, GroupOf, GroupLine
    <2>5. DOMAIN elems = 1..n /\ \A i \in 1..n : elems[i][1] = d[i][1] /\ elems[i][2] = v[i]
        BY <2>4
    <2>6. \A i \in 1..n : r[i].val = v[i] BY <1>3, <1>4, <1>5, <2>5
    <2>7. \A i : line # SavedSingle(i) BY <1>8 DEF SavedSingle, SingleOf, SingleLine
    <2>8. \A k \in 2..6 : line = SavedGroup(k) => g = Groups[k]
        <3> SUFFICES ASSUME NEW k \in 2..6, line = SavedGroup(k) PROVE line.name = Groups[k]
            BY <2>2
        <3> QED BY DEF SavedGroup, GroupOf, GroupLine
    <2> QED BY <1>2, <2>6, <2>7, <2>8
<1> QED BY <1>6, <1>7, <1>8, <1>1, TrueFormed DEF Formed

\* A line is read, or stops the program.
LEMMA ParseStep ==
    ASSUME PInv, parse_line
    PROVE  PInv'
<1>1. Setup /\ phase = "parse" /\ conf # None /\ opt \in Options
    BY DEF PInv, Setup, parse_line
<1>2. PICK line : line = Head(conf) OBVIOUS
<1>3. \/ byHand /\ saved = None /\ conf \in Seq(Lines)
      \/ ~byHand /\ saved # None /\ conf \in Seq(TrueLines) /\ SavedFits
    BY <1>1 DEF PInv, File, Saved
<1>4. Formed(line) /\ (~byHand => line \in TrueLines)
    <2>1. CASE byHand
        <3>1. line \in Lines BY <1>1, <1>2, <1>3, <2>1, TailHas
        <3> QED BY <2>1, <3>1, HandFormed
    <2>2. CASE ~byHand
        <3>1. line \in TrueLines BY <1>1, <1>2, <1>3, <2>2, TailHas
        <3> QED BY <1>1, <1>3, <2>2, <3>1, TrueFormed
    <2> QED BY <2>1, <2>2
<1>5. /\ UNCHANGED <<opt, mode, cur, byHand, saved, table, last>>
      /\ \/ phase' = "abort" /\ prob' = prob /\ conf' = conf /\ Refused(line)
         \/ /\ phase' = "parse" /\ conf' = Tail(conf)
            /\ \E g \in Group : \E elems :
                   /\ Gives(line, g, elems)
                   /\ prob' = [prob EXCEPT ![g] = StoreOf(prob[g], elems)]
    BY <1>1, <1>2, <1>4, ParseEffect
<1>6. \A g \in Group : /\ Elements(Defaults(g), Size(g), prob[g]) /\ Size(g) \in Nat
                       /\ Size(g) = Len(Defaults(g))
                       /\ Defaults(g)' = Defaults(g) /\ Size(g)' = Size(g)
    BY <1>1, <1>5, AllComplete, Fixed
<1>7. \A k \in 1..6 : Groups[k] \in Group /\ Done(k)' = TRUE /\ Filled(k)' = Size(Groups[k])
    <2>1. phase' # "init" BY <1>5
    <2> QED BY <1>6, <2>1, GroupsAre DEF Done, Filled
<1>8. phase' \in {"parse", "abort"} /\ mode' = mode /\ cur' = cur /\ byHand' = byHand BY <1>5
<1>9. ASSUME prob' = [g \in Group |-> prob'[g]],
             \A g \in Group : Elements(Defaults(g), Size(g), prob'[g])
      PROVE  Setup' /\ Drawing' /\ AsDefault'
    <2>1. \A k \in 1..6 : Elements(Defaults(Groups[k])', Filled(k)', prob'[Groups[k]])
        BY <1>6, <1>7, <1>9
    <2>2. \A k \in 1..6 : k = cur'.g => cur'.i <= Size(Groups[k])' + 1
        BY <1>6, <1>7, <1>8 DEF PInv, Setup
    <2>3. Setup'
        <3>1. /\ opt' \in Options /\ byHand' \in BOOLEAN
              /\ mode' \in [kind : {"run", "dump_default", "dump_random"}, rr : BOOLEAN, focus : {mode'.focus}]
              /\ byHand' => mode'.kind = "run" /\ ~mode'.rr
              /\ cur' \in [g : 1..6, i : Nat \ {0}, invalid : {cur'.invalid}, low : {cur'.low}, high : {cur'.high}]
            BY <1>1, <1>5, <1>8 DEF Setup
        <3>2. mode'.kind = "run" BY <1>1, <1>8 DEF Setup
        <3> QED BY <1>8, <1>9, <2>1, <2>2, <3>1, <3>2 DEF Setup
    <2>4. Drawing' /\ AsDefault' BY <1>8 DEF Drawing, AsDefault
    <2> QED BY <2>3, <2>4
<1>10. /\ \A i : SavedSingle(i)' = SavedSingle(i)
       /\ \A k \in 2..6 : SavedGroup(k)' = SavedGroup(k) /\ Size(Groups[k])' = Size(Groups[k])
       /\ TrueLines' = TrueLines /\ SavedFits' = SavedFits /\ Size("single")' = Size("single")
    BY <1>5, SavedFixed
<1>11. CASE phase' = "abort" /\ prob' = prob /\ conf' = conf /\ Refused(line)
    <2>1. byHand BY <1>1, <1>3, <1>4, <1>11, TrueAccepted
    <2>2. Setup' /\ Drawing' /\ AsDefault'
        <3>1. prob' = [g \in Group |-> prob'[g]] BY <1>11 DEF PInv, Setup
        <3> QED BY <1>6, <1>9, <1>11, <3>1
    <2>3. GoodGroups' /\ Saved' /\ NoAbort'
        BY <1>3, <1>5, <1>8, <1>11, <2>1 DEF GoodGroups, Saved, NoAbort
    <2>4. File' BY <1>3, <1>5, <1>11, <2>1 DEF File
    <2>5. Decided' BY <1>1, <1>5, <1>11 DEF PInv, Decided
    <2> QED BY <2>2, <2>3, <2>4, <2>5 DEF PInv
<1>12. ASSUME phase' = "parse", conf' = Tail(conf), NEW g \in Group, NEW elems,
              Gives(line, g, elems), prob' = [prob EXCEPT ![g] = StoreOf(prob[g], elems)]
       PROVE  PInv'
    <2>1. PICK r, s, d, n : r = StoreOf(prob[g], elems) /\ s = prob[g] /\ d = Defaults(g) /\ n = Size(g)
        OBVIOUS
    <2>2. /\ prob'[g] = r /\ \A h \in Group : h # g => prob'[h] = prob[h]
          /\ prob' = [h \in Group |-> prob'[h]]
        BY <1>12, <2>1 DEF PInv, Setup
    <2>3. Elements(d, n, r) /\ StoredIn(r, s, n, elems)
        <3>1. PICK m \in Nat : DOMAIN elems = 1..m /\ \A k \in 1..m : elems[k][2] \in 0..100
            BY <1>4, <1>12, GivenValues
        <3>2. Elements(d, n, s) /\ n \in Nat BY <1>6, <2>1
        <3> QED BY <2>1, <3>1, <3>2, StoredWell
    <2>4. Setup' /\ Drawing' /\ AsDefault'
        <3>1. \A h \in Group : Elements(Defaults(h), Size(h), prob'[h])
            BY <1>6, <2>1, <2>2, <2>3
        <3> QED BY <1>9, <2>2, <3>1
    <2>5. CASE byHand
        <3>1. GoodGroups' /\ Saved' /\ NoAbort'
            BY <1>3, <1>5, <1>8, <1>12, <2>5 DEF GoodGroups, Saved, NoAbort
        <3>2. File'
            <4>1. Tail(conf) \in Seq(Lines) BY <1>1, <1>3, <2>5, TailHas
            <4> QED BY <1>3, <1>5, <1>12, <2>5, <4>1 DEF File
        <3> QED BY <2>4, <3>1, <3>2, <1>1, <1>5, <1>12 DEF PInv, Decided
    <2>6. CASE ~byHand
        <3>1. PICK v : v = saved[g] OBVIOUS
        <3>2. SavedFits /\ saved # None /\ line \in TrueLines /\ GoodVals(g, d, v)
            BY <1>3, <1>4, <2>1, <2>6, <3>1 DEF SavedFits
        <3>3. /\ \A i \in 1..n : r[i].val \in {s[i].val, v[i]}
              /\ g # "single" => \A i \in 1..n : r[i].val = v[i]
              /\ \A i \in 1..Size("single") :
                     line = SavedSingle(i) => g = "single" /\ r[i].val = saved[g][i]
              /\ \A k \in 2..6 : line = SavedGroup(k) => g = Groups[k]
            <4>1. StoredIn(r, prob[g], Size(g), elems) /\ phase # "init" BY <1>1, <2>1, <2>3
            <4>2. /\ \A i \in 1..Size(g) : r[i].val \in {prob[g][i].val, saved[g][i]}
                  /\ g # "single" => \A i \in 1..Size(g) : r[i].val = saved[g][i]
                  /\ \A i \in 1..Size("single") :
                         line = SavedSingle(i) => g = "single" /\ r[i].val = saved[g][i]
                  /\ \A k \in 2..6 : line = SavedGroup(k) => g = Groups[k]
                BY <1>1, <1>12, <3>2, <4>1, TrueGives
            <4> QED BY <2>1, <3>1, <4>2
        <3>4. n = Len(d) /\ v = [i \in 1..n |-> v[i]] BY <1>6, <2>1, <3>1, <3>2 DEF SavedFits
        <3>5. GoodVals(g, d, ValsIn(n, r))
            <4>1. CASE g # "single"
                <5>1. ValsIn(n, r) = v BY <3>3, <3>4, <4>1 DEF ValsIn
                <5> QED BY <3>2, <5>1
            <4>2. CASE g = "single"
                <5>1. PICK k \in 1..6 : Groups[k] = g BY GroupsAre
                <5>2. GoodVals(g, d, ValsIn(n, s))
                    BY <1>1, <2>1, <2>6, <5>1 DEF PInv, GoodGroups, Done
                <5>3. \A i \in 1..n : s[i].val \in 0..Hi(g) /\ (d[i][2] = 0 => s[i].val = 0)
                    BY <3>4, <5>2 DEF GoodVals, ValsIn
                <5>4. \A i \in 1..n : v[i] \in 0..Hi(g) /\ (d[i][2] = 0 => v[i] = 0)
                    BY <3>2, <3>4 DEF GoodVals
                <5>5. \A i \in 1..n : r[i].val \in 0..Hi(g) /\ (d[i][2] = 0 => r[i].val = 0)
                    BY <3>3, <5>3, <5>4
                <5> QED BY <3>4, <4>2, <5>5 DEF GoodVals, ValsIn, is_equal
            <4> QED BY <4>1, <4>2
        <3>6. GoodGroups'
            <4> SUFFICES ASSUME NEW k \in 1..6
                         PROVE  GoodVals(Groups[k], Defaults(Groups[k])',
                                         ValsIn(Size(Groups[k])', prob'[Groups[k]]))
                BY DEF GoodGroups
            <4>1. CASE Groups[k] = g BY <1>6, <1>7, <2>1, <2>2, <3>5, <4>1
            <4>2. CASE Groups[k] # g
                <5>1. GoodVals(Groups[k], Defaults(Groups[k]), ValsIn(Size(Groups[k]), prob[Groups[k]]))
                    BY <1>1, <2>6 DEF PInv, GoodGroups, Done
                <5> QED BY <1>6, <1>7, <2>2, <4>2, <5>1
            <4> QED BY <4>1, <4>2
        <3>7. Tail(conf) \in Seq(TrueLines) /\ \A x : In(conf, x) => x = line \/ In(Tail(conf), x)
            BY <1>1, <1>2, <1>3, <2>6, TailHas
        <3>8. ASSUME NEW i \in 1..Size("single"), ~In(Tail(conf), SavedSingle(i))
              PROVE  prob'["single"][i].val = saved["single"][i]
            <4>1. "single" \in Group BY DEF Group
            <4>2. CASE line = SavedSingle(i) BY <2>2, <3>3, <4>2
            <4>3. CASE line # SavedSingle(i)
                <5>1. prob["single"][i].val = saved["single"][i]
                    BY <1>3, <2>6, <3>7, <3>8, <4>3 DEF PInv, Saved
                <5>2. CASE g = "single"
                    BY <2>1, <2>2, <3>1, <3>3, <5>1, <5>2
                <5>3. CASE g # "single" BY <2>2, <4>1, <5>1, <5>3
                <5> QED BY <5>2, <5>3
            <4> QED BY <4>2, <4>3
        <3>9. ASSUME NEW k \in 2..6, ~In(Tail(conf), SavedGroup(k))
              PROVE  ValsIn(Size(Groups[k]), prob'[Groups[k]]) = saved[Groups[k]]
            <4>1. Groups[k] \in Group /\ Groups[k] # "single"
                <5>1. k \in 1..6 /\ k # 1 /\ 1 \in 1..6 OBVIOUS
                <5> QED BY <5>1, GroupsAre
            <4>2. CASE g = Groups[k]
                <5>1. ValsIn(n, r) = v BY <3>3, <3>4, <4>1, <4>2 DEF ValsIn
                <5> QED BY <2>1, <2>2, <3>1, <4>2, <5>1
            <4>3. CASE g # Groups[k]
                <5>1. ~In(conf, SavedGroup(k)) BY <3>3, <3>7, <3>9, <4>3
                <5>2. ValsIn(Size(Groups[k]), prob[Groups[k]]) = saved[Groups[k]]
                    BY <1>3, <2>6, <5>1 DEF PInv, Saved, HasRead
                <5> QED BY <2>2, <4>1, <4>3, <5>2
            <4> QED BY <4>2, <4>3
        <3>10. Saved'
            <4> SUFFICES ASSUME saved' # None
                         PROVE  /\ mode'.kind = "run" /\ ~byHand' /\ SavedFits'
                                /\ conf' \in Seq(TrueLines')
                                /\ \A i \in 1..Size("single")' :
                                       In(conf', SavedSingle(i)')
                                       \/ (phase' # "init" /\ prob'["single"][i].val = saved'["single"][i])
                                /\ \A k \in 2..6 :
                                       \/ In(conf', SavedGroup(k)')
                                       \/ /\ phase' # "init"
                                          /\ ValsIn(Size(Groups[k])', prob'[Groups[k]]) = saved'[Groups[k]]
                BY DEF Saved, HasRead
            <4>1. mode'.kind = "run" /\ ~byHand' /\ SavedFits' /\ conf' \in Seq(TrueLines')
                BY <1>3, <1>8, <1>10, <1>12, <2>6, <3>2, <3>7 DEF PInv, Saved
            <4>2. \A i \in 1..Size("single")' :
                      In(conf', SavedSingle(i)')
                      \/ (phase' # "init" /\ prob'["single"][i].val = saved'["single"][i])
                BY <1>5, <1>10, <1>12, <3>8
            <4>3. \A k \in 2..6 :
                      \/ In(conf', SavedGroup(k)')
                      \/ /\ phase' # "init"
                         /\ ValsIn(Size(Groups[k])', prob'[Groups[k]]) = saved'[Groups[k]]
                BY <1>5, <1>10, <1>12, <3>9
            <4> QED BY <4>1, <4>2, <4>3
        <3>11. File' /\ NoAbort' BY <1>5, <1>12, <2>6, <3>2 DEF File, NoAbort
        <3>12. Decided' BY <1>1, <1>5, <1>12 DEF PInv, Decided
        <3> QED BY <2>4, <3>6, <3>10, <3>11, <3>12 DEF PInv
    <2> QED BY <2>5, <2>6
<1> QED BY <1>5, <1>11, <1>12


-----------------------------------------------------------------------------
(* The choices.                                                            *)

\* A step that leaves the probabilities and the file alone, and does not begin anew.
LEMMA KeepRest ==
    ASSUME Setup, Drawing, AsDefault, GoodGroups, Saved,
           UNCHANGED <<opt, mode, prob, cur, conf, byHand, saved>>,
           phase' = phase \/ (phase \in {"parse", "run"} /\ phase' \in {"run", "abort"})
    PROVE  Setup' /\ Drawing' /\ AsDefault' /\ GoodGroups' /\ Saved'
<1>1. opt \in Options BY DEF Setup
<1>2. /\ \A i : SavedSingle(i)' = SavedSingle(i)
      /\ \A k \in 2..6 : SavedGroup(k)' = SavedGroup(k)
      /\ \A k \in 1..6 : Size(Groups[k])' = Size(Groups[k])
      /\ TrueLines' = TrueLines /\ SavedFits' = SavedFits /\ Size("single")' = Size("single")
    BY SavedFixed
<1>3. \A k \in 1..6 : /\ Groups[k] \in Group
                      /\ Defaults(Groups[k])' = Defaults(Groups[k])
                      /\ Filled(k)' = Filled(k) /\ Done(k)' = Done(k)
    <2>1. \A k \in 1..6 : Groups[k] \in Group BY GroupsAre
    <2>2. (phase' # "init") = (phase # "init") OBVIOUS
    <2>3. \A k \in 1..6 : Done(k)' = Done(k) BY <2>2 DEF Done
    <2> QED BY <1>2, <2>1, <2>3, Fixed DEF Filled
<1>4. Setup'
    <2>1. \A k \in 1..6 : Elements(Defaults(Groups[k])', Filled(k)', prob'[Groups[k]])
        BY <1>3 DEF Setup
    <2>2. \A k \in 1..6 : k = cur'.g => cur'.i <= Size(Groups[k])' + 1 BY <1>2 DEF Setup
    <2> QED BY <2>1, <2>2 DEF Setup
<1>5. Drawing'
    <2> SUFFICES ASSUME NEW k \in 1..6, phase' = "init" /\ k = cur'.g
                 PROVE  /\ InRange(Groups[k], Defaults(Groups[k])', cur'.i - 1, prob'[Groups[k]])
                        /\ Groups[k] = "statement" /\ random_random' =>
                               Apart(cur'.i - 1, prob'[Groups[k]], cur'.invalid)
        BY DEF Drawing
    <2> QED BY <1>3 DEF Drawing, random_random
<1>6. AsDefault'
    <2> SUFFICES ASSUME phase' \in {"init", "dump"}, ~random_random', NEW k \in 1..6
                 PROVE  AsBase(Defaults(Groups[k])', Filled(k)', prob'[Groups[k]])
        BY DEF AsDefault
    <2> QED BY <1>3 DEF AsDefault, random_random
<1>7. GoodGroups'
    <2> SUFFICES ASSUME NEW k \in 1..6, Done(k)', phase' \in {"init", "dump"} \/ ~byHand'
                 PROVE  GoodVals(Groups[k], Defaults(Groups[k])',
                                 ValsIn(Size(Groups[k])', prob'[Groups[k]]))
        BY DEF GoodGroups
    <2> QED BY <1>2, <1>3 DEF GoodGroups
<1>8. Saved'
    <2> SUFFICES ASSUME saved' # None
                 PROVE  /\ mode'.kind = "run" /\ ~byHand' /\ SavedFits'
                        /\ conf' \in Seq(TrueLines')
                        /\ \A i \in 1..Size("single")' :
                               In(conf', SavedSingle(i)')
                               \/ (phase' # "init" /\ prob'["single"][i].val = saved'["single"][i])
                        /\ \A k \in 2..6 :
                               \/ In(conf', SavedGroup(k)')
                               \/ /\ phase' # "init"
                                  /\ ValsIn(Size(Groups[k])', prob'[Groups[k]]) = saved'[Groups[k]]
        BY DEF Saved, HasRead
    <2> QED BY <1>2 DEF Saved, HasRead
<1> QED BY <1>4, <1>5, <1>6, <1>7, <1>8

LEMMA QuestionsAre ==
    /\ opt' = opt /\ prob' = prob => Questions' = Questions
    /\ \A q \in Questions : \/ q.ask = "statement"
                            \/ q.ask \in {"expr", "param", "assign", "hip_statement", "vector"}
                            \/ q.ask = "equal" /\ q.group \in DOMAIN prob
                            \/ q.ask = "redraw"
<1>1. ASSUME opt' = opt, prob' = prob PROVE Questions' = Questions
    <2>1. On("float")' = On("float") BY <1>1 DEF On
    <2>2. {op \in {"Mod", "Div"} : Redrawable(op)}' = {op \in {"Mod", "Div"} : Redrawable(op)}
        <3>1. EqualChoice([group |-> "binary", float |-> FALSE])'
              = EqualChoice([group |-> "binary", float |-> FALSE])
            BY <1>1 DEF EqualChoice, NamesOf, ValueOf
        <3> QED BY <3>1 DEF Redrawable
    <2> QED BY <1>1, <2>1, <2>2, Zenon DEF Questions
<1>2. ASSUME NEW q \in Questions
      PROVE  \/ q.ask = "statement"
             \/ q.ask \in {"expr", "param", "assign", "hip_statement", "vector"}
             \/ q.ask = "equal" /\ q.group \in DOMAIN prob
             \/ q.ask = "redraw"
    BY <1>2 DEF Questions
<1> QED BY <1>1, <1>2

LEMMA AllowedKept ==
    ASSUME opt' = opt, prob' = prob, NEW q, NEW x, Allowed(q, x), last' = <<q, x>>
    PROVE  Allowed(last[1], last[2])'
<1>1. \A g \in Group : HasValue(g, x)' <=> HasValue(g, x)
    <2>1. \A g \in Group : Size(g)' = Size(g) BY Fixed
    <2> QED BY <2>1 DEF HasValue
<1>2. "statement" \in Group BY DEF Group
<1>3. SwitchedOn(x)' <=> SwitchedOn(x) BY DEF SwitchedOn, On, Switched
<1>4. On("compound_assignment")' <=> On("compound_assignment") BY DEF On
<1>5. Allowed(q, x)' BY <1>1, <1>2, <1>3, <1>4 DEF Allowed
<1>6. last'[1] = q /\ last'[2] = x OBVIOUS
<1> QED BY <1>5, <1>6 DEF Allowed, HasValue, SwitchedOn

\* The numbers of the statements once the file is read, unless it was written by hand.
LEMMA StatementList ==
    ASSUME Setup, GoodGroups, phase # "init", ~byHand
    PROVE  /\ Len(prob["statement"]) = 10 /\ Size("statement") = 10
           /\ DOMAIN prob["statement"] = 1..10 /\ "statement" \in Group
           /\ \A i \in 1..10 : /\ prob["statement"][i].val \in 0..100
                               /\ prob["statement"][i].name = Name("statement", i)
           /\ \E i \in 1..10 : prob["statement"][i].val = 100
           /\ \A i, j \in 1..10 :
                  prob["statement"][i].val = prob["statement"][j].val /\ prob["statement"][i].val > 0 => i = j
<1>1. "statement" \in Group BY DEF Group
<1>2. PICK s : s = prob["statement"] OBVIOUS
<1>3. opt \in Options BY DEF Setup
<1>4. Size("statement") = 10 BY <1>1, <1>3, DefaultsAre
<1>5. /\ Elements(Defaults("statement"), 10, s) /\ DOMAIN s = 1..10 /\ Len(Defaults("statement")) = 10
      /\ \A i \in 1..10 : s[i].name = Name("statement", i)
    BY <1>1, <1>2, <1>4, AllComplete
<1>6. Len(s) = 10 /\ \A i \in 1..10 : s[i].val \in 0..100
    <2>1. PICK d : d = Defaults("statement") OBVIOUS
    <2>2. /\ DOMAIN s = 1..10 /\ Len(s) = 10
          /\ \A i \in 1..10 : /\ s[i].name = d[i][1] /\ s[i].def = d[i][2]
                              /\ s[i] = [name |-> d[i][1], def |-> d[i][2], val |-> s[i].val]
                              /\ s[i].val \in 0..100
        <3>1. Elements(d, 10, s) /\ 10 \in Nat BY <1>5, <2>1
        <3> QED BY <3>1, ElementsOf
    <2> QED BY <2>2
<1>7. GoodVals("statement", Defaults("statement"), ValsIn(10, s))
    <2>1. PICK k \in 1..6 : Groups[k] = "statement" BY <1>1, GroupsAre
    <2> QED BY <1>2, <1>4, <2>1 DEF GoodGroups, Done
<1>8. /\ \E i \in 1..10 : s[i].val = 100
      /\ \A i, j \in 1..10 : s[i].val = s[j].val /\ s[i].val > 0 => i = j
    BY <1>5, <1>7 DEF GoodVals, ValsIn
<1> QED BY <1>1, <1>2, <1>4, <1>5, <1>6, <1>8

LEMMA StutterStep ==
    ASSUME PInv, UNCHANGED vars
    PROVE  PInv'
<1>1. /\ UNCHANGED <<opt, mode, prob, cur, conf, byHand, saved>>
      /\ phase' = phase /\ table' = table /\ last' = last
    BY DEF vars
<1>2. Setup' /\ Drawing' /\ AsDefault' /\ GoodGroups' /\ Saved' BY <1>1, KeepRest DEF PInv
<1>3. TrueLines' = TrueLines /\ Questions' = Questions BY <1>1, SavedFixed, QuestionsAre
<1>4. File' /\ NoAbort' BY <1>1 DEF PInv, File, NoAbort
<1>5. Decided'
    <2>1. last # None /\ Allowed(last[1], last[2]) => Allowed(last[1], last[2])'
        <3> SUFFICES ASSUME last # None, Allowed(last[1], last[2]) PROVE Allowed(last[1], last[2])'
            OBVIOUS
        <3>1. PICK q, x : q = last[1] /\ x = last[2] OBVIOUS
        <3>2. last' = <<q, x>> BY <1>1, <3>1 DEF PInv, Decided
        <3> QED BY <1>1, <3>1, <3>2, AllowedKept
    <2>2. set_prob_table(prob["statement"])' = set_prob_table(prob["statement"]) BY <1>1
    <2> QED BY <1>1, <1>3, <2>1, <2>2 DEF PInv, Decided
<1> QED BY <1>2, <1>4, <1>5 DEF PInv

\* The file is read to its end.
LEMMA EndParseStep ==
    ASSUME PInv, EndParse
    PROVE  PInv'
<1>1. /\ UNCHANGED <<opt, mode, prob, cur, conf, byHand, saved>> /\ phase = "parse" /\ conf = None
      /\ phase' = "run" /\ table' = table /\ last' = last
    BY DEF EndParse
<1>2. Setup' /\ Drawing' /\ AsDefault' /\ GoodGroups' /\ Saved' BY <1>1, KeepRest DEF PInv
<1>3. table = None /\ last = None BY <1>1 DEF PInv, Decided
<1>4. File' /\ NoAbort' BY <1>1 DEF PInv, File, NoAbort
<1>5. Decided' BY <1>1, <1>3 DEF Decided
<1> QED BY <1>2, <1>4, <1>5 DEF PInv

LEMMA TableStep ==
    ASSUME PInv, InitProbabilityTable
    PROVE  PInv'
<1>1. /\ UNCHANGED <<opt, mode, prob, cur, conf, byHand, saved>>
      /\ phase = "run" /\ phase' = "run" /\ last' = last /\ table = None
      /\ table' = set_prob_table(prob["statement"])
    BY DEF InitProbabilityTable
<1>2. Setup' /\ Drawing' /\ AsDefault' /\ GoodGroups' /\ Saved' BY <1>1, KeepRest DEF PInv
<1>3. last = None BY <1>1 DEF PInv, Decided
<1>4. File' /\ NoAbort' BY <1>1 DEF PInv, File, NoAbort
<1>5. Decided'
    <2>1. set_prob_table(prob["statement"])' = set_prob_table(prob["statement"]) BY <1>1
    <2> QED BY <1>1, <1>3, <2>1 DEF Decided
<1> QED BY <1>2, <1>4, <1>5 DEF PInv

LEMMA AskStep ==
    ASSUME PInv, Ask
    PROVE  PInv'
<1>1. /\ UNCHANGED <<opt, mode, prob, cur, conf, byHand, saved>>
      /\ phase = "run" /\ phase' = "run" /\ table' = table /\ table # None
    BY DEF Ask
<1>2. PICK q \in Questions : last' = <<q, "rolling">> BY DEF Ask
<1>3. Setup' /\ Drawing' /\ AsDefault' /\ GoodGroups' /\ Saved' BY <1>1, KeepRest DEF PInv
<1>4. File' /\ NoAbort' BY <1>1 DEF PInv, File, NoAbort
<1>5. Decided'
    <2>1. set_prob_table(prob["statement"])' = set_prob_table(prob["statement"]) BY <1>1
    <2>2. Questions' = Questions BY <1>1, QuestionsAre
    <2>3. last' = <<last'[1], last'[2]>> /\ last'[1] \in Questions' /\ last'[2] = "rolling"
        BY <1>2, <2>2
    <2> QED BY <1>1, <2>1, <2>3 DEF PInv, Decided
<1> QED BY <1>3, <1>4, <1>5 DEF PInv

\* Every roll for a choice is in its table, and what it finds is on.
LEMMA AnswerGood ==
    ASSUME PInv, Rolling, NEW x \in Answers(last[1]), ~byHand
    PROVE  x # "assert" /\ Allowed(last[1], x)
<1>1. PICK q : q = last[1] OBVIOUS
<1>2. /\ phase = "run" /\ Setup /\ GoodGroups /\ q \in Questions /\ opt \in Options
      /\ table = set_prob_table(prob["statement"])
    BY <1>1 DEF Rolling, PInv, Decided, Setup
<1>3. /\ Len(prob["statement"]) = 10 /\ "statement" \in Group /\ Size("statement") = 10
      /\ \A i \in 1..10 : /\ prob["statement"][i].val \in 0..100
                          /\ prob["statement"][i].name = Name("statement", i)
      /\ \E i \in 1..10 : prob["statement"][i].val = 100
    BY <1>2, StatementList
<1>4. CASE q.ask = "statement"
    <2>1. PICK list : list = prob["statement"] OBVIOUS
    <2>2. /\ \A v \in 0..99 : InTable(v)
          /\ \A v \in 0..99 : \E i \in 1..10 : list[i].val > 0 /\ list[i].name = get_value(v)
        <3>1. /\ Len(list) = 10 /\ 10 \in Nat /\ (\A i \in 1..10 : list[i].val \in 0..100)
              /\ (\E i \in 1..10 : list[i].val = 100) /\ table = set_prob_table(list)
            BY <1>2, <1>3, <2>1
        <3>2. /\ \A v \in 0..99 : InTable(v)
              /\ \A v \in 0..99 : \E i \in 1..10 : list[i].val > 0 /\ list[i].name = get_value(v)
              /\ (\A i, j \in 1..10 : list[i].val = list[j].val /\ list[i].val > 0 => i = j) =>
                     \A i \in 1..10 : list[i].val > 0 => get_value(list[i].val - 1) = list[i].name
            BY <3>1, TableFinds
        <3> QED BY <3>2
    <2>3. x \in StatementProbability(q) BY <1>1, <1>4 DEF Answers
    <2>4. PICK v \in 0..99 : x = get_value(v) BY <2>2, <2>3 DEF StatementProbability
    <2>5. PICK i \in 1..10 : list[i].val > 0 /\ list[i].name = x BY <2>2, <2>4
    <2>6. x # "assert"
        <3>1. x = Name("statement", i) /\ i \in 1..Size("statement") BY <1>3, <2>1, <2>5
        <3>2. Name("statement", i) # "assert" BY <1>2, <1>3, <3>1, NamesDiffer
        <3> QED BY <3>1, <3>2
    <2>7. HasValue("statement", x)
        <3>1. prob["statement"][i].val # 0 BY <1>3, <2>1, <2>5
        <3> QED BY <1>3, <2>1, <2>5, <3>1 DEF HasValue
    <2> QED BY <1>1, <1>4, <2>6, <2>7 DEF Allowed
<1>5. CASE q.ask = "equal" /\ q.group \in DOMAIN prob
    <2>1. q.group \in Group BY <1>2, <1>5 DEF Setup
    <2>2. x \in NamesOf(q.group) BY <1>1, <1>5 DEF Answers, EqualChoice
    <2>3. NamesOf(q.group) = {Name(q.group, i) : i \in 1..Size(q.group)}
        BY <1>2, <2>1, AllComplete
    <2>4. x # "assert" BY <1>2, <2>1, <2>2, <2>3, NamesDiffer
    <2>5. ValueOf(q.group, x) # 0 BY <1>1, <1>5 DEF Answers, EqualChoice
    <2>6. HasValue(q.group, x)
        <3>1. DOMAIN prob[q.group] = 1..Size(q.group) BY <1>2, <2>1, AllComplete
        <3>2. \E i \in DOMAIN prob[q.group] : prob[q.group][i].name = x BY <2>2 DEF NamesOf
        <3>3. PICK j : j = CHOOSE i \in DOMAIN prob[q.group] : prob[q.group][i].name = x OBVIOUS
        <3>4. j \in 1..Size(q.group) /\ prob[q.group][j].name = x BY <3>1, <3>2, <3>3
        <3>5. prob[q.group][j].val # 0 BY <2>5, <3>3 DEF ValueOf
        <3> QED BY <3>4, <3>5 DEF HasValue
    <2> QED BY <1>1, <1>5, <2>1, <2>4, <2>6 DEF Allowed
<1>6. CASE q.ask \in {"expr", "param", "assign", "hip_statement", "vector"}
    <2>1. /\ Key(x)
          /\ q.ask = "assign" /\ ~On("compound_assignment") => x = "SimpleAssign"
        BY <1>1, <1>6, AnswersInTable
    <2> QED BY <1>1, <1>6, <2>1 DEF Key, Allowed
<1>7. CASE q.ask = "redraw"
    <2>1. "binary" \in Group BY DEF Group
    <2>2. x \in NamesOf("binary") BY <1>1, <1>7 DEF Answers, Redraw
    <2>3. NamesOf("binary") = {Name("binary", i) : i \in 1..Size("binary")}
        BY <1>2, <2>1, AllComplete
    <2>4. x # "assert" BY <1>2, <2>1, <2>2, <2>3, NamesDiffer
    <2> QED BY <1>1, <1>7, <2>4 DEF Allowed
<1> QED BY <1>2, <1>4, <1>5, <1>6, <1>7, QuestionsAre

LEMMA AnswerStep ==
    ASSUME PInv, Answer
    PROVE  PInv'
<1>1. PICK x \in Answers(last[1]) :
          IF x = "assert" THEN Abort
          ELSE last' = <<last[1], x>> /\ UNCHANGED <<opt, mode, phase, prob, cur, conf, byHand, saved, table>>
    BY DEF Answer
<1>2. Rolling /\ phase = "run" /\ last # None BY DEF Answer, Rolling
<1>3. /\ UNCHANGED <<opt, mode, prob, cur, conf, byHand, saved, table>>
      /\ \/ phase' = "abort" /\ last' = last /\ x = "assert"
         \/ phase' = "run" /\ last' = <<last[1], x>>
    BY <1>1, <1>2 DEF Abort
<1>4. Setup' /\ Drawing' /\ AsDefault' /\ GoodGroups' /\ Saved' BY <1>2, <1>3, KeepRest DEF PInv
<1>5. byHand \/ (x # "assert" /\ Allowed(last[1], x))
    BY <1>2, AnswerGood
<1>6. File' /\ NoAbort' BY <1>2, <1>3, <1>5 DEF PInv, File, NoAbort
<1>7. Decided'
    <2>1. set_prob_table(prob["statement"])' = set_prob_table(prob["statement"]) BY <1>3
    <2>2. Questions' = Questions BY <1>3, QuestionsAre
    <2>5. CASE phase' = "abort" /\ last' = last
        <3>1. Allowed(last[1], last[2]) => Allowed(last[1], last[2])'
            <4>1. PICK q, y : q = last[1] /\ y = last[2] OBVIOUS
            <4>2. last' = <<q, y>> BY <1>2, <2>5, <4>1 DEF PInv, Decided
            <4> QED BY <1>3, <4>1, <4>2, AllowedKept
        <3> QED BY <1>3, <2>1, <2>2, <2>5, <3>1 DEF PInv, Decided
    <2>6. CASE phase' = "run" /\ last' = <<last[1], x>>
        <3>1. last' = <<last'[1], last'[2]>> /\ last'[1] = last[1] /\ last'[2] = x BY <2>6
        <3>2. table' # None /\ table' = set_prob_table(prob["statement"])' /\ last'[1] \in Questions'
            BY <1>2, <1>3, <2>1, <2>2, <3>1 DEF PInv, Decided
        <3>3. Allowed(last[1], x) => Allowed(last[1], last[2])'
            <4>1. PICK q : q = last[1] OBVIOUS
            <4>2. last' = <<q, x>> BY <2>6, <4>1
            <4> QED BY <1>3, <4>1, <4>2, AllowedKept
        <3> QED BY <1>3, <1>5, <2>6, <3>1, <3>2, <3>3 DEF Decided
    <2> QED BY <1>3, <2>5, <2>6
<1> QED BY <1>4, <1>6, <1>7 DEF PInv

-----------------------------------------------------------------------------
(* The theorems.                                                           *)

LEMMA InitPInv == Init => PInv
<1> SUFFICES ASSUME Init PROVE PInv OBVIOUS
<1>1. /\ opt \in Options /\ phase = "init" /\ saved = None /\ table = None /\ last = None
      /\ cur = [g |-> 1, i |-> 1, invalid |-> {0, 100}, low |-> 0, high |-> 0]
      /\ prob = [g \in Group |-> << >>]
    BY GroupsAre DEF Init, Start
<1>2. mode \in [kind : {"run", "dump_default", "dump_random"}, rr : BOOLEAN, focus : {mode.focus}]
    BY ProbabilitiesAssumption DEF Init, ModesFit
<1>3. \/ byHand = FALSE /\ conf = None
      \/ byHand = TRUE /\ conf \in Configs /\ mode.kind = "run" /\ ~mode.rr
    <2>1. conf \in (IF mode.kind = "run" /\ mode.focus = "none" /\ ~mode.rr THEN Configs ELSE {}) \cup {None}
        BY DEF Init
    <2>2. CASE conf = None
        <3>1. byHand = FALSE BY <2>2 DEF Init
        <3> QED BY <2>2, <3>1
    <2>3. CASE conf # None
        <3>1. byHand = TRUE BY <2>3 DEF Init
        <3> QED BY <2>1, <2>3, <3>1
    <2> QED BY <2>2, <2>3
<1>4. cur.g = 1 /\ cur.i = 1
      /\ cur = [g |-> cur.g, i |-> cur.i, invalid |-> cur.invalid, low |-> cur.low, high |-> cur.high]
    BY <1>1
<1>5. \A k \in 1..6 : /\ Groups[k] \in Group /\ ~Done(k) /\ Filled(k) = 0
                      /\ prob[Groups[k]] = << >> /\ Size(Groups[k]) \in Nat
    <2> SUFFICES ASSUME NEW k \in 1..6
                 PROVE  /\ Groups[k] \in Group /\ ~Done(k) /\ Filled(k) = 0
                        /\ prob[Groups[k]] = << >> /\ Size(Groups[k]) \in Nat
        OBVIOUS
    <2>1. Groups[k] \in Group BY GroupsAre
    <2>2. ~Done(k) BY <1>1, <1>4 DEF Done
    <2>3. Filled(k) = 0 BY <1>4, <2>2 DEF Filled
    <2>4. prob[Groups[k]] = << >> BY <1>1, <2>1
    <2> QED BY <1>1, <2>1, <2>2, <2>3, <2>4, DefaultsAre
<1>6. Setup
    <2>1. \A k \in 1..6 : Elements(Defaults(Groups[k]), Filled(k), prob[Groups[k]])
        <3>1. \A d : Elements(d, 0, << >>) BY DEF Elements
        <3> QED BY <1>5, <3>1
    <2>2. \A k \in 1..6 : k = cur.g => cur.i <= Size(Groups[k]) + 1 BY <1>4, <1>5
    <2>3. prob = [g \in Group |-> prob[g]] BY <1>1
    <2>4. cur \in [g : 1..6, i : Nat \ {0}, invalid : {cur.invalid}, low : {cur.low}, high : {cur.high}]
        BY <1>4
    <2>5. byHand \in BOOLEAN /\ (byHand => mode.kind = "run" /\ ~mode.rr) BY <1>3
    <2> QED BY <1>1, <1>2, <2>1, <2>2, <2>3, <2>4, <2>5 DEF Setup
<1>7. Drawing
    <2> SUFFICES ASSUME NEW k \in 1..6, k = cur.g
                 PROVE  /\ InRange(Groups[k], Defaults(Groups[k]), cur.i - 1, prob[Groups[k]])
                        /\ Groups[k] # "statement"
        BY DEF Drawing
    <2>1. k = 1 /\ cur.i - 1 = 0 /\ Groups[1] = "single" BY <1>4, GroupsAre
    <2>2. 1..0 = {} OBVIOUS
    <2> QED BY <2>1, <2>2 DEF InRange
<1>8. AsDefault
    <2>1. \A d, s : AsBase(d, 0, s) BY DEF AsBase
    <2> QED BY <1>5, <2>1 DEF AsDefault
<1>9. GoodGroups BY <1>5 DEF GoodGroups
<1>10. Saved /\ Decided /\ NoAbort BY <1>1 DEF Saved, Decided, NoAbort
<1>11. File
    <2>1. Configs \subseteq Seq(Lines) BY ProbabilitiesAssumption
    <2> QED BY <1>1, <1>3, <2>1 DEF File
<1> QED BY <1>6, <1>7, <1>8, <1>9, <1>10, <1>11 DEF PInv

LEMMA NextPInv == PInv /\ [Next]_vars => PInv'
<1> SUFFICES ASSUME PInv, [Next]_vars PROVE PInv' OBVIOUS
<1>1. CASE InitElem BY <1>1, InitElemStep
<1>2. CASE EndGroup BY <1>2, EndGroupStep
<1>3. CASE dump_default_probabilities \/ dump_actual_probabilities BY <1>3, DumpStep
<1>4. CASE parse_line BY <1>4, ParseStep
<1>5. CASE EndParse BY <1>5, EndParseStep
<1>6. CASE InitProbabilityTable BY <1>6, TableStep
<1>7. CASE Ask BY <1>7, AskStep
<1>8. CASE Answer BY <1>8, AnswerStep
<1>9. CASE UNCHANGED vars BY <1>9, StutterStep
<1> QED BY <1>1, <1>2, <1>3, <1>4, <1>5, <1>6, <1>7, <1>8, <1>9 DEF Next

LEMMA PInvHolds == Spec => []PInv
<1> QED BY InitPInv, NextPInv, PTL DEF Spec

\* The values that a dump wrote are those of the run that reads the file, whatever was
\* drawn by either: output and parse_configuration (Probabilities.cpp) are inverses for
\* every set of options and every sequence of draws.
THEOREM RoundTripHolds == Spec => []RoundTrip
<1>1. PInv => RoundTrip
    <2> SUFFICES ASSUME PInv, saved # None, phase = "run" PROVE Vals = saved BY DEF RoundTrip
    <2>1. conf = None /\ SavedFits /\ Setup BY DEF PInv, File, Saved
    <2>2. \A x : ~In(conf, x) BY <2>1 DEF In, None
    <2>3. DOMAIN prob = Group /\ "single" \in Group BY <2>1 DEF Setup, Group
    <2>4. \A g \in Group : /\ DOMAIN prob[g] = 1..Size(g)
                           /\ saved[g] = [i \in 1..Size(g) |-> saved[g][i]]
        <3>1. \A g \in Group : DOMAIN prob[g] = 1..Size(g) BY <2>1, AllComplete
        <3>2. \A g \in Group : saved[g] = [i \in 1..Size(g) |-> saved[g][i]]
            BY <2>1 DEF SavedFits
        <3> QED BY <3>1, <3>2
    <2>5. ASSUME NEW g \in Group PROVE Vals[g] = saved[g]
        <3>1. Vals[g] = [i \in 1..Size(g) |-> prob[g][i].val] BY <2>3, <2>4 DEF Vals
        <3>2. PICK k \in 1..6 : Groups[k] = g BY GroupsAre
        <3>3. CASE k = 1
            <4>1. g = "single" BY <3>2, <3>3, GroupsAre
            <4>2. \A i \in 1..Size("single") : prob["single"][i].val = saved["single"][i]
                BY <2>2 DEF PInv, Saved
            <4> QED BY <2>4, <3>1, <4>1, <4>2
        <3>4. CASE k # 1
            <4>1. k \in 2..6 BY <3>4
            <4>2. HasRead(Groups[k], Size(Groups[k])) BY <2>2, <4>1 DEF PInv, Saved
            <4> QED BY <3>1, <3>2, <4>2 DEF HasRead, ValsIn
        <3> QED BY <3>3, <3>4
    <2>6. saved = [g \in Group |-> saved[g]] BY <2>1 DEF SavedFits
    <2>7. Vals = [g \in Group |-> Vals[g]] BY <2>3 DEF Vals
    <2> QED BY <2>5, <2>6, <2>7
<1> QED BY <1>1, PInvHolds, PTL

\* What an option switches off has the number 0 after every random initialization, dump
\* and parse; StatementProbability and the filter of a group of equal elements never
\* return it, and Expression::make_random, make_random_param and AssignOpsProbability
\* never a term or an operator of their tables that is switched off.
THEOREM OffStaysOffHolds == Spec => []OffStaysOff
<1>1. PInv => OffStaysOff
    <2> SUFFICES ASSUME PInv, phase = "run", ~byHand PROVE OffStaysOff BY DEF OffStaysOff
    <2>1. Setup /\ DOMAIN prob = Group BY DEF PInv, Setup
    <2>2. ASSUME NEW g \in Group, NEW i \in 1..Size(g)
          PROVE  prob[g][i].def = Base(g, i) /\ (Base(g, i) = 0 => prob[g][i].val = 0)
        <3>1. PICK k \in 1..6 : Groups[k] = g BY GroupsAre
        <3>2. GoodVals(g, Defaults(g), ValsIn(Size(g), prob[g])) BY <3>1 DEF PInv, GoodGroups, Done
        <3>3. Size(g) = Len(Defaults(g)) /\ prob[g][i].def = Base(g, i) BY <2>1, <2>2, AllComplete
        <3>4. Base(g, i) = 0 => ValsIn(Size(g), prob[g])[i] = 0
            BY <2>2, <3>2, <3>3 DEF GoodVals, Base
        <3> QED BY <2>2, <3>3, <3>4 DEF ValsIn
    <2>3. ASSUME NEW g \in DOMAIN prob, NEW i \in DOMAIN prob[g], prob[g][i].def = 0
          PROVE  prob[g][i].val = 0
        <3>1. g \in Group /\ DOMAIN prob[g] = 1..Size(g) BY <2>1, AllComplete
        <3> QED BY <2>2, <2>3, <3>1
    <2>4. ASSUME NEW g \in Group, NEW x, HasValue(g, x) PROVE OnInGroup(g, x)
        <3>1. PICK i \in 1..Size(g) : prob[g][i].name = x /\ prob[g][i].val # 0 BY <2>4 DEF HasValue
        <3>2. i \in DOMAIN prob[g] BY <2>1, <3>1, AllComplete
        <3>3. prob[g][i].def # 0 BY <2>2, <3>1
        <3> QED BY <3>1, <3>2, <3>3 DEF OnInGroup
    <2>5. ASSUME last # None, last[2] # "rolling"
          PROVE  /\ last[1].ask = "statement" => OnInGroup("statement", last[2])
                 /\ last[1].ask = "equal" => OnInGroup(last[1].group, last[2])
                 /\ last[1].ask \in {"expr", "param", "assign"} => SwitchedOn(last[2])
                 /\ last[1].ask = "assign" /\ ~On("compound_assignment") => last[2] = "SimpleAssign"
        <3>1. Allowed(last[1], last[2]) BY <2>5 DEF PInv, Decided
        <3>2. "statement" \in Group BY DEF Group
        <3> QED BY <2>4, <3>1, <3>2 DEF Allowed
    <2> QED BY <2>3, <2>5 DEF OffStaysOff
<1> QED BY <1>1, PInvHolds, PTL

\* A file in which each member of a group has one value, in the brackets of its group,
\* leaves the number 100 to some statement.
LEMMA ParseByHand ==
    ASSUME PInv, ByHand, byHand, parse_line
    PROVE  ByHand'
<1>1. Setup /\ phase = "parse" /\ conf # None /\ opt \in Options /\ conf \in Seq(Lines)
    BY DEF PInv, Setup, File, parse_line
<1>2. PICK line : line = Head(conf) OBVIOUS
<1>3. line \in Lines /\ line = conf[1] /\ Len(conf) \in Nat \ {0}
      /\ Len(Tail(conf)) = Len(conf) - 1
      /\ \A n \in 1..Len(Tail(conf)) : Tail(conf)[n] = conf[n + 1]
    <2>1. conf # << >> BY <1>1 DEF None
    <2> QED BY <1>1, <1>2, <2>1, HeadTailProperties, LenProperties, ElementOfSeq
<1>4. /\ UNCHANGED <<opt, byHand>>
      /\ \/ phase' = "abort" /\ prob' = prob /\ conf' = conf
         \/ /\ phase' = "parse" /\ conf' = Tail(conf)
            /\ \E g \in Group : \E elems :
                   /\ Gives(line, g, elems)
                   /\ prob' = [prob EXCEPT ![g] = StoreOf(prob[g], elems)]
    BY <1>1, <1>2, <1>3, HandFormed, ParseEffect
<1>5. Size("statement")' = Size("statement") /\ "statement" \in Group
    <2>1. "statement" \in Group BY DEF Group
    <2> QED BY <1>4, <2>1, Fixed
<1>6. PICK m \in 1..Size("statement") : prob["statement"][m].val = 100 BY <1>1 DEF ByHand
<1>7. CASE phase' = "abort" /\ prob' = prob /\ conf' = conf BY <1>4, <1>5, <1>6, <1>7 DEF ByHand
<1>8. ASSUME conf' = Tail(conf), NEW g \in Group, NEW elems, Gives(line, g, elems),
             prob' = [prob EXCEPT ![g] = StoreOf(prob[g], elems)]
      PROVE  ByHand'
    <2>1. \A n \in 1..Len(conf') : WellWritten(conf'[n])
        <3>1. ASSUME NEW n \in 1..Len(Tail(conf)) PROVE WellWritten(Tail(conf)[n])
            <4>1. n + 1 \in 1..Len(conf) BY <1>3
            <4> QED BY <1>3, <4>1 DEF ByHand
        <3> QED BY <1>8, <3>1
    <2>2. WellWritten(line)
        <3>1. 1 \in 1..Len(conf) BY <1>3
        <3> QED BY <1>3, <3>1 DEF ByHand
    <2>3. \E i \in 1..Size("statement") : prob'["statement"][i].val = 100
        <3>1. CASE g # "statement" BY <1>6, <1>8, <3>1
        <3>2. CASE g = "statement"
            <4>1. line.kind = "group" /\ line.name = g /\ line.elems = elems
                  /\ setup_group_probabilities(line.equal, g, elems)
                BY <1>8, <3>2 DEF Gives
            <4>2. line.equal = FALSE
                <5>1. line.equal = is_equal(g) BY <2>2, <4>1 DEF WellWritten
                <5>2. ~is_equal(g) BY <3>2 DEF is_equal
                <5>3. line.equal \in BOOLEAN BY <1>3, <4>1 DEF Lines
                <5> QED BY <5>1, <5>2, <5>3
            <4>3. \A j, k \in DOMAIN elems : elems[j][1] = elems[k][1] => j = k
                BY <2>2, <4>1 DEF WellWritten
            <4>4. setup_group_probabilities(FALSE, g, elems) BY <4>1, <4>2
            <4>5. PICK k \in DOMAIN elems : elems[k][2] = 100
                BY <4>4 DEF setup_group_probabilities
            <4>6. elems[k][1] \in NamesOf(g)
                BY <4>4 DEF setup_group_probabilities, parse_single_elem
            <4>7. PICK i \in 1..Size(g) : prob[g][i].name = elems[k][1]
                BY <1>1, <4>6, AllComplete DEF NamesOf
            <4>8. StoredIn(StoreOf(prob[g], elems), prob[g], Size(g), elems)
                <5>1. PICK n \in Nat : DOMAIN elems = 1..n /\ \A j \in 1..n : elems[j][2] \in 0..100
                    BY <1>3, <1>8, HandFormed, GivenValues
                <5>2. Elements(Defaults(g), Size(g), prob[g]) /\ Size(g) \in Nat
                    BY <1>1, AllComplete
                <5> QED BY <5>1, <5>2, StoredWell
            <4>9. StoreOf(prob[g], elems)[i].val = 100 BY <4>3, <4>5, <4>7, <4>8 DEF StoredIn
            <4>10. prob'["statement"][i].val = 100
                <5>1. g \in DOMAIN prob BY <1>1 DEF Setup
                <5> QED BY <1>8, <3>2, <4>9, <5>1
            <4> QED BY <3>2, <4>10
        <3> QED BY <3>1, <3>2
    <2> QED BY <1>5, <2>1, <2>3 DEF ByHand
<1> QED BY <1>4, <1>7, <1>8

LEMMA NextByHand == PInv /\ ByHand /\ [Next]_vars => ByHand'
<1> SUFFICES ASSUME PInv, ByHand, [Next]_vars, byHand' PROVE ByHand' BY DEF ByHand
<1>1. byHand' = byHand
    <2>1. CASE parse_line
        <3>1. Setup /\ phase = "parse" /\ conf # None /\ opt \in Options
            BY <2>1 DEF PInv, Setup, parse_line
        <3>2. Formed(Head(conf))
            <4>1. CASE byHand
                <5>1. conf \in Seq(Lines) BY <4>1 DEF PInv, File
                <5> QED BY <3>1, <5>1, TailHas, HandFormed
            <4>2. CASE ~byHand
                <5>1. conf \in Seq(TrueLines) /\ SavedFits BY <3>1, <4>2 DEF PInv, File, Saved
                <5>2. Head(conf) \in TrueLines BY <3>1, <5>1, TailHas
                <5> QED BY <3>1, <5>1, <5>2, TrueFormed
            <4> QED BY <4>1, <4>2
        <3> QED BY <2>1, <3>1, <3>2, ParseEffect
    <2>2. CASE ~parse_line
        BY <2>2 DEF Next, InitElem, EndGroup, dump_default_probabilities, dump_actual_probabilities,
               Dump, Abort, EndParse, InitProbabilityTable, Ask, Answer, vars
    <2> QED BY <2>1, <2>2
<1>2. byHand BY <1>1
<1>3. "statement" \in Group BY DEF Group
<1>4. CASE InitElem
    <2>1. phase' = "init" /\ conf' = conf BY <1>4 DEF InitElem
    <2> QED BY <1>2, <2>1 DEF ByHand
<1>5. CASE EndGroup
    <2>1. conf' = conf /\ opt' = opt /\ phase = "init" BY <1>5 DEF EndGroup
    <2>2. ASSUME phase' # "init"
          PROVE  \E i \in 1..Size("statement")' : prob'["statement"][i].val = 100
        <3>1. cur.g = 6 /\ Groups[6] = "size" /\ Groups[2] = "statement" /\ Len(Groups) = 6
            <4>1. cur.g \in 1..6 BY DEF PInv, Setup
            <4>2. ~(cur.g < Len(Groups)) BY <1>5, <2>1, <2>2 DEF EndGroup
            <4> QED BY <4>1, <4>2 DEF Groups
        <3>2. prob'["statement"] = prob["statement"] BY <1>5, <3>1 DEF EndGroup
        <3>3. GoodVals("statement", Defaults("statement"), ValsIn(Size("statement"), prob["statement"]))
            <4>1. Done(2) /\ 2 \in 1..6 BY <3>1 DEF Done
            <4> QED BY <2>1, <3>1, <4>1 DEF PInv, GoodGroups
        <3>4. \E i \in 1..Size("statement") : prob["statement"][i].val = 100
            BY <3>3 DEF GoodVals, ValsIn, Size
        <3>5. Size("statement")' = Size("statement") BY <1>3, <2>1, Fixed
        <3> QED BY <3>2, <3>4, <3>5
    <2> QED BY <1>2, <2>1, <2>2 DEF ByHand
<1>6. CASE dump_default_probabilities \/ dump_actual_probabilities
    <2>1. mode.kind # "run" BY <1>6 DEF dump_default_probabilities, dump_actual_probabilities
    <2> QED BY <1>2, <2>1 DEF PInv, Setup
<1>7. CASE parse_line BY <1>2, <1>7, ParseByHand
<1>8. CASE EndParse \/ InitProbabilityTable \/ Ask \/ Answer \/ UNCHANGED vars
    <2>1. UNCHANGED <<opt, prob, conf>>
        BY <1>8 DEF EndParse, InitProbabilityTable, Ask, Answer, Abort, vars
    <2>2. phase' = phase \/ phase # "init"
        BY <1>8 DEF EndParse, InitProbabilityTable, Ask, Answer, Rolling, vars
    <2>3. Size("statement")' = Size("statement") BY <1>3, <2>1, Fixed
    <2> QED BY <1>2, <2>1, <2>2, <2>3 DEF ByHand
<1> QED BY <1>4, <1>5, <1>6, <1>7, <1>8 DEF Next

\* Of files written by hand, those give each member of a group one value, in the brackets
\* of its group; then, whatever their values: every probability is a percentage, no assertion
\* fails but for what the file says (ProbabilityTable's among them, on each of the 100
\* rolls), and without such a file each statement that is on is rolled.
THEOREM AcceptedHolds ==
    ASSUME \A c \in Configs : \A n \in 1..Len(c) : WellWritten(c[n])
    PROVE  Spec => []Accepted
<1>1. Init => PInv /\ ByHand
    <2>1. Init => ByHand
        <3> SUFFICES ASSUME Init, byHand PROVE ByHand BY DEF ByHand
        <3>1. conf # None BY DEF Init
        <3>2. conf \in Configs BY <3>1 DEF Init
        <3> QED BY <3>2 DEF Init, ByHand
    <2> QED BY <2>1, InitPInv
<1>2. PInv /\ ByHand /\ [Next]_vars => (PInv /\ ByHand)' BY NextPInv, NextByHand
<1>3. PInv => TypeOK
    <2> SUFFICES ASSUME PInv PROVE TypeOK OBVIOUS
    <2>1. DOMAIN prob = Group /\ opt \in Options /\ phase \in {"init", "dump", "parse", "run", "abort"}
        BY DEF PInv, Setup
    <2>2. ASSUME NEW g \in DOMAIN prob, NEW i \in DOMAIN prob[g]
          PROVE  prob[g][i].val \in 0..(IF is_equal(g) /\ ~byHand THEN 1 ELSE 100)
        <3>1. PICK k \in 1..6 : Groups[k] = g BY <2>1, GroupsAre
        <3>2. PICK n, d, s : n = Filled(k) /\ d = Defaults(g) /\ s = prob[g] OBVIOUS
        <3>3. Elements(d, n, s) BY <3>1, <3>2 DEF PInv, Setup
        <3>4. s = [j \in 1..n |-> s[j]] BY <3>3 DEF Elements
        <3>5. i \in 1..n BY <2>2, <3>2, <3>4
        <3>6. s[i].val \in 0..100 BY <3>3, <3>5 DEF Elements
        <3>7. ASSUME is_equal(g), ~byHand PROVE s[i].val \in 0..1
            <4>1. Hi(g) = 1 BY <3>7 DEF Hi
            <4>2. CASE Done(k)
                <5>1. GoodVals(g, d, ValsIn(Size(g), s))
                    BY <3>1, <3>2, <3>7, <4>2 DEF PInv, GoodGroups
                <5>2. n = Size(g) /\ Size(g) = Len(d) BY <3>1, <3>2, <4>2 DEF Filled, Size
                <5> QED BY <3>5, <4>1, <5>1, <5>2 DEF GoodVals, ValsIn
            <4>3. CASE ~Done(k)
                <5>1. k = cur.g /\ n = cur.i - 1 BY <3>2, <3>5, <4>3 DEF Filled
                <5>2. InRange(g, d, n, s) BY <3>1, <3>2, <4>3, <5>1 DEF PInv, Drawing, Done
                <5> QED BY <3>5, <4>1, <5>2 DEF InRange
            <4> QED BY <4>2, <4>3
        <3> QED BY <3>2, <3>6, <3>7
    <2> QED BY <2>1, <2>2 DEF TypeOK
<1>4. PInv /\ ByHand => TableCovers
    <2> SUFFICES ASSUME PInv, ByHand, phase = "run", table # None
                 PROVE  /\ \A v \in 0..99 : InTable(v)
                        /\ ~byHand => {get_value(v) : v \in 0..99} =
                               {x \in NamesOf("statement") : ValueOf("statement", x) # 0}
        BY DEF TableCovers
    <2>1. PICK list : list = prob["statement"] OBVIOUS
    <2>2. /\ Setup /\ opt \in Options /\ table = set_prob_table(list) /\ "statement" \in Group
        BY <2>1 DEF PInv, Decided, Setup, Group
    <2>3. /\ Len(list) = 10 /\ Size("statement") = 10 /\ DOMAIN list = 1..10
          /\ \A i \in 1..10 : list[i].val \in 0..100 /\ list[i].name = Name("statement", i)
        <3>1. Size("statement") = 10 BY <2>2, DefaultsAre
        <3>2. Elements(Defaults("statement"), 10, list) /\ DOMAIN list = 1..10
              /\ \A i \in 1..10 : list[i].name = Name("statement", i)
            BY <2>1, <2>2, <3>1, AllComplete
        <3>3. PICK d : d = Defaults("statement") OBVIOUS
        <3>4. /\ DOMAIN list = 1..10 /\ Len(list) = 10
              /\ \A i \in 1..10 : /\ list[i].name = d[i][1] /\ list[i].def = d[i][2]
                                  /\ list[i] = [name |-> d[i][1], def |-> d[i][2], val |-> list[i].val]
                                  /\ list[i].val \in 0..100
            <4>1. Elements(d, 10, list) /\ 10 \in Nat BY <3>2, <3>3
            <4> QED BY <4>1, ElementsOf
        <3> QED BY <3>1, <3>2, <3>4
    <2>4. \E i \in 1..10 : list[i].val = 100
        <3>1. CASE byHand BY <2>1, <2>3, <3>1 DEF ByHand
        <3>2. CASE ~byHand BY <2>1, <2>2, <3>2, StatementList DEF PInv
        <3> QED BY <3>1, <3>2
    <2>5. /\ \A v \in 0..99 : InTable(v)
          /\ \A v \in 0..99 : \E i \in 1..10 : list[i].val > 0 /\ list[i].name = get_value(v)
          /\ (\A i, j \in 1..10 : list[i].val = list[j].val /\ list[i].val > 0 => i = j) =>
                 \A i \in 1..10 : list[i].val > 0 => get_value(list[i].val - 1) = list[i].name
        <3>1. /\ Len(list) = 10 /\ 10 \in Nat /\ (\A i \in 1..10 : list[i].val \in 0..100)
              /\ (\E i \in 1..10 : list[i].val = 100) /\ table = set_prob_table(list)
            BY <2>2, <2>3, <2>4
        <3> QED BY <3>1, TableFinds
    <2>6. ASSUME ~byHand
          PROVE  {get_value(v) : v \in 0..99} =
                     {x \in NamesOf("statement") : ValueOf("statement", x) # 0}
        <3>1. \A i, j \in 1..10 : list[i].val = list[j].val /\ list[i].val > 0 => i = j
            BY <2>1, <2>2, <2>6, StatementList DEF PInv
        <3>2. NamesOf("statement") = {list[i].name : i \in 1..10} BY <2>1, <2>3 DEF NamesOf
        <3>3. ASSUME NEW i \in 1..10 PROVE ValueOf("statement", list[i].name) = list[i].val
            <4>1. \A j \in 1..10 : list[j].name = list[i].name => j = i
                <5>1. \A j, k \in 1..Size("statement") : Name("statement", j) = Name("statement", k) => j = k
                    BY <2>2, NamesDiffer
                <5>2. SUFFICES ASSUME NEW j \in 1..10, list[j].name = list[i].name PROVE j = i
                    OBVIOUS
                <5>3. /\ j \in 1..Size("statement") /\ i \in 1..Size("statement")
                      /\ Name("statement", j) = Name("statement", i)
                    BY <2>3, <5>2
                <5> QED BY <5>1, <5>3
            <4>2. (CHOOSE j \in 1..10 : list[j].name = list[i].name) = i BY <4>1
            <4> QED BY <2>1, <2>3, <4>2 DEF ValueOf
        <3>4. ASSUME NEW v \in 0..99
              PROVE  get_value(v) \in NamesOf("statement") /\ ValueOf("statement", get_value(v)) # 0
            <4>1. PICK i \in 1..10 : list[i].val > 0 /\ list[i].name = get_value(v) BY <2>5
            <4>2. ValueOf("statement", get_value(v)) = list[i].val BY <3>3, <4>1
            <4> QED BY <3>2, <4>1, <4>2
        <3>5. ASSUME NEW x \in NamesOf("statement"), ValueOf("statement", x) # 0
              PROVE  \E v \in 0..99 : x = get_value(v)
            <4>1. PICK i \in 1..10 : x = list[i].name BY <3>2
            <4>2. list[i].val \in 0..100 /\ list[i].val # 0 BY <2>3, <3>3, <3>5, <4>1
            <4>3. get_value(list[i].val - 1) = x
                <5>1. list[i].val > 0
                    <6>1. \A w \in 0..100 : w # 0 => w > 0 OBVIOUS
                    <6> QED BY <4>2, <6>1
                <5>2. \A j \in 1..10 : list[j].val > 0 => get_value(list[j].val - 1) = list[j].name
                    BY <2>5, <3>1
                <5> QED BY <4>1, <5>1, <5>2
            <4>4. list[i].val - 1 \in 0..99 BY <4>2
            <4> QED BY <4>3, <4>4
        <3> QED BY <3>4, <3>5
    <2> QED BY <2>5, <2>6
<1>5. PInv /\ ByHand => Accepted BY <1>3, <1>4 DEF PInv, Accepted
<1> QED BY <1>1, <1>2, <1>5, PTL DEF Spec

=============================================================================
