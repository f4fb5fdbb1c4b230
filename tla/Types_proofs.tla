---------------------------- MODULE Types_proofs ----------------------------
(***************************************************************************)
(* Proofs about Types for all command lines and all bounds.                *)
(***************************************************************************)
EXTENDS Types, SequenceTheorems, TLAPS

-----------------------------------------------------------------------------
(* Vectors of qualifiers.                                                  *)

\* Types over the aggregates ids.
TypesOver(ids) ==
    {t \in [kind : {"simple", "agg"}, id : Nat, stars : Nat] : t.kind = "agg" => t.id \in ids}

\* No pointer has a flag that the options o do not give to pointers.
Scalar(o, q) ==
    \A i \in 2..Len(q) : /\ q[i].c => o.const_pointers
                         /\ q[i].v => o.volatile_pointers /\ o.global_variables

\* The qualifiers a declaration of type t may have: a flag pair per level, and no volatile
\* object whose class, not in ok, cannot be assigned then.
Quals(o, ok, t) ==
    {q \in Vectors(t.stars + 1) : Scalar(o, q) /\ (q[1].v /\ t.kind = "agg" => t.id \in ok)}

\* dst = src is a legal conversion of pointers, and both show the storage alike.
Agrees(dst, src) == Converts(dst, src) /\ (Len(dst) > 1 => dst[1].v = src[1].v)

\* Two vectors that differ in the declared object at most.
SameBelow(a, b) == Len(a) = Len(b) /\ \A i \in 1..(Len(a) - 1) : a[i] = b[i]

LEMMA VectorSeq ==
    ASSUME NEW n \in Nat, NEW q \in Vectors(n)
    PROVE  q \in Seq(Flags) /\ Len(q) = n /\ \A i \in 1..n : q[i] \in Flags
<1>1. q \in Seq(Flags) BY DEF Vectors
<1> QED BY <1>1 DEF Vectors

LEMMA VectorOf ==
    ASSUME NEW n \in Nat, NEW q \in Seq(Flags), Len(q) = n
    PROVE  q \in Vectors(n)
BY DEF Vectors

LEMMA NotWildcard ==
    ASSUME NEW n \in Nat \ {0}, NEW q \in Vectors(n)
    PROVE  q # Wildcard
BY VectorSeq DEF Wildcard

LEMMA UpdateTop ==
    ASSUME NEW n \in Nat \ {0}, NEW q \in Vectors(n), NEW f \in Flags
    PROVE  LET r == [q EXCEPT ![n] = f]
           IN  r \in Vectors(n) /\ r[n] = f /\ SameBelow(q, r)
<1> DEFINE r == [q EXCEPT ![n] = f]
<1>1. r \in Vectors(n) /\ r[n] = f BY DEF Vectors
<1>2. \A i \in 1..(n - 1) : r[i] = q[i] BY DEF Vectors
<1>3. Len(q) = n /\ Len(r) = n BY <1>1, VectorSeq
<1> QED BY <1>1, <1>2, <1>3 DEF SameBelow

LEMMA SetTop ==
    ASSUME NEW n \in Nat \ {0}, NEW q \in Vectors(n)
    PROVE  /\ set_top(q, "c", FALSE) \in Vectors(n) /\ set_top(q, "v", FALSE) \in Vectors(n)
           /\ SameBelow(q, set_top(q, "c", FALSE)) /\ SameBelow(q, set_top(q, "v", FALSE))
           /\ ~set_top(q, "c", FALSE)[n].c /\ set_top(q, "c", FALSE)[n].v = q[n].v
           /\ ~set_top(q, "v", FALSE)[n].v /\ set_top(q, "v", FALSE)[n].c = q[n].c
<1> DEFINE qc == [q EXCEPT ![n] = [q[n] EXCEPT !.c = FALSE]]
           qv == [q EXCEPT ![n] = [q[n] EXCEPT !.v = FALSE]]
<1>1. Len(q) = n /\ q # Wildcard /\ q[n] \in Flags BY VectorSeq, NotWildcard
<1>2. set_top(q, "c", FALSE) = qc /\ set_top(q, "v", FALSE) = qv BY <1>1 DEF set_top
<1>3. /\ [q[n] EXCEPT !.c = FALSE] \in Flags /\ [q[n] EXCEPT !.v = FALSE] \in Flags
      /\ ~[q[n] EXCEPT !.c = FALSE].c /\ [q[n] EXCEPT !.c = FALSE].v = q[n].v
      /\ ~[q[n] EXCEPT !.v = FALSE].v /\ [q[n] EXCEPT !.v = FALSE].c = q[n].c
    BY <1>1 DEF Flags
<1>4. /\ qc \in Vectors(n) /\ SameBelow(q, qc) /\ qc[n] = [q[n] EXCEPT !.c = FALSE]
      /\ qv \in Vectors(n) /\ SameBelow(q, qv) /\ qv[n] = [q[n] EXCEPT !.v = FALSE]
    BY <1>3, UpdateTop
<1> QED BY <1>2, <1>3, <1>4

\* b has no flag that a does not have at the same level.
Looser(a, b) ==
    Len(b) = Len(a) /\ \A i \in 1..Len(a) : (b[i].c => a[i].c) /\ (b[i].v => a[i].v)

\* What a declaration in a context may keep: the declared object is not const when it is
\* written, nor volatile when the context is not free; nothing below it changes.
LEMMA RestrictTop ==
    ASSUME NEW n \in Nat \ {0}, NEW q \in Vectors(n), NEW w \in BOOLEAN, NEW f \in BOOLEAN
    PROVE  /\ restrict(q, w, f) \in Vectors(n)
           /\ SameBelow(q, restrict(q, w, f)) /\ Looser(q, restrict(q, w, f))
           /\ w => ~restrict(q, w, f)[n].c
           /\ ~f => ~restrict(q, w, f)[n].v
           /\ ~w /\ f => restrict(q, w, f) = q
<1> DEFINE u == IF w THEN set_top(q, "c", FALSE) ELSE q
           r == restrict(q, w, f)
<1>1. /\ u \in Vectors(n) /\ SameBelow(q, u) /\ u[n].v = q[n].v
      /\ w => ~u[n].c
      /\ ~w => u = q
    BY SetTop, VectorSeq DEF SameBelow
<1>2. r = IF f THEN u ELSE set_top(u, "v", FALSE) BY DEF restrict
<1> HIDE DEF u, r
<1>3. /\ r \in Vectors(n) /\ SameBelow(u, r)
      /\ ~f => ~r[n].v /\ r[n].c = u[n].c
      /\ f => r = u
    BY <1>1, <1>2, SetTop, VectorSeq DEF SameBelow
<1>4. Len(q) = n /\ Len(u) = n /\ Len(r) = n BY <1>1, <1>3, VectorSeq
<1>5. SameBelow(q, r) BY <1>1, <1>3, <1>4 DEF SameBelow
<1>6. (w => ~r[n].c) /\ (~f => ~r[n].v) /\ (~w /\ f => r = q) BY <1>1, <1>3
<1>7. (r[n].c => q[n].c) /\ (r[n].v => q[n].v) BY <1>1, <1>3 DEF u
<1>8. Looser(q, r)
  <2> SUFFICES ASSUME NEW i \in 1..n PROVE (r[i].c => q[i].c) /\ (r[i].v => q[i].v)
      BY <1>4 DEF Looser
  <2>1. CASE i = n BY <2>1, <1>7
  <2>2. CASE i # n BY <2>2, <1>4, <1>5 DEF SameBelow
  <2> QED BY <2>1, <2>2
<1> QED BY <1>3, <1>5, <1>6, <1>8 DEF r

LEMMA RestrictWildcard ==
    ASSUME NEW w \in BOOLEAN, NEW f \in BOOLEAN
    PROVE  restrict(Wildcard, w, f) = Wildcard
BY DEF restrict, set_top

LEMMA LooserQuals ==
    ASSUME NEW o, NEW ok, NEW t, t.stars \in Nat,
           NEW q \in Quals(o, ok, t), NEW r \in Vectors(t.stars + 1), Looser(q, r)
    PROVE  r \in Quals(o, ok, t)
<1>1. q \in Vectors(t.stars + 1) BY DEF Quals
<1>2. Len(q) = t.stars + 1 /\ Len(r) = t.stars + 1 BY <1>1, VectorSeq
<1>3. Scalar(o, r) BY <1>2 DEF Scalar, Quals, Looser
<1>4. r[1].v => q[1].v BY <1>2 DEF Looser
<1> QED BY <1>3, <1>4 DEF Quals

-----------------------------------------------------------------------------
(* Types and levels of indirection.                                        *)

LEMMA BelowType ==
    ASSUME NEW ids, NEW t \in TypesOver(ids), NEW d \in 0..t.stars
    PROVE  /\ Below(t, d) \in TypesOver(ids)
           /\ Below(t, d).stars = t.stars - d
           /\ Below(t, d).kind = t.kind /\ Below(t, d).id = t.id
BY DEF TypesOver, Below

LEMMA PtrType ==
    ASSUME NEW ids, NEW t \in TypesOver(ids)
    PROVE  /\ Ptr(t) \in TypesOver(ids)
           /\ Ptr(t).stars = t.stars + 1
           /\ Ptr(t).kind = t.kind /\ Ptr(t).id = t.id
           /\ Below(Ptr(t), 1) = t
           /\ t.stars > 0 => Ptr(Below(t, 1)) = t
<1>1. /\ Ptr(t) \in TypesOver(ids)
      /\ Ptr(t).stars = t.stars + 1
      /\ Ptr(t).kind = t.kind /\ Ptr(t).id = t.id
    BY DEF TypesOver, Ptr
<1>2. t = [kind |-> t.kind, id |-> t.id, stars |-> t.stars] /\ t.stars \in Nat BY DEF TypesOver
<1>3. Ptr(t) = [kind |-> t.kind, id |-> t.id, stars |-> t.stars + 1] BY <1>2 DEF Ptr
<1>4. Below(Ptr(t), 1) = [kind |-> t.kind, id |-> t.id, stars |-> (t.stars + 1) - 1]
    BY <1>3 DEF Below
<1>5. Below(t, 1) = [kind |-> t.kind, id |-> t.id, stars |-> t.stars - 1] BY <1>2 DEF Below
<1>6. Ptr(Below(t, 1)) = [kind |-> t.kind, id |-> t.id, stars |-> (t.stars - 1) + 1]
    BY <1>5 DEF Ptr
<1>7. (t.stars + 1) - 1 = t.stars /\ (t.stars - 1) + 1 = t.stars BY <1>2
<1> QED BY <1>1, <1>2, <1>4, <1>6, <1>7

\* Dereferencing keeps what the levels below have, taking the address adds a plain one.
LEMMA Indirect ==
    ASSUME NEW o, NEW ok, NEW ids, NEW t \in TypesOver(ids), NEW q \in Quals(o, ok, t),
           NEW d \in 0..t.stars
    PROVE  /\ indirect_qualifiers(q, d) \in Quals(o, ok, Below(t, d))
           /\ \A i \in 1..(t.stars + 1 - d) : indirect_qualifiers(q, d)[i] = q[i]
<1> DEFINE n == t.stars + 1
           r == SubSeq(q, 1, n - d)
<1>1. t.stars \in Nat BY DEF TypesOver
<1>2. q \in Vectors(n) BY DEF Quals
<1>3. q \in Seq(Flags) /\ Len(q) = n /\ q # Wildcard BY <1>1, <1>2, VectorSeq, NotWildcard
<1>4. indirect_qualifiers(q, d) = IF d = 0 THEN q ELSE r BY <1>3 DEF indirect_qualifiers
<1>5. r \in Seq(Flags) /\ Len(r) = n - d /\ \A i \in 1..(n - d) : r[i] = q[i]
    BY <1>1, <1>3, SubSeqProperties
<1>6. n \in Nat /\ d \in 0..(n - 1) /\ n - d \in Nat /\ 1 \in 1..(n - d) BY <1>1
<1>7. Below(t, d).stars + 1 = n - d /\ Below(t, d).kind = t.kind /\ Below(t, d).id = t.id
    BY <1>1, BelowType
<1>8. CASE d = 0
  <2>1. Below(t, d).stars = t.stars BY <1>1, <1>8, BelowType
  <2>2. q \in Quals(o, ok, Below(t, d)) BY <1>7, <2>1 DEF Quals
  <2> QED BY <1>4, <1>8, <2>2
<1>9. CASE d # 0
  <2>1. Scalar(o, q) BY DEF Quals
  <2> HIDE DEF n, r
  <2>2. r \in Vectors(n - d) BY <1>5, <1>6, VectorOf
  <2>3. Scalar(o, r) BY <1>3, <1>5, <1>6, <2>1 DEF Scalar
  <2>4. r[1].v => q[1].v BY <1>5, <1>6
  <2>5. r \in Quals(o, ok, Below(t, d)) BY <1>7, <2>2, <2>3, <2>4 DEF Quals
  <2>6. \A i \in 1..(t.stars + 1 - d) : r[i] = q[i] BY <1>1, <1>5 DEF n
  <2> QED BY <1>4, <1>9, <2>5, <2>6
<1> QED BY <1>8, <1>9

LEMMA AddressOf ==
    ASSUME NEW o, NEW ok, NEW ids, NEW t \in TypesOver(ids), NEW q \in Quals(o, ok, t)
    PROVE  /\ indirect_qualifiers(q, -1) = Append(q, Plain)
           /\ Append(q, Plain) \in Quals(o, ok, Ptr(t))
           /\ Len(Append(q, Plain)) = t.stars + 2
           /\ Append(q, Plain)[t.stars + 2] = Plain
           /\ \A i \in 1..(t.stars + 1) : Append(q, Plain)[i] = q[i]
<1> DEFINE n == t.stars + 1
           r == Append(q, Plain)
<1>1. t.stars \in Nat BY DEF TypesOver
<1>2. q \in Vectors(n) BY DEF Quals
<1>3. q \in Seq(Flags) /\ Len(q) = n /\ q # Wildcard BY <1>1, <1>2, VectorSeq, NotWildcard
<1>4. indirect_qualifiers(q, -1) = r BY <1>3 DEF indirect_qualifiers
<1>5. Plain \in Flags /\ ~Plain.c /\ ~Plain.v BY DEF Plain, Flags
<1>6. /\ r \in Seq(Flags) /\ Len(r) = n + 1 /\ r[n + 1] = Plain
      /\ \A i \in 1..n : r[i] = q[i]
    BY <1>1, <1>3, <1>5, AppendProperties
<1>7. Ptr(t).stars + 1 = n + 1 /\ Ptr(t).kind = t.kind /\ Ptr(t).id = t.id BY <1>1, PtrType
<1>8. n \in Nat \ {0} /\ n + 1 \in Nat BY <1>1
<1>9. Scalar(o, q) /\ (q[1].v /\ t.kind = "agg" => t.id \in ok) BY DEF Quals
<1>10. r \in Quals(o, ok, Ptr(t))
  <2> HIDE DEF n, r
  <2>1. r \in Vectors(n + 1) BY <1>6, <1>8, VectorOf
  <2>2. Scalar(o, r)
    <3> SUFFICES ASSUME NEW i \in 2..(n + 1)
                 PROVE  /\ r[i].c => o.const_pointers
                        /\ r[i].v => o.volatile_pointers /\ o.global_variables
        BY <1>6, <1>8 DEF Scalar
    <3>1. CASE i = n + 1 BY <3>1, <1>5, <1>6
    <3>2. CASE i # n + 1
      <4>1. i \in 2..n /\ i \in 1..n BY <3>2, <1>8
      <4> QED BY <4>1, <1>3, <1>6, <1>9 DEF Scalar
    <3> QED BY <3>1, <3>2
  <2>3. r[1].v => q[1].v BY <1>6, <1>8
  <2> QED BY <1>7, <1>9, <2>1, <2>2, <2>3 DEF Quals
<1>11. n + 1 = t.stars + 2 BY <1>1
<1> QED BY <1>4, <1>6, <1>10, <1>11

-----------------------------------------------------------------------------
(* The random qualifiers.                                                  *)

LEMMA MakeScalar ==
    ASSUME NEW n \in Nat \ {0}, NEW q \in Vectors(n), NEW o
    PROVE  /\ make_scalar(o, q) \in Vectors(n) /\ Looser(q, make_scalar(o, q))
           /\ Scalar(o, make_scalar(o, q))
           /\ make_scalar(o, q)[1] = q[1]
           /\ \A i \in 1..n : (q[i].c /\ (i > 1 => o.const_pointers) => make_scalar(o, q)[i].c)
                              /\ (q[i].v /\ (i > 1 => o.volatile_pointers /\ o.global_variables)
                                    => make_scalar(o, q)[i].v)
<1> DEFINE g(i) == [c |-> q[i].c /\ o.const_pointers,
                    v |-> q[i].v /\ o.volatile_pointers /\ o.global_variables]
           r == make_scalar(o, q)
<1>1. q \in Seq(Flags) /\ Len(q) = n /\ \A i \in 1..n : q[i] \in Flags BY VectorSeq
<1>2. r = [i \in 1..n |-> IF i = 1 THEN q[1] ELSE g(i)] BY <1>1 DEF make_scalar
<1>3. \A i : /\ g(i) \in Flags
             /\ g(i).c <=> q[i].c /\ o.const_pointers
             /\ g(i).v <=> q[i].v /\ o.volatile_pointers /\ o.global_variables
    BY DEF Flags
<1> HIDE DEF g, r
<1>4. r \in Vectors(n) BY <1>1, <1>2, <1>3 DEF Vectors
<1>5. Len(r) = n BY <1>4, VectorSeq
<1>6. r[1] = q[1] /\ \A i \in 2..n : r[i] = g(i) BY <1>2
<1>7. Looser(q, r)
  <2> SUFFICES ASSUME NEW i \in 1..n PROVE (r[i].c => q[i].c) /\ (r[i].v => q[i].v)
      BY <1>1, <1>5 DEF Looser
  <2>1. CASE i = 1 BY <2>1, <1>6
  <2>2. CASE i # 1
    <3>1. r[i] = g(i) BY <2>2, <1>6
    <3> QED BY <3>1, <1>3
  <2> QED BY <2>1, <2>2
<1>8. Scalar(o, r) BY <1>3, <1>5, <1>6 DEF Scalar
<1>9. ASSUME NEW i \in 1..n
      PROVE  /\ q[i].c /\ (i > 1 => o.const_pointers) => r[i].c
             /\ q[i].v /\ (i > 1 => o.volatile_pointers /\ o.global_variables) => r[i].v
  <2>1. CASE i = 1 BY <2>1, <1>6
  <2>2. CASE i # 1
    <3>1. r[i] = g(i) /\ i > 1 BY <2>2, <1>6
    <3> QED BY <3>1, <1>3
  <2> QED BY <2>1, <2>2
<1> QED BY <1>4, <1>6, <1>7, <1>8, <1>9 DEF r

\* Aggregates that may be declared volatile, and those with a const member.
OkAggs == {k \in Ids : is_volatile_ok_on_one_level(Agg(k))}
ConstAggs == {k \in Ids : is_const_struct_union(Agg(k))}

LEMMA BaseOk ==
    ASSUME NEW t \in TypesOver(Ids), t.kind = "agg", t.stars = 0
    PROVE  /\ t = Agg(t.id) /\ t.id \in Ids
           /\ is_volatile_ok_on_one_level(t) <=> t.id \in OkAggs
           /\ is_const_struct_union(t) <=> t.id \in ConstAggs
<1>1. t = Agg(t.id) BY DEF TypesOver, Agg
<1>2. t.id \in Ids BY DEF TypesOver
<1> QED BY <1>1, <1>2 DEF OkAggs, ConstAggs

\* random_qualifiers gives what a declaration of its type may have, and what the context
\* and the access allow to the declared object.
LEMMA RandomQualifiers ==
    ASSUME NEW t \in TypesOver(Ids), NEW w \in BOOLEAN, NEW f \in BOOLEAN, NEW nv \in BOOLEAN,
           NEW q \in random_qualifiers(t, w, f, nv)
    PROVE  /\ q \in Quals(opt, OkAggs, t)
           /\ w => ~q[t.stars + 1].c
           /\ ~f => ~q[t.stars + 1].v
           /\ nv => \A i \in 1..(t.stars + 1) : ~q[i].v
<1> DEFINE n == t.stars + 1
<1>1. t.stars \in Nat /\ n \in Nat \ {0} /\ n >= 1 BY DEF TypesOver
<1>2. PICK r \in Vectors(n) :
        /\ q = make_scalar(opt, r)
        /\ \A i \in 1..n :
             /\ r[i].v => /\ ~nv
                          /\ is_volatile_ok_on_one_level(Below(t, n - i))
                          /\ i = n => f
             /\ r[i].c => (i = n => ~w)
    BY DEF random_qualifiers, get_indirect_level
<1>3. q \in Vectors(n) /\ Looser(r, q) /\ Scalar(opt, q) BY <1>1, <1>2, MakeScalar
<1>4. Len(r) = n BY <1>1, VectorSeq
<1>5. \A i \in 1..n : (q[i].c => r[i].c) /\ (q[i].v => r[i].v) BY <1>3, <1>4 DEF Looser
<1>6. q[1].v /\ t.kind = "agg" => t.id \in OkAggs
  <2> SUFFICES ASSUME q[1].v, t.kind = "agg" PROVE t.id \in OkAggs OBVIOUS
  <2>1. is_volatile_ok_on_one_level(Below(t, n - 1)) BY <1>1, <1>2, <1>5
  <2>2. n - 1 = t.stars /\ n - 1 \in 0..t.stars BY <1>1
  <2>3. /\ Below(t, n - 1) \in TypesOver(Ids) /\ Below(t, n - 1).stars = 0
        /\ Below(t, n - 1).kind = "agg" /\ Below(t, n - 1).id = t.id
      BY <1>1, <2>2, BelowType
  <2> QED BY <2>1, <2>3, BaseOk
<1>7. q \in Quals(opt, OkAggs, t) BY <1>3, <1>6 DEF Quals
<1>8. n \in 1..n BY <1>1
<1>9. /\ w => ~q[n].c
      /\ ~f => ~q[n].v
      /\ nv => \A i \in 1..n : ~q[i].v
    BY <1>2, <1>5, <1>8
<1> QED BY <1>7, <1>9

\* What looser qualifiers l than q, those of a declaration of type t, keep of q.
LooserThan(o, ok, t, q, nv, l) ==
    /\ l \in Quals(o, ok, t) /\ Looser(q, l)
    /\ \A i \in Deep(t.stars + 1) : l[i].c = q[i].c /\ (~nv => l[i] = q[i])
    /\ ~nv /\ t.stars > 0 => l[1].v = q[1].v

\* The looser qualifiers of an initialiser or a value.
LEMMA RandomLoose ==
    ASSUME NEW ok, NEW t, t.stars \in Nat, NEW o, o.exact \in BOOLEAN, NEW q \in Quals(o, ok, t),
           NEW nv \in BOOLEAN, NEW w \in BOOLEAN, NEW f \in BOOLEAN,
           NEW l \in random_loose_qualifiers(o, q, nv, w, f)
    PROVE  LooserThan(o, ok, t, q, nv, l)
<1> DEFINE n == t.stars + 1
<1>1. n \in Nat \ {0} /\ q \in Vectors(n) /\ Scalar(o, q) BY DEF Quals
<1>2. Len(q) = n /\ q # Wildcard /\ \A i \in 1..n : q[i] \in Flags BY <1>1, VectorSeq, NotWildcard
<1>3. PICK r \in random_looser(o, q) :
        l = restrict(make_scalar(o, IF nv THEN [i \in 1..Len(q) |-> [r[i] EXCEPT !.v = FALSE]]
                                    ELSE r), w, f)
    BY <1>2 DEF random_loose_qualifiers
<1>4. /\ r \in Vectors(n) /\ Looser(q, r)
      /\ \A i \in Deep(n) : r[i] = q[i]
      /\ n > 1 => r[1].v = q[1].v
  <2>1. Len(r) = n /\ r \in Vectors(n)
    <3>1. r \in Vectors(n) BY <1>1, <1>2 DEF random_looser
    <3> QED BY <1>1, <3>1, VectorSeq
  <2> QED BY <1>2, <2>1 DEF random_looser, Looser
<1> DEFINE r1 == IF nv THEN [i \in 1..n |-> [r[i] EXCEPT !.v = FALSE]] ELSE r
           s == make_scalar(o, r1)
<1>5. /\ r1 \in Vectors(n) /\ Looser(r, r1) /\ (~nv => r1 = r)
      /\ \A i \in 1..n : r1[i].c = r[i].c
  <2>1. Len(r) = n /\ \A i \in 1..n : r[i] \in Flags BY <1>1, <1>4, VectorSeq
  <2>2. CASE nv
    <3> DEFINE z == [i \in 1..n |-> [r[i] EXCEPT !.v = FALSE]]
    <3>1. \A i \in 1..n : /\ [r[i] EXCEPT !.v = FALSE] \in Flags
                          /\ ~[r[i] EXCEPT !.v = FALSE].v
                          /\ [r[i] EXCEPT !.v = FALSE].c = r[i].c
        BY <2>1 DEF Flags
    <3>2. z \in Vectors(n) BY <3>1 DEF Vectors
    <3>3. Len(z) = n BY <1>1, <3>2, VectorSeq
    <3>4. Looser(r, z) BY <2>1, <3>1, <3>3 DEF Looser
    <3> QED BY <2>2, <3>2, <3>4
  <2>3. CASE ~nv BY <2>1, <2>3, <1>4 DEF Looser
  <2> QED BY <2>2, <2>3
<1>6. l = restrict(s, w, f) BY <1>2, <1>3
<1> HIDE DEF r1
<1>7. /\ s \in Vectors(n) /\ Looser(r1, s) /\ Scalar(o, s) /\ s[1] = r1[1]
      /\ \A i \in 1..n : (r1[i].c /\ (i > 1 => o.const_pointers) => s[i].c)
                         /\ (r1[i].v /\ (i > 1 => o.volatile_pointers /\ o.global_variables) => s[i].v)
    BY <1>1, <1>5, MakeScalar
<1> HIDE DEF s
<1>8. l \in Vectors(n) /\ SameBelow(s, l) /\ Looser(s, l) BY <1>1, <1>6, <1>7, RestrictTop
<1>9. Len(r) = n /\ Len(r1) = n /\ Len(s) = n /\ Len(l) = n
    BY <1>1, <1>4, <1>5, <1>7, <1>8, VectorSeq
<1>10. Looser(q, l) BY <1>2, <1>4, <1>5, <1>7, <1>8, <1>9 DEF Looser
<1>11. l \in Quals(o, ok, t) BY <1>1, <1>8, <1>10, LooserQuals
<1>12. ASSUME NEW i \in Deep(n) PROVE l[i].c = q[i].c /\ (~nv => l[i] = q[i])
  <2>1. i \in 1..n /\ i \in 1..(n - 1) BY <1>1 DEF Deep
  <2>2. l[i] = s[i] BY <1>8, <1>9, <2>1 DEF SameBelow
  <2>3. r1[i].c = q[i].c /\ (~nv => r1[i] = q[i]) BY <1>4, <1>5, <2>1
  <2>4. s[i] \in Flags /\ q[i] \in Flags BY <1>1, <1>2, <1>7, <2>1, VectorSeq
  <2>5. /\ q[i].c => (i > 1 => o.const_pointers)
        /\ q[i].v => (i > 1 => o.volatile_pointers /\ o.global_variables)
      BY <1>1, <1>2, <2>1 DEF Scalar
  <2>6. (q[i].c => s[i].c) /\ (~nv /\ q[i].v => s[i].v) BY <1>7, <2>1, <2>3, <2>5
  <2>7. (s[i].c => q[i].c) /\ (~nv /\ s[i].v => q[i].v) BY <1>7, <1>9, <2>1, <2>3 DEF Looser
  <2> QED BY <2>2, <2>4, <2>6, <2>7 DEF Flags
<1>13. ASSUME ~nv, n > 1 PROVE l[1].v = q[1].v
  <2>1. l[1] = s[1] BY <1>1, <1>8, <1>9, <1>13 DEF SameBelow
  <2> QED BY <1>4, <1>5, <1>7, <1>13, <2>1
<1> QED BY <1>1, <1>10, <1>11, <1>12, <1>13 DEF LooserThan

-----------------------------------------------------------------------------
(* Conversions.                                                            *)

LEMMA AgreesOrder ==
    ASSUME NEW n \in Nat \ {0}, NEW a \in Vectors(n), NEW b \in Vectors(n), NEW c \in Vectors(n)
    PROVE  /\ Agrees(a, a)
           /\ Agrees(a, b) /\ Agrees(b, c) => Agrees(a, c)
           /\ SameBelow(a, b) => Agrees(a, b) /\ Agrees(b, a)
           /\ stricter_than(a, b) => Agrees(a, b)
<1>1. Len(a) = n /\ Len(b) = n /\ Len(c) = n BY VectorSeq
<1>2. /\ \A i \in Deep(n) : i \in 1..(n - 1)
      /\ n > 1 => 1 \in 1..(n - 1) /\ n - 1 \in 1..(n - 1) /\ n - 1 \in 1..n
    BY DEF Deep
<1>3. Agrees(a, a) BY <1>1 DEF Agrees, Converts
<1>4. Agrees(a, b) /\ Agrees(b, c) => Agrees(a, c) BY <1>1 DEF Agrees, Converts
<1>5. SameBelow(a, b) => Agrees(a, b) /\ Agrees(b, a) BY <1>1, <1>2 DEF SameBelow, Agrees, Converts
<1>6. stricter_than(a, b) => Agrees(a, b) BY <1>1, <1>2 DEF stricter_than, Agrees, Converts
<1> QED BY <1>3, <1>4, <1>5, <1>6

\* Declarations over the aggregates ids, with the options o.
VarRecs(o, ids, ok) ==
    {v \in [type : TypesOver(ids), q : Seq(Flags), glob : BOOLEAN] : v.q \in Quals(o, ok, v.type)}

\* How the levels of a variable that matches a type relate to those of the type.
LEMMA Levels ==
    ASSUME NEW ids, NEW t \in TypesOver(ids), NEW vt \in TypesOver(ids), NEW mt,
           MatchType(t, vt, mt), mt \in {"exact", "dereference", "deref_exact", "flexible"}
    PROVE  /\ mt = "exact" => t = vt
           /\ mt = "dereference" =>
                vt.stars - t.stars \in 1..vt.stars /\ Below(vt, vt.stars - t.stars) = t
           /\ mt = "deref_exact" =>
                vt.stars - t.stars \in 0..vt.stars /\ Below(vt, vt.stars - t.stars) = t
           /\ mt = "flexible" =>
                \/ vt.stars - t.stars \in 0..vt.stars /\ Below(vt, vt.stars - t.stars) = t
                \/ IsSimple(t) /\ IsSimple(vt)
                \/ t = Ptr(vt)
<1> DEFINE below == \E i \in 1..get_indirect_level(vt) : Below(vt, i) = t
           d == vt.stars - t.stars
<1>1. vt.stars \in Nat /\ t.stars \in Nat BY DEF TypesOver
<1>2. below => d \in 1..vt.stars /\ Below(vt, d) = t
  <2> SUFFICES ASSUME NEW i \in 1..vt.stars, Below(vt, i) = t
               PROVE  d \in 1..vt.stars /\ Below(vt, d) = t
      BY DEF get_indirect_level
  <2>1. i \in 0..vt.stars BY <1>1
  <2>2. t.stars = vt.stars - i BY <2>1, BelowType
  <2>3. d = i BY <1>1, <2>2
  <2> QED BY <2>3
<1>3. t = vt => d \in 0..vt.stars /\ Below(vt, d) = t
  <2> SUFFICES ASSUME t = vt PROVE Below(vt, 0) = t BY <1>1
  <2>1. vt = [kind |-> vt.kind, id |-> vt.id, stars |-> vt.stars] BY DEF TypesOver
  <2>2. Below(vt, 0) = [kind |-> vt.kind, id |-> vt.id, stars |-> vt.stars - 0] BY <2>1 DEF Below
  <2>3. vt.stars - 0 = vt.stars BY <1>1
  <2> QED BY <2>1, <2>2, <2>3
<1>4. d \in 1..vt.stars => d \in 0..vt.stars BY <1>1
<1>5. /\ mt = "exact" => t = vt
      /\ mt = "dereference" => below
      /\ mt = "deref_exact" => t = vt \/ below
      /\ mt = "flexible" => \/ t = vt \/ (IsSimple(t) /\ IsSimple(vt))
                            \/ below \/ t = Ptr(vt)
    BY DEF MatchType
<1> HIDE DEF d, below
<1>6. /\ mt = "deref_exact" => d \in 0..vt.stars /\ Below(vt, d) = t
      /\ mt = "flexible" => \/ d \in 0..vt.stars /\ Below(vt, d) = t
                            \/ IsSimple(t) /\ IsSimple(vt)
                            \/ t = Ptr(vt)
    BY <1>2, <1>3, <1>4, <1>5
<1> QED BY <1>2, <1>5, <1>6 DEF d

LEMMA Eligible ==
    ASSUME NEW from, NEW w \in BOOLEAN, NEW f \in BOOLEAN, NEW t, NEW o, NEW want, NEW stricter, NEW mt,
           NEW v \in choose_var(from, w, f, t, o, want, stricter, mt)
    PROVE  /\ v \in from /\ MatchType(t, v.type, mt)
           /\ match_indirect(o, want, stricter, v.q)
           /\ is_eligible_var(v, Deref(v, t), w, f)
BY DEF choose_var

\* What a matching variable gives, dereferenced or its address taken.
LEMMA ChosenQuals ==
    ASSUME NEW o, NEW ids, NEW ok, NEW t \in TypesOver(ids), NEW v \in VarRecs(o, ids, ok),
           NEW mt \in {"exact", "dereference", "deref_exact", "flexible"}, MatchType(t, v.type, mt)
    PROVE  indirect_qualifiers(v.q, Deref(v, t)) \in Quals(o, ok, t)
<1> DEFINE d == v.type.stars - t.stars
<1>1. v.type \in TypesOver(ids) /\ v.q \in Quals(o, ok, v.type) BY DEF VarRecs
<1>2. v.type.stars \in Nat /\ t.stars \in Nat BY <1>1 DEF TypesOver
<1>3. Deref(v, t) = d BY DEF Deref, get_indirect_level
<1>4. CASE d \in 0..v.type.stars /\ Below(v.type, d) = t
  <2> HIDE DEF d
  <2> QED BY <1>1, <1>3, <1>4, Indirect
<1>5. CASE IsSimple(t) /\ IsSimple(v.type)
  <2>1. d = 0 BY <1>5 DEF IsSimple
  <2>2. indirect_qualifiers(v.q, 0) = v.q BY DEF indirect_qualifiers
  <2>3. v.q \in Quals(o, ok, t) BY <1>1, <1>5 DEF Quals, IsSimple
  <2> QED BY <1>3, <2>1, <2>2, <2>3
<1>6. CASE t = Ptr(v.type)
  <2>1. d = -1 BY <1>1, <1>2, <1>6, PtrType
  <2>2. /\ indirect_qualifiers(v.q, -1) = Append(v.q, Plain)
        /\ Append(v.q, Plain) \in Quals(o, ok, Ptr(v.type))
    <3>1. \A vt \in TypesOver(ids) : \A q \in Quals(o, ok, vt) :
            /\ indirect_qualifiers(q, -1) = Append(q, Plain)
            /\ Append(q, Plain) \in Quals(o, ok, Ptr(vt))
        BY AddressOf
    <3> QED BY <1>1, <3>1
  <2>3. Deref(v, t) = -1 BY <1>3, <2>1
  <2> HIDE DEF d
  <2> QED BY <1>6, <2>2, <2>3
<1>7. mt = "exact" => (IsSimple(t) /\ IsSimple(v.type)) \/ (d \in 0..v.type.stars /\ Below(v.type, d) = t)
  <2> SUFFICES ASSUME mt = "exact" PROVE d \in 0..v.type.stars /\ Below(v.type, d) = t OBVIOUS
  <2>1. t = v.type BY <1>1, Levels
  <2>2. MatchType(t, v.type, "deref_exact") BY <2>1 DEF MatchType
  <2> QED BY <1>1, <2>2, Levels
<1>8. d \in 1..v.type.stars => d \in 0..v.type.stars BY <1>2
<1> QED BY <1>1, <1>4, <1>5, <1>6, <1>7, <1>8, Levels

\* What an eligible variable that is read or written d levels below allows.
LEMMA EligibleFlags ==
    ASSUME NEW o, NEW ok, NEW t \in TypesOver(Ids), NEW v \in VarRecs(o, Ids, ok),
           NEW w \in BOOLEAN, NEW f \in BOOLEAN, is_eligible_var(v, Deref(v, t), w, f)
    PROVE  /\ ~f => ~v.q[v.type.stars + 1].v
           /\ v.type.stars - t.stars \in 0..v.type.stars /\ Below(v.type, v.type.stars - t.stars) = t =>
                /\ ~f => ~indirect_qualifiers(v.q, Deref(v, t))[t.stars + 1].v
                /\ w => ~indirect_qualifiers(v.q, Deref(v, t))[t.stars + 1].c
                /\ w => ~is_const_struct_union(t)
<1> DEFINE d == v.type.stars - t.stars
           n == v.type.stars + 1
<1>1. v.type \in TypesOver(Ids) /\ v.q \in Quals(o, ok, v.type) BY DEF VarRecs
<1>2. v.type.stars \in Nat /\ t.stars \in Nat BY <1>1 DEF TypesOver
<1>3. Deref(v, t) = d BY DEF Deref, get_indirect_level
<1>4. Len(v.q) = n BY <1>1, <1>2, VectorSeq, SMTT(30) DEF Quals
<1>5. ~f => ~v.q[n].v BY <1>4 DEF is_eligible_var
<1>6. ASSUME d \in 0..v.type.stars, Below(v.type, d) = t
      PROVE  /\ ~f => ~indirect_qualifiers(v.q, Deref(v, t))[t.stars + 1].v
             /\ w => ~indirect_qualifiers(v.q, Deref(v, t))[t.stars + 1].c
             /\ w => ~is_const_struct_union(t)
  <2>1. ~(d < 0) BY <1>6
  <2>2. /\ ~f => ~v.q[n - d].v
        /\ w => ~v.q[n - d].c /\ ~is_const_struct_union(t)
    <3>1. is_eligible_var(v, d, w, f) BY <1>3
    <3> HIDE DEF d, n
    <3> QED BY <1>4, <1>6, <2>1, <3>1 DEF is_eligible_var
  <2>3. n - d = t.stars + 1 /\ n - d \in 1..(v.type.stars + 1 - d) BY <1>2, <1>6
  <2>4. indirect_qualifiers(v.q, d)[n - d] = v.q[n - d]
    <3> HIDE DEF d, n
    <3> QED BY <1>1, <1>6, <2>3, Indirect
  <2> QED BY <1>3, <2>2, <2>3, <2>4
<1> QED BY <1>5, <1>6

\* A match is a legal conversion in the direction asked for.
LEMMA MatchAgrees ==
    ASSUME NEW o, NEW o2, NEW ids, NEW ok,
           NEW t \in TypesOver(ids), NEW v \in VarRecs(o2, ids, ok),
           NEW mt, mt \in {"exact", "dereference", "deref_exact", "flexible"}, MatchType(t, v.type, mt),
           NEW want \in Vectors(t.stars + 1), t.stars > 0
    PROVE  /\ match_indirect(o, want, FALSE, v.q)
                => Agrees(want, indirect_qualifiers(v.q, Deref(v, t)))
           /\ match_indirect(o, want, TRUE, v.q)
                => Agrees(indirect_qualifiers(v.q, Deref(v, t)), want)
           /\ \A s : match_indirect(o, want, s, v.q) /\ o.exact
                => Agrees(indirect_qualifiers(v.q, Deref(v, t)), want)
<1> DEFINE q == indirect_qualifiers(v.q, Deref(v, t))
           n == t.stars + 1
<1>1. v.type \in TypesOver(ids) /\ v.q \in Quals(o2, ok, v.type) BY DEF VarRecs
<1>2. v.type.stars \in Nat /\ t.stars \in Nat /\ n \in Nat \ {0} /\ n > 1 BY <1>1 DEF TypesOver
<1>3. Len(v.q) = v.type.stars + 1 BY <1>1, <1>2, VectorSeq DEF Quals
<1>4. Len(want) = n /\ want # Wildcard BY <1>2, VectorSeq, NotWildcard
<1>5. Len(v.q) - Len(want) = Deref(v, t) BY <1>2, <1>3, <1>4 DEF Deref, get_indirect_level
<1>6. q \in Vectors(n) BY ChosenQuals DEF Quals
<1> HIDE DEF q
<1>7. \A s : match_indirect(o, want, s, v.q) => match(o, want, s, q)
    BY <1>4, <1>5 DEF match_indirect, q
<1>8. /\ match(o, want, FALSE, q) => want = q \/ stricter_than(want, q)
      /\ match(o, want, TRUE, q) => want = q \/ stricter_than(q, want)
      /\ \A s : match(o, want, s, q) /\ o.exact => want = q
    BY <1>2, <1>4 DEF match
<1> QED BY <1>2, <1>6, <1>7, <1>8, AgreesOrder DEF q

-----------------------------------------------------------------------------
(* Declarations, assignments and conversions under way.                    *)

PendRecs(o, ids, ok) ==
    {p \in [type : TypesOver(ids), glob : BOOLEAN, write : BOOLEAN, free : BOOLEAN,
            exact : BOOLEAN, done : BOOLEAN, q : Seq(Flags)] : p.q \in Quals(o, ok, p.type)}

Keeps(o) == o.global_variables /\ ~o.strict_volatile_rule

\* An aggregate type among those with a const member, ca.
ConstType(ca, t) == t.kind = "agg" /\ t.stars = 0 /\ t.id \in ca

\* The left-hand side is sought for qualifiers the value converts to.
JobRecs(o, ids, ok, ca) ==
    {j \in [type : TypesOver(ids), src : Seq(Flags), stricter : BOOLEAN, exact : BOOLEAN,
            free : BOOLEAN, want : Seq(Flags)] :
       /\ j.stricter \/ j.exact
       /\ j.want = Wildcard <=> j.src = Wildcard
       /\ j.want # Wildcard =>
            /\ j.want \in Quals(o, ok, j.type) /\ j.src \in Vectors(j.type.stars + 1)
            /\ Keeps(o) /\ j.type.stars > 0 => Agrees(j.want, j.src)
       /\ ~ConstType(ca, j.type)}

FlowGood(o, ids, ca, f) ==
    /\ f.type \in TypesOver(ids)
    /\ Keeps(o) /\ f.type.stars > 0 /\ f.src # Wildcard => Len(f.dst) > 1 /\ Agrees(f.dst, f.src)
    /\ f.write => ~Last(f.dst).c /\ ~ConstType(ca, f.type)
    /\ ~f.free => ~Last(f.var).v /\ (f.write => ~Last(f.dst).v)

LEMMA NotConst ==
    ASSUME NEW t \in TypesOver(Ids)
    PROVE  ConstType(ConstAggs, t) <=> is_const_struct_union(t)
<1>1. t.kind \in {"simple", "agg"} /\ t.stars \in Nat BY DEF TypesOver
<1>2. CASE t.kind = "agg" /\ t.stars = 0 BY <1>2, BaseOk DEF ConstType
<1>3. CASE ~(t.kind = "agg" /\ t.stars = 0)
    BY <1>3 DEF ConstType, is_const_struct_union, IsAgg
<1> QED BY <1>2, <1>3

\* GenerateNewGlobal and GenerateNewParentLocal.
LEMMA NewVariable ==
    ASSUME NEW o, o.exact \in BOOLEAN, NEW t \in TypesOver(Ids),
           NEW glob \in BOOLEAN, NEW w \in BOOLEAN, NEW f \in BOOLEAN,
           NEW given, given = Wildcard \/ given \in Quals(opt, OkAggs, t),
           NEW v \in NewVariables(o, t, glob, w, f, given)
    PROVE  /\ v \in PendRecs(opt, Ids, OkAggs)
           /\ v.type = t
           /\ Declared(v) \in VarRecs(opt, Ids, OkAggs)
           /\ given = Wildcard => /\ w => ~v.q[t.stars + 1].c
                                  /\ ~f => ~v.q[t.stars + 1].v
           /\ given # Wildcard => v.q = given \/ (~glob /\ v.q = restrict(given, w, f))
<1> DEFINE n == t.stars + 1
           asGlobal == glob \/ is_volatile_struct_union(t)
<1>1. t.stars \in Nat /\ n \in Nat \ {0} BY DEF TypesOver
<1>2. asGlobal \in BOOLEAN /\ (~asGlobal) \in BOOLEAN /\ (asGlobal = FALSE => ~glob) OBVIOUS
<1>3. PICK q \in IF given = Wildcard THEN random_qualifiers(t, w, f, ~asGlobal) ELSE {given} :
        v = [type |-> t, glob |-> asGlobal, write |-> w, free |-> f, exact |-> o.exact, done |-> FALSE,
             q |-> IF asGlobal THEN q ELSE restrict(q, w, f)]
    BY DEF NewVariables
<1> HIDE DEF asGlobal
<1>4. /\ q \in Quals(opt, OkAggs, t)
      /\ given = Wildcard => (w => ~q[n].c) /\ (~f => ~q[n].v)
      /\ given # Wildcard => q = given
    BY <1>2, <1>3, RandomQualifiers
<1>5. q \in Vectors(n) BY <1>4 DEF Quals
<1>6. /\ restrict(q, w, f) \in Vectors(n) /\ Looser(q, restrict(q, w, f))
      /\ (w => ~restrict(q, w, f)[n].c) /\ (~f => ~restrict(q, w, f)[n].v)
    BY <1>1, <1>5, RestrictTop
<1>7. restrict(q, w, f) \in Quals(opt, OkAggs, t) BY <1>1, <1>4, <1>6, LooserQuals
<1>8. v.q \in Quals(opt, OkAggs, t) /\ v.type = t /\ v.glob \in BOOLEAN BY <1>2, <1>3, <1>4, <1>7
<1>9. v.q \in Seq(Flags)
  <2>1. v.q \in Vectors(n) BY <1>8 DEF Quals
  <2> QED BY <1>1, <2>1, VectorSeq
<1>10. v \in PendRecs(opt, Ids, OkAggs) BY <1>2, <1>3, <1>8, <1>9 DEF PendRecs
<1>11. Declared(v) \in VarRecs(opt, Ids, OkAggs) BY <1>8, <1>9 DEF Declared, VarRecs
<1>12. given = Wildcard => (w => ~v.q[n].c) /\ (~f => ~v.q[n].v)
    BY <1>3, <1>4, <1>6
<1>13. given # Wildcard => v.q = given \/ (~glob /\ v.q = restrict(given, w, f))
    BY <1>2, <1>3, <1>4
<1> QED BY <1>8, <1>10, <1>11, <1>12, <1>13

-----------------------------------------------------------------------------
(* The types the generator asks for.                                       *)

LEMMA AggType ==
    ASSUME NEW k \in Ids
    PROVE  Agg(k) \in TypesOver(Ids) /\ Agg(k).stars = 0 /\ Agg(k).kind = "agg" /\ Agg(k).id = k
BY DEF Agg, TypesOver, Ids

LEMMA SimpleTyped ==
    ASSUME NEW t \in SimpleTypes
    PROVE  t \in TypesOver(Ids) /\ t.stars = 0 /\ t.kind = "simple"
BY DEF SimpleTypes, eInt, eLongLong, Simple, TypesOver

LEMMA ChosenTypes ==
    /\ \A t \in choose_random \cup choose_random_nonvoid \cup choose_random_nonvoid_nonvolatile :
         t \in TypesOver(Ids) /\ t.stars = 0
    /\ eInt \in TypesOver(Ids) /\ eInt.stars = 0 /\ eInt.kind = "simple"
<1>1. eInt \in SimpleTypes BY DEF SimpleTypes
<1>2. \A t \in choose_random \cup choose_random_nonvoid \cup choose_random_nonvoid_nonvolatile :
        t \in SimpleTypes \/ \E k \in Ids : t = Agg(k)
    BY DEF choose_random, choose_random_nonvoid, choose_random_nonvoid_nonvolatile
<1> QED BY <1>1, <1>2, SimpleTyped, AggType

LEMMA PointerTypes ==
    ASSUME \A p \in ptrs : p \in TypesOver(Ids) /\ p.stars > 0
    PROVE  \A t \in make_random_pointer_type : t \in TypesOver(Ids) /\ t.stars > 0
<1> SUFFICES ASSUME NEW t \in make_random_pointer_type PROVE t \in TypesOver(Ids) /\ t.stars > 0
    OBVIOUS
<1>1. \/ \E p \in ptrs : t = Ptr(p)
      \/ \E p \in choose_random : t = Ptr(p) \/ t = Ptr(eInt)
    BY DEF make_random_pointer_type
<1>2. PICK p \in TypesOver(Ids) : t = Ptr(p) BY <1>1, ChosenTypes
<1>3. p.stars \in Nat BY DEF TypesOver
<1> QED BY <1>2, <1>3, PtrType

LEMMA LTypes ==
    ASSUME \A p \in ptrs : p \in TypesOver(Ids) /\ p.stars > 0, NEW nv,
           NEW t \in SelectLType(nv)
    PROVE  t \in TypesOver(Ids) /\ ~is_const_struct_union(t)
<1>1. \/ t = eInt
      \/ t \in make_random_pointer_type
      \/ (\E k \in Ids : t = Agg(k)) /\ ~is_const_struct_union(t)
    BY DEF SelectLType
<1>2. CASE t = eInt BY <1>2, ChosenTypes DEF is_const_struct_union, IsAgg
<1>3. CASE t \in make_random_pointer_type BY <1>3, PointerTypes DEF is_const_struct_union, IsAgg
<1>4. CASE (\E k \in Ids : t = Agg(k)) /\ ~is_const_struct_union(t) BY <1>4, AggType
<1> QED BY <1>1, <1>2, <1>3, <1>4

-----------------------------------------------------------------------------
(* The program: declarations and assignments keep what conversions and     *)
(* accesses rely on.                                                       *)

Prog ==
    /\ vars \subseteq VarRecs(opt, Ids, OkAggs)
    /\ pend \in Seq(PendRecs(opt, Ids, OkAggs))
    /\ job = None \/ job \in JobRecs(opt, Ids, OkAggs, ConstAggs)
    /\ flow = None \/ FlowGood(opt, Ids, ConstAggs, flow)
    /\ \A p \in ptrs : p \in TypesOver(Ids) /\ p.stars > 0

LEMMA AggsStay ==
    ASSUME UNCHANGED <<opt, agg>>
    PROVE  Ids' = Ids /\ OkAggs' = OkAggs /\ ConstAggs' = ConstAggs
<1>1. Ids' = Ids BY DEF Ids
<1>2. OkAggs' = OkAggs
    BY <1>1 DEF OkAggs, is_volatile_ok_on_one_level, IsUnion, IsAgg, FieldsOf, Agg
<1>3. ConstAggs' = ConstAggs
    BY <1>1 DEF ConstAggs, is_const_struct_union, Nested, IsAgg, FieldsOf, Agg
<1> QED BY <1>1, <1>2, <1>3

\* What a step that makes no aggregate has to show.
LEMMA ProgStep ==
    ASSUME UNCHANGED <<opt, agg>>,
           vars' \subseteq VarRecs(opt, Ids, OkAggs),
           pend' \in Seq(PendRecs(opt, Ids, OkAggs)),
           job' = None \/ job' \in JobRecs(opt, Ids, OkAggs, ConstAggs),
           flow' = None \/ FlowGood(opt, Ids, ConstAggs, flow'),
           \A p \in ptrs' : p \in TypesOver(Ids) /\ p.stars > 0
    PROVE  Prog'
BY AggsStay DEF Prog

LEMMA Exact ==
    ASSUME opt \in Options
    PROVE  /\ opt.exact \in BOOLEAN /\ opt.strict_volatile_rule \in BOOLEAN
           /\ opt.global_variables \in BOOLEAN
           /\ \A e \in BOOLEAN : /\ WithExact(e).exact = e
                                 /\ WithExact(e).const_pointers = opt.const_pointers
                                 /\ WithExact(e).volatile_pointers = opt.volatile_pointers
                                 /\ WithExact(e).global_variables = opt.global_variables
BY OptionsAssumption DEF OptionsAssumption, WithExact

LEMMA Innermost ==
    ASSUME NEW S, NEW s \in Seq(S), s # <<>>
    PROVE  Last(s) \in S /\ Front(s) \in Seq(S)
BY DEF Last, Front

LEMMA PendFacts ==
    ASSUME Prog, pend # <<>>
    PROVE  LET p == Last(pend)
           IN  /\ p \in PendRecs(opt, Ids, OkAggs)
               /\ Front(pend) \in Seq(PendRecs(opt, Ids, OkAggs))
               /\ p.type \in TypesOver(Ids) /\ p.q \in Quals(opt, OkAggs, p.type)
               /\ Declared(p) \in VarRecs(opt, Ids, OkAggs)
<1>1. Last(pend) \in PendRecs(opt, Ids, OkAggs) /\ Front(pend) \in Seq(PendRecs(opt, Ids, OkAggs))
    BY Innermost DEF Prog
<1> QED BY <1>1 DEF PendRecs, VarRecs, Declared

LEMMA QualsLast ==
    ASSUME NEW o, NEW ok, NEW ids, NEW t \in TypesOver(ids), NEW q \in Quals(o, ok, t)
    PROVE  /\ q \in Vectors(t.stars + 1) /\ t.stars + 1 \in Nat \ {0} /\ q \in Seq(Flags)
           /\ Len(q) = t.stars + 1 /\ Last(q) = q[t.stars + 1] /\ q # Wildcard
<1>1. q \in Vectors(t.stars + 1) /\ t.stars + 1 \in Nat \ {0} BY DEF Quals, TypesOver
<1> QED BY <1>1, VectorSeq, NotWildcard DEF Last

LEMMA DeclareProg ==
    ASSUME opt \in Options, Prog, Declare PROVE Prog'
<1>1. PICK free \in BOOLEAN, write \in BOOLEAN, glob \in BOOLEAN :
        \E t \in (IF write THEN SelectLType(~free)
                  ELSE make_random_pointer_type \cup
                       (IF free THEN choose_random_nonvoid ELSE choose_random_nonvoid_nonvolatile)) :
          /\ \E v \in NewVariables(opt, t, glob, write, free, Wildcard) : pend' = <<v>>
          /\ ptrs' = AddPointer(t)
    BY DEF Declare
<1>2. PICK t \in (IF write THEN SelectLType(~free)
                  ELSE make_random_pointer_type \cup
                       (IF free THEN choose_random_nonvoid ELSE choose_random_nonvoid_nonvolatile)) :
        /\ \E v \in NewVariables(opt, t, glob, write, free, Wildcard) : pend' = <<v>>
        /\ ptrs' = AddPointer(t)
    BY <1>1
<1>3. \A p \in ptrs : p \in TypesOver(Ids) /\ p.stars > 0 BY DEF Prog
<1>4. t \in TypesOver(Ids)
    BY <1>2, <1>3, LTypes, PointerTypes, ChosenTypes
<1>5. PICK v \in NewVariables(opt, t, glob, write, free, Wildcard) : pend' = <<v>> BY <1>2
<1>6. v \in PendRecs(opt, Ids, OkAggs) BY <1>4, Exact, NewVariable
<1>7. \A p \in ptrs' : p \in TypesOver(Ids) /\ p.stars > 0 BY <1>2, <1>3, <1>4 DEF AddPointer, IsPtr
<1>8. pend' \in Seq(PendRecs(opt, Ids, OkAggs)) BY <1>5, <1>6
<1>9. UNCHANGED <<opt, agg, vars, job>> /\ flow' = None BY DEF Declare
<1> QED BY <1>7, <1>8, <1>9, ProgStep DEF Prog

LEMMA InitDoneProg ==
    ASSUME Prog, InitDone PROVE Prog'
<1>1. /\ pend # <<>> /\ vars' = vars \cup {Declared(Last(pend))} /\ pend' = Front(pend)
      /\ flow' = None /\ UNCHANGED <<opt, agg, ptrs, job>>
    BY DEF InitDone
<1> QED BY <1>1, PendFacts, ProgStep DEF Prog

\* A pointer and a variable it may be given the address of.
LEMMA AddressAgrees ==
    ASSUME NEW o, NEW t \in TypesOver(Ids), t.stars > 0, NEW q \in Quals(opt, OkAggs, t),
           NEW v \in VarRecs(opt, Ids, OkAggs), v.type = Below(t, 1),
           match_indirect(o, q, FALSE, v.q)
    PROVE  Agrees(q, indirect_qualifiers(v.q, -1))
<1>1. t.stars \in Nat /\ v.type \in TypesOver(Ids) /\ v.type.stars = t.stars - 1
    BY BelowType DEF TypesOver
<1>2. t = Ptr(v.type) BY PtrType
<1>3. MatchType(t, v.type, "flexible") BY <1>2 DEF MatchType
<1>4. Deref(v, t) = -1 BY <1>1 DEF Deref, get_indirect_level
<1>5. q \in Vectors(t.stars + 1) BY QualsLast
<1>7. Agrees(q, indirect_qualifiers(v.q, Deref(v, t))) BY <1>3, <1>5, MatchAgrees
<1> QED BY <1>4, <1>7

LEMMA InitAddressProg ==
    ASSUME opt \in Options, Prog, InitAddress PROVE Prog'
<1> DEFINE p == Last(pend)
<1>1. PICK v \in Addressable(p) :
        /\ flow' = Flow(p.type, p.q, v, -1, FALSE, p.free)
        /\ vars' = vars \cup {Declared(p)} /\ pend' = Front(pend)
    BY DEF InitAddress
<1>2. pend # <<>> /\ p.type.stars > 0 /\ UNCHANGED <<opt, agg, ptrs, job>>
    BY DEF InitAddress, IsPtr
<1>3. /\ p \in PendRecs(opt, Ids, OkAggs)
      /\ p.type \in TypesOver(Ids) /\ p.q \in Quals(opt, OkAggs, p.type)
      /\ Declared(p) \in VarRecs(opt, Ids, OkAggs) /\ Front(pend) \in Seq(PendRecs(opt, Ids, OkAggs))
    BY <1>2, PendFacts
<1>4. p.write \in BOOLEAN /\ p.free \in BOOLEAN /\ p.exact \in BOOLEAN BY <1>3 DEF PendRecs
<1> HIDE DEF p
<1> DEFINE t == Below(p.type, 1)
           o == WithExact(p.exact)
<1>5. t \in TypesOver(Ids)
  <2>1. p.type.stars \in Nat BY <1>3 DEF TypesOver
  <2> QED BY <1>2, <1>3, <2>1, BelowType
<1>6. o.exact \in BOOLEAN BY <1>4, Exact
<1> HIDE DEF t, o
<1>7. v \in choose_var(Visible(p.glob), p.write, p.free, t, o, p.q, FALSE, "exact")
    BY <1>1 DEF Addressable, t, o
<1>8. /\ v \in Visible(p.glob) /\ MatchType(t, v.type, "exact") /\ match_indirect(o, p.q, FALSE, v.q)
      /\ is_eligible_var(v, Deref(v, t), p.write, p.free)
    BY <1>4, <1>7 DEF choose_var
<1>9. v \in VarRecs(opt, Ids, OkAggs) BY <1>8 DEF Visible, Prog
<1>10. v.type \in TypesOver(Ids) /\ v.q \in Quals(opt, OkAggs, v.type) BY <1>9 DEF VarRecs
<1>11. v.type = t BY <1>5, <1>8, <1>10, Levels
<1>12. Agrees(p.q, indirect_qualifiers(v.q, -1))
    BY <1>2, <1>3, <1>8, <1>9, <1>11, AddressAgrees DEF t
<1>13. ~p.free => ~v.q[v.type.stars + 1].v BY <1>4, <1>5, <1>8, <1>9, EligibleFlags
<1>14. Last(v.q) = v.q[v.type.stars + 1] BY <1>10, QualsLast
<1>15. ~p.free => ~Last(v.q).v BY <1>13, <1>14
<1>16. FlowGood(opt, Ids, ConstAggs, flow')
  <2>1. Len(p.q) > 1
    <3>1. Len(p.q) = p.type.stars + 1 /\ p.type.stars \in Nat BY <1>3, QualsLast DEF TypesOver
    <3> QED BY <1>2, <3>1
  <2> QED BY <1>1, <1>3, <1>12, <1>15, <2>1 DEF FlowGood, Flow
<1>17. vars' \subseteq VarRecs(opt, Ids, OkAggs) /\ pend' \in Seq(PendRecs(opt, Ids, OkAggs))
    BY <1>1, <1>3 DEF Prog
<1> QED BY <1>2, <1>16, <1>17, ProgStep DEF Prog

LEMMA QualsExact ==
    ASSUME opt \in Options, NEW e \in BOOLEAN, NEW ok, NEW t
    PROVE  Quals(WithExact(e), ok, t) = Quals(opt, ok, t)
BY Exact DEF Quals, Scalar

LEMMA InitNewProg ==
    ASSUME opt \in Options, Prog, InitNew PROVE Prog'
<1> DEFINE p == Last(pend)
           t == Below(p.type, 1)
           o == WithExact(p.exact)
           nv == opt.strict_volatile_rule /\ ~p.free
           n == p.type.stars + 1
<1>1. pend # <<>> /\ p.type.stars > 0 /\ UNCHANGED <<opt, agg, ptrs, vars, job>>
    BY DEF InitNew, IsPtr
<1>2. PICK loose \in random_loose_qualifiers(o, p.q, nv, p.write, p.free) :
        LET q == Front(loose)
            local == ~opt.global_variables \/ (~p.glob /\ IsPtr(t) /\ ~Last(q).v)
        IN  \E v \in NewVariables(o, t, ~local, FALSE, p.free, q) :
              /\ pend' = Front(pend) \o <<[p EXCEPT !.done = TRUE], v>>
              /\ flow' = Flow(p.type, p.q, v, -1, FALSE, TRUE)
    BY DEF InitNew
<1> DEFINE q == Front(loose)
           local == ~opt.global_variables \/ (~p.glob /\ IsPtr(t) /\ ~Last(q).v)
<1>3. PICK v \in NewVariables(o, t, ~local, FALSE, p.free, q) :
        /\ pend' = Front(pend) \o <<[p EXCEPT !.done = TRUE], v>>
        /\ flow' = Flow(p.type, p.q, v, -1, FALSE, TRUE)
    BY <1>2
<1>4. /\ p \in PendRecs(opt, Ids, OkAggs)
      /\ p.type \in TypesOver(Ids) /\ p.q \in Quals(opt, OkAggs, p.type)
      /\ Front(pend) \in Seq(PendRecs(opt, Ids, OkAggs))
    BY <1>1, PendFacts
<1>5. /\ p.write \in BOOLEAN /\ p.free \in BOOLEAN /\ p.exact \in BOOLEAN /\ p.glob \in BOOLEAN
      /\ p.type.stars \in Nat
    BY <1>4 DEF PendRecs, TypesOver
<1>6. nv \in BOOLEAN /\ o.exact \in BOOLEAN /\ opt.global_variables \in BOOLEAN BY <1>5, Exact
<1>7. [p EXCEPT !.done = TRUE] \in PendRecs(opt, Ids, OkAggs) BY <1>4 DEF PendRecs
<1>8. t \in TypesOver(Ids) /\ t.stars = p.type.stars - 1 BY <1>1, <1>4, <1>5, BelowType
<1>9. local \in BOOLEAN /\ (~local) \in BOOLEAN BY DEF IsPtr
<1>10. p.q \in Quals(o, OkAggs, p.type) BY <1>4, <1>5, QualsExact
<1>11. loose \in random_loose_qualifiers(o, p.q, nv, p.write, p.free) BY <1>2
<1>12. Keeps(opt) => ~nv /\ (local => IsPtr(t) /\ ~Last(q).v) BY <1>5, <1>6 DEF Keeps
<1>13. IsPtr(t) <=> t.stars > 0 BY DEF IsPtr
<1>14. q = Front(loose) OBVIOUS
<1> HIDE DEF p, t, o, nv, local, q
<1>15. /\ loose \in Quals(o, OkAggs, p.type) /\ Looser(p.q, loose)
       /\ \A i \in Deep(n) : ~nv => loose[i] = p.q[i]
       /\ ~nv => loose[1].v = p.q[1].v
  <2>1. LooserThan(o, OkAggs, p.type, p.q, nv, loose)
      BY <1>5, <1>6, <1>10, <1>11, RandomLoose
  <2> QED BY <1>1, <1>5, <2>1 DEF LooserThan, n
<1>16. loose \in Quals(opt, OkAggs, p.type) BY <1>5, <1>15, QualsExact DEF o
<1>17. loose \in Seq(Flags) /\ Len(loose) = n /\ loose # Wildcard BY <1>4, <1>16, QualsLast
<1>18. 1 \in 0..p.type.stars BY <1>1, <1>5
<1>19. q = indirect_qualifiers(loose, 1) BY <1>14, <1>17 DEF Front, indirect_qualifiers
<1>20. /\ q \in Quals(opt, OkAggs, t)
       /\ \A i \in 1..p.type.stars : q[i] = loose[i]
  <2>1. /\ indirect_qualifiers(loose, 1) \in Quals(opt, OkAggs, Below(p.type, 1))
        /\ \A i \in 1..(p.type.stars + 1 - 1) : indirect_qualifiers(loose, 1)[i] = loose[i]
      BY <1>4, <1>16, <1>18, Indirect
  <2> QED BY <1>5, <1>19, <2>1 DEF t
<1>21. q # Wildcard /\ Len(q) = t.stars + 1 /\ q \in Vectors(t.stars + 1) /\ Last(q) = q[t.stars + 1]
    BY <1>8, <1>20, QualsLast
<1>22. /\ v \in PendRecs(opt, Ids, OkAggs) /\ v.type = t
       /\ Declared(v) \in VarRecs(opt, Ids, OkAggs)
       /\ v.q = q \/ (local /\ v.q = restrict(q, FALSE, p.free))
  <2>1. \A w \in BOOLEAN, f \in BOOLEAN, g \in BOOLEAN :
          v \in NewVariables(o, t, g, w, f, q) =>
            /\ v \in PendRecs(opt, Ids, OkAggs) /\ v.type = t
            /\ Declared(v) \in VarRecs(opt, Ids, OkAggs)
            /\ v.q = q \/ (~g /\ v.q = restrict(q, w, f))
      BY <1>6, <1>8, <1>20, <1>21, NewVariable
  <2>2. v \in NewVariables(o, t, ~local, FALSE, p.free, q) BY <1>3
  <2> QED BY <1>5, <1>9, <2>1, <2>2
<1>23. v.q \in Quals(opt, OkAggs, t) BY <1>22 DEF PendRecs
<1>24. pend' \in Seq(PendRecs(opt, Ids, OkAggs)) BY <1>3, <1>4, <1>7, <1>22
<1>25. ASSUME Keeps(opt) PROVE Agrees(p.q, indirect_qualifiers(v.q, -1))
  <2> DEFINE s == Append(v.q, Plain)
             m == t.stars + 1
  <2>1. m = p.type.stars /\ n = m + 1 /\ m \in Nat \ {0} BY <1>1, <1>5, <1>8
  <2>2. /\ indirect_qualifiers(v.q, -1) = s /\ Len(s) = t.stars + 2
        /\ \A i \in 1..m : s[i] = v.q[i]
    <3>1. \A vt \in TypesOver(Ids) : \A vq \in Quals(opt, OkAggs, vt) :
            indirect_qualifiers(vq, -1) = Append(vq, Plain)
        BY AddressOf
    <3>2. v.q \in Seq(Flags) /\ Len(v.q) = m BY <1>8, <1>23, QualsLast
    <3>3. Plain \in Flags BY DEF Plain, Flags
    <3> HIDE DEF m
    <3>4. Len(s) = m + 1 /\ \A i \in 1..m : s[i] = v.q[i] BY <2>1, <3>2, <3>3, AppendProperties
    <3> QED BY <1>5, <1>8, <1>23, <3>1, <3>4 DEF m
  <2>3. SameBelow(q, v.q) /\ Looser(q, v.q)
    <3>1. CASE v.q = q BY <3>1 DEF SameBelow, Looser
    <3>2. m \in Nat \ {0} /\ q \in Vectors(m) BY <2>1, <1>21
    <3> HIDE DEF m
    <3>3. SameBelow(q, restrict(q, FALSE, p.free)) /\ Looser(q, restrict(q, FALSE, p.free))
        BY <1>5, <3>2, RestrictTop
    <3> QED BY <1>22, <3>1, <3>3
  <2>4. Len(p.q) = n BY <1>4, QualsLast
  <2> HIDE DEF s, m, n
  <2>5. \A i \in Deep(n) : p.q[i] = s[i]
    <3> SUFFICES ASSUME NEW i \in Deep(n) PROVE p.q[i] = s[i] OBVIOUS
    <3>1. i \in 1..m /\ i \in 1..(m - 1) BY <2>1 DEF Deep
    <3>2. s[i] = v.q[i] /\ v.q[i] = q[i] BY <1>21, <2>2, <2>3, <3>1 DEF SameBelow, m
    <3>3. q[i] = loose[i] BY <1>20, <2>1, <3>1
    <3>4. loose[i] = p.q[i] BY <1>12, <1>15, <1>25
    <3> QED BY <3>2, <3>3, <3>4
  <2>6. /\ s[m].c => p.q[m].c
        /\ s[m].v => p.q[m].v
    <3>1. m \in 1..m /\ m \in 1..n BY <2>1
    <3>2. /\ s[m] = v.q[m] /\ q[m] = loose[m] BY <1>20, <2>1, <2>2, <3>1
    <3>3. (v.q[m].c => q[m].c) /\ (v.q[m].v => q[m].v) BY <1>21, <2>3, <3>1 DEF Looser, m
    <3>4. (loose[m].c => p.q[m].c) /\ (loose[m].v => p.q[m].v) BY <1>15, <2>4, <3>1 DEF Looser
    <3> QED BY <3>2, <3>3, <3>4
  <2>7. p.q[1].v = s[1].v
    <3>1. CASE m = 1
      <4>1. t.stars = 0 BY <1>5, <1>8, <3>1 DEF m
      <4>2. ~local BY <1>12, <1>13, <1>25, <4>1
      <4>3. v.q = q BY <1>22, <4>2
      <4>4. s[1] = loose[1] BY <1>20, <2>1, <2>2, <3>1, <4>3
      <4> QED BY <1>12, <1>15, <1>25, <4>4
    <3>2. CASE m # 1
      <4>1. 1 \in Deep(n) BY <2>1, <3>2 DEF Deep
      <4> QED BY <2>5, <4>1
    <3> QED BY <3>1, <3>2
  <2>8. n - 1 = m /\ Len(s) = n BY <1>8, <2>1, <2>2 DEF m
  <2> QED BY <2>2, <2>4, <2>5, <2>6, <2>7, <2>8 DEF Agrees, Converts
<1>26. FlowGood(opt, Ids, ConstAggs, flow')
  <2>1. Len(p.q) = p.type.stars + 1 BY <1>4, QualsLast
  <2>2. Len(p.q) > 1 BY <1>1, <1>5, <2>1
  <2> QED BY <1>3, <1>4, <1>25, <2>2 DEF FlowGood, Flow
<1> QED BY <1>1, <1>24, <1>26, ProgStep DEF Prog

LEMMA JobsGood ==
    ASSUME opt \in Options, NEW t \in TypesOver(Ids), ~is_const_struct_union(t),
           NEW want, NEW src,
           \/ want = Wildcard /\ src = Wildcard
           \/ /\ want \in Quals(opt, OkAggs, t) /\ src \in Vectors(t.stars + 1)
              /\ Keeps(opt) /\ t.stars > 0 => Agrees(want, src),
           NEW stricter \in BOOLEAN, NEW exact \in BOOLEAN, stricter \/ exact, NEW free \in BOOLEAN,
           NEW j \in Jobs(t, want, src, stricter, exact, free)
    PROVE  j \in JobRecs(opt, Ids, OkAggs, ConstAggs)
<1>1. PICK f \in BOOLEAN, w \in {want, set_top(want, "v", FALSE)} :
        /\ j = [type |-> t, src |-> src, stricter |-> stricter, exact |-> exact, free |-> f,
                want |-> w]
        /\ w = want \/ opt.strict_volatile_rule \/ IsSimple(t)
  <2> DEFINE wants == IF opt.strict_volatile_rule THEN {set_top(want, "v", FALSE)}
                      ELSE IF IsSimple(t) THEN {want, set_top(want, "v", FALSE)} ELSE {want}
             e(f, w) == [type |-> t, src |-> src, stricter |-> stricter, exact |-> exact,
                         free |-> f, want |-> w]
  <2>1. j \in UNION {{e(f, w) : w \in wants} : f \in {free, FALSE}} BY DEF Jobs
  <2>2. \A w \in wants : /\ w \in {want, set_top(want, "v", FALSE)}
                         /\ w = want \/ opt.strict_volatile_rule \/ IsSimple(t)
      OBVIOUS
  <2> HIDE DEF e, wants
  <2>3. PICK f \in {free, FALSE} : j \in {e(f, w) : w \in wants} BY <2>1
  <2>4. PICK w \in wants : j = e(f, w) BY <2>3
  <2>5. f \in BOOLEAN OBVIOUS
  <2> QED BY <2>2, <2>4, <2>5 DEF e
<1>2. IsSimple(t) => t.stars = 0 BY DEF IsSimple
<1>3. ~ConstType(ConstAggs, t) BY NotConst
<1>4. t.stars \in Nat /\ t.stars + 1 \in Nat \ {0} BY DEF TypesOver
<1>5. CASE want = Wildcard /\ src = Wildcard
  <2>1. set_top(want, "v", FALSE) = Wildcard BY <1>5 DEF set_top
  <2>2. j.want = Wildcard /\ j.src = Wildcard BY <1>1, <1>5, <2>1
  <2>3. Wildcard \in Seq(Flags) BY DEF Wildcard
  <2> QED BY <1>1, <1>3, <2>2, <2>3 DEF JobRecs
<1>6. CASE want # Wildcard \/ src # Wildcard
  <2>1. /\ want \in Quals(opt, OkAggs, t) /\ src \in Vectors(t.stars + 1)
        /\ Keeps(opt) /\ t.stars > 0 => Agrees(want, src)
      BY <1>6
  <2>2. want \in Vectors(t.stars + 1) BY <2>1 DEF Quals
  <2>3. /\ set_top(want, "v", FALSE) \in Vectors(t.stars + 1)
        /\ SameBelow(want, set_top(want, "v", FALSE))
        /\ ~set_top(want, "v", FALSE)[t.stars + 1].v
        /\ set_top(want, "v", FALSE)[t.stars + 1].c = want[t.stars + 1].c
      BY <1>4, <2>2, SetTop
  <2> DEFINE u == set_top(want, "v", FALSE)
             n == t.stars + 1
  <2>4. Len(want) = n /\ Len(u) = n BY <1>4, <2>2, <2>3, VectorSeq
  <2> HIDE DEF u, n
  <2>5. Looser(want, u)
    <3> SUFFICES ASSUME NEW i \in 1..n PROVE (u[i].c => want[i].c) /\ (u[i].v => want[i].v)
        BY <2>4 DEF Looser
    <3>1. CASE i = n BY <3>1, <2>3 DEF u, n
    <3>2. CASE i # n
      <4>1. i \in 1..(n - 1) BY <3>2, <1>4 DEF n
      <4> QED BY <4>1, <2>3, <2>4 DEF SameBelow, u
    <3> QED BY <3>1, <3>2
  <2>6. u \in Quals(opt, OkAggs, t) BY <1>4, <2>1, <2>3, <2>5, LooserQuals DEF u
  <2>7. j.want \in Quals(opt, OkAggs, t) /\ (j.want = want \/ (opt.strict_volatile_rule \/ IsSimple(t)))
      BY <1>1, <2>1, <2>6 DEF u
  <2>8. Keeps(opt) /\ t.stars > 0 => Agrees(j.want, j.src)
    <3>1. j.src = src BY <1>1
    <3>2. Keeps(opt) /\ t.stars > 0 => j.want = want BY <1>2, <1>4, <2>7 DEF Keeps
    <3> QED BY <2>1, <3>1, <3>2
  <2>9. src \in Seq(Flags) /\ src # Wildcard BY <1>4, <2>1, VectorSeq, NotWildcard
  <2>10. j.want \in Seq(Flags) /\ j.want # Wildcard BY <2>7, QualsLast
  <2>11. j.src = src /\ j.type = t BY <1>1
  <2>12. j \in [type : TypesOver(Ids), src : Seq(Flags), stricter : BOOLEAN, exact : BOOLEAN,
                free : BOOLEAN, want : Seq(Flags)]
    <3>1. j = [type |-> t, src |-> src, stricter |-> stricter, exact |-> exact, free |-> f,
               want |-> j.want]
        BY <1>1
    <3>2. f \in BOOLEAN OBVIOUS
    <3> QED BY <2>9, <2>10, <3>1, <3>2
  <2>13. j.stricter \/ j.exact BY <1>1
  <2> QED BY <1>3, <2>1, <2>7, <2>8, <2>9, <2>10, <2>11, <2>12, <2>13 DEF JobRecs
<1> QED BY <1>5, <1>6

\* A variable read for an expression in a context: a conversion of its value.
LEMMA ReadGood ==
    ASSUME opt \in Options, Prog, NEW t \in TypesOver(Ids), NEW free \in BOOLEAN,
           NEW glob \in BOOLEAN, NEW o, NEW want,
           want = Wildcard \/ want \in Vectors(t.stars + 1),
           NEW v \in choose_var({w \in vars : w.glob = glob}, FALSE, free, t, o, want, FALSE, "flexible")
    PROVE  LET q == indirect_qualifiers(v.q, Deref(v, t))
           IN  /\ q \in Quals(opt, OkAggs, t)
               /\ want # Wildcard /\ t.stars > 0 => Agrees(want, q)
               /\ \A dst : (t.stars > 0 => Agrees(dst, q))
                             => FlowGood(opt, Ids, ConstAggs, Flow(t, dst, v, Deref(v, t), FALSE, free))
<1> DEFINE q == indirect_qualifiers(v.q, Deref(v, t))
<1>1. /\ v \in {w \in vars : w.glob = glob} /\ MatchType(t, v.type, "flexible")
      /\ match_indirect(o, want, FALSE, v.q)
      /\ is_eligible_var(v, Deref(v, t), FALSE, free)
    BY Eligible
<1>2. v \in VarRecs(opt, Ids, OkAggs) BY <1>1 DEF Prog
<1>3. q \in Quals(opt, OkAggs, t) BY <1>1, <1>2, ChosenQuals
<1>4. want # Wildcard /\ t.stars > 0 => Agrees(want, q) BY <1>1, <1>2, MatchAgrees
<1>5. v.type \in TypesOver(Ids) /\ v.q \in Quals(opt, OkAggs, v.type) BY <1>2 DEF VarRecs
<1>6. ~free => ~v.q[v.type.stars + 1].v BY <1>1, <1>2, EligibleFlags
<1>7. ~free => ~Last(v.q).v BY <1>5, <1>6, QualsLast
<1> HIDE DEF q
<1>8. ASSUME NEW dst, t.stars > 0 => Agrees(dst, q)
      PROVE  FlowGood(opt, Ids, ConstAggs, Flow(t, dst, v, Deref(v, t), FALSE, free))
  <2>1. Len(q) = t.stars + 1 /\ t.stars \in Nat BY <1>3, QualsLast DEF TypesOver
  <2>2. t.stars > 0 => Len(dst) > 1 BY <1>8, <2>1 DEF Agrees, Converts
  <2> QED BY <1>7, <1>8, <2>2 DEF FlowGood, Flow, q
<1> QED BY <1>3, <1>4, <1>8 DEF q

LEMMA AssignStatementProg ==
    ASSUME opt \in Options, Prog, AssignStatement PROVE Prog'
<1>1. PICK free \in BOOLEAN : \E t \in SelectLType(~free) :
       /\ used' = MarkUsed(t) /\ ptrs' = AddPointer(t)
       /\ \/ /\ ~IsAgg(t)
             /\ job' \in Jobs(t, Wildcard, Wildcard, TRUE, opt.exact, free) /\ flow' = None
          \/ \E glob \in BOOLEAN :
             \E v \in choose_var({w \in vars : w.glob = glob}, FALSE, free, t, opt,
                                 Wildcard, FALSE, "flexible") :
               LET q == indirect_qualifiers(v.q, Deref(v, t))
               IN  /\ job' \in Jobs(t, q, q, TRUE, opt.exact, free)
                   /\ flow' = Flow(t, q, v, Deref(v, t), FALSE, free)
          \/ \E q \in random_qualifiers(t, FALSE, free, TRUE) :
               job' \in Jobs(t, q, q, TRUE, opt.exact, free) /\ flow' = None
    BY DEF AssignStatement
<1>2. PICK t \in SelectLType(~free) :
       /\ used' = MarkUsed(t) /\ ptrs' = AddPointer(t)
       /\ \/ /\ ~IsAgg(t)
             /\ job' \in Jobs(t, Wildcard, Wildcard, TRUE, opt.exact, free) /\ flow' = None
          \/ \E glob \in BOOLEAN :
             \E v \in choose_var({w \in vars : w.glob = glob}, FALSE, free, t, opt,
                                 Wildcard, FALSE, "flexible") :
               LET q == indirect_qualifiers(v.q, Deref(v, t))
               IN  /\ job' \in Jobs(t, q, q, TRUE, opt.exact, free)
                   /\ flow' = Flow(t, q, v, Deref(v, t), FALSE, free)
          \/ \E q \in random_qualifiers(t, FALSE, free, TRUE) :
               job' \in Jobs(t, q, q, TRUE, opt.exact, free) /\ flow' = None
    BY <1>1
<1>3. UNCHANGED <<opt, agg, vars, pend>> BY DEF AssignStatement
<1>4. \A p \in ptrs : p \in TypesOver(Ids) /\ p.stars > 0 BY DEF Prog
<1>5. t \in TypesOver(Ids) /\ ~is_const_struct_union(t) BY <1>2, <1>4, LTypes
<1>6. \A p \in ptrs' : p \in TypesOver(Ids) /\ p.stars > 0 BY <1>2, <1>4, <1>5 DEF AddPointer, IsPtr
<1>7. opt.exact \in BOOLEAN BY Exact
<1>8. /\ job' \in JobRecs(opt, Ids, OkAggs, ConstAggs)
      /\ flow' = None \/ FlowGood(opt, Ids, ConstAggs, flow')
  <2>1. CASE job' \in Jobs(t, Wildcard, Wildcard, TRUE, opt.exact, free) /\ flow' = None
      BY <1>5, <1>7, <2>1, JobsGood
  <2>2. ASSUME NEW glob \in BOOLEAN,
               NEW v \in choose_var({w \in vars : w.glob = glob}, FALSE, free, t, opt,
                                    Wildcard, FALSE, "flexible"),
               job' \in Jobs(t, indirect_qualifiers(v.q, Deref(v, t)),
                             indirect_qualifiers(v.q, Deref(v, t)), TRUE, opt.exact, free),
               flow' = Flow(t, indirect_qualifiers(v.q, Deref(v, t)), v, Deref(v, t), FALSE, free)
        PROVE  job' \in JobRecs(opt, Ids, OkAggs, ConstAggs) /\ FlowGood(opt, Ids, ConstAggs, flow')
    <3> DEFINE q == indirect_qualifiers(v.q, Deref(v, t))
    <3>1. /\ q \in Quals(opt, OkAggs, t)
          /\ \A dst : (t.stars > 0 => Agrees(dst, q))
                        => FlowGood(opt, Ids, ConstAggs, Flow(t, dst, v, Deref(v, t), FALSE, free))
        BY <1>5, <2>2, ReadGood
    <3>2. job' \in Jobs(t, q, q, TRUE, opt.exact, free)
          /\ flow' = Flow(t, q, v, Deref(v, t), FALSE, free)
        BY <2>2
    <3> HIDE DEF q
    <3>3. q \in Vectors(t.stars + 1) /\ t.stars + 1 \in Nat \ {0} BY <1>5, <3>1, QualsLast
    <3>4. Agrees(q, q) BY <3>3, AgreesOrder
    <3>5. job' \in JobRecs(opt, Ids, OkAggs, ConstAggs)
        BY <1>5, <1>7, <3>1, <3>2, <3>3, <3>4, JobsGood
    <3> QED BY <3>1, <3>2, <3>4, <3>5
  <2>3. ASSUME NEW q \in random_qualifiers(t, FALSE, free, TRUE),
               job' \in Jobs(t, q, q, TRUE, opt.exact, free)
        PROVE  job' \in JobRecs(opt, Ids, OkAggs, ConstAggs)
    <3>1. q \in Quals(opt, OkAggs, t) BY <1>5, <2>3, RandomQualifiers
    <3>2. q \in Vectors(t.stars + 1) /\ t.stars + 1 \in Nat \ {0} BY <1>5, <3>1, QualsLast
    <3>3. Agrees(q, q) BY <3>2, AgreesOrder
    <3> QED BY <1>5, <1>7, <2>3, <3>1, <3>2, <3>3, JobsGood
  <2> QED BY <1>2, <2>1, <2>2, <2>3
<1> QED BY <1>3, <1>6, <1>8, ProgStep DEF Prog

\* A value that is drawn without volatiles for qualifiers without volatiles.
LEMMA LooserAgrees ==
    ASSUME NEW o, NEW ok, NEW ids, NEW t \in TypesOver(ids), NEW q \in Quals(o, ok, t),
           NEW l, LooserThan(o, ok, t, q, TRUE, l), \A i \in 1..(t.stars + 1) : ~q[i].v
    PROVE  Agrees(q, l)
<1> DEFINE n == t.stars + 1
<1>1. l \in Quals(o, ok, t) /\ Looser(q, l) /\ \A i \in Deep(n) : l[i].c = q[i].c BY DEF LooserThan
<1>2. /\ q \in Vectors(n) /\ l \in Vectors(n) /\ n \in Nat \ {0} /\ Len(q) = n /\ Len(l) = n
    BY <1>1, QualsLast
<1>3. \A i \in 1..n : q[i] \in Flags /\ l[i] \in Flags BY <1>2, VectorSeq
<1> HIDE DEF n
<1>4. \A i \in 1..n : ~q[i].v /\ ~l[i].v /\ (l[i].c => q[i].c)
    BY <1>1, <1>2 DEF Looser, n
<1>5. \A i \in Deep(n) : q[i] = l[i]
  <2> SUFFICES ASSUME NEW i \in Deep(n) PROVE q[i] = l[i] OBVIOUS
  <2>1. i \in 1..n BY <1>2 DEF Deep
  <2>2. q[i].c = l[i].c BY <1>1
  <2> QED BY <1>3, <1>4, <2>1, <2>2 DEF Flags
<1>6. n > 1 => n - 1 \in 1..n /\ 1 \in 1..n BY <1>2
<1>7. n > 1 => /\ (l[n - 1].c => q[n - 1].c) /\ (l[n - 1].v => q[n - 1].v)
               /\ ~q[1].v /\ ~l[1].v
    BY <1>4, <1>6
<1>8. n > 1 => q[1] \in Flags /\ l[1] \in Flags BY <1>3, <1>6
<1>9. n > 1 => q[1].v = l[1].v BY <1>7, <1>8 DEF Flags
<1> QED BY <1>2, <1>5, <1>7, <1>9 DEF Agrees, Converts

LEMMA AssignExpressionProg ==
    ASSUME opt \in Options, Prog, AssignExpression PROVE Prog'
<1>1. UNCHANGED <<opt, agg, vars, ptrs>> /\ pend = <<>> BY DEF AssignExpression, Idle
<1>2. PICK free \in BOOLEAN :
        \E t \in ptrs \cup (IF free THEN choose_random_nonvoid ELSE choose_random_nonvoid_nonvolatile) :
          /\ ~is_const_struct_union(t)
          /\ \E qf \in AssignQualifiers(t, free) : ExpressionValue(t, qf, free)
    BY DEF AssignExpression
<1>3. PICK t \in ptrs \cup (IF free THEN choose_random_nonvoid ELSE choose_random_nonvoid_nonvolatile) :
        /\ ~is_const_struct_union(t)
        /\ \E qf \in AssignQualifiers(t, free) : ExpressionValue(t, qf, free)
    BY <1>2
<1>4. t \in TypesOver(Ids)
  <2>1. \A p \in ptrs : p \in TypesOver(Ids) BY DEF Prog
  <2> QED BY <1>3, <2>1, ChosenTypes
<1>5. PICK qf \in AssignQualifiers(t, free) : ExpressionValue(t, qf, free) BY <1>3
<1>6. /\ qf \in Quals(opt, OkAggs, t)
      /\ \A i \in 1..(t.stars + 1) : ~qf[i].v
    BY <1>4, <1>5, RandomQualifiers DEF AssignQualifiers
<1>7. qf \in Vectors(t.stars + 1) /\ t.stars + 1 \in Nat \ {0} /\ qf # Wildcard BY <1>4, <1>6, QualsLast
<1>8. opt.exact \in BOOLEAN /\ <<>> \in Seq(PendRecs(opt, Ids, OkAggs)) BY Exact
<1>9. ASSUME NEW src \in Vectors(t.stars + 1), t.stars > 0 => Agrees(qf, src),
             job' \in Jobs(t, qf, src, FALSE, TRUE, free)
      PROVE  job' \in JobRecs(opt, Ids, OkAggs, ConstAggs)
    BY <1>3, <1>4, <1>6, <1>9, JobsGood
<1>10. /\ job' \in JobRecs(opt, Ids, OkAggs, ConstAggs)
       /\ flow' = None \/ FlowGood(opt, Ids, ConstAggs, flow')
       /\ pend' \in Seq(PendRecs(opt, Ids, OkAggs))
  <2>1. ASSUME NEW glob \in BOOLEAN,
               NEW v \in choose_var({w \in vars : w.glob = glob}, FALSE, free, t, opt,
                                    qf, FALSE, "flexible"),
               job' \in Jobs(t, qf, indirect_qualifiers(v.q, Deref(v, t)), FALSE, TRUE, free),
               flow' = Flow(t, qf, v, Deref(v, t), FALSE, free), pend' = pend
        PROVE  /\ job' \in JobRecs(opt, Ids, OkAggs, ConstAggs)
               /\ FlowGood(opt, Ids, ConstAggs, flow')
               /\ pend' \in Seq(PendRecs(opt, Ids, OkAggs))
    <3> DEFINE q == indirect_qualifiers(v.q, Deref(v, t))
    <3>1. /\ q \in Quals(opt, OkAggs, t)
          /\ t.stars > 0 => Agrees(qf, q)
          /\ \A dst : (t.stars > 0 => Agrees(dst, q))
                        => FlowGood(opt, Ids, ConstAggs, Flow(t, dst, v, Deref(v, t), FALSE, free))
        BY <1>4, <1>7, <2>1, ReadGood
    <3>2. job' \in Jobs(t, qf, q, FALSE, TRUE, free) BY <2>1
    <3> HIDE DEF q
    <3>3. q \in Vectors(t.stars + 1) BY <1>4, <3>1, QualsLast
    <3>4. job' \in JobRecs(opt, Ids, OkAggs, ConstAggs) BY <1>9, <3>1, <3>2, <3>3
    <3>5. FlowGood(opt, Ids, ConstAggs, flow') BY <2>1, <3>1
    <3> QED BY <1>1, <1>8, <2>1, <3>4, <3>5
  <2>2. ASSUME NEW q \in random_qualifiers_of(opt, qf, FALSE),
               job' \in Jobs(t, qf, q, FALSE, TRUE, free), pend' = pend
        PROVE  /\ job' \in JobRecs(opt, Ids, OkAggs, ConstAggs)
               /\ pend' \in Seq(PendRecs(opt, Ids, OkAggs))
    <3>1. q \in random_loose_qualifiers(opt, qf, TRUE, FALSE, TRUE) BY <2>2 DEF random_qualifiers_of
    <3>2. t.stars \in Nat BY <1>4 DEF TypesOver
    <3>3. LooserThan(opt, OkAggs, t, qf, TRUE, q)
      <4>1. \A nv \in BOOLEAN, w \in BOOLEAN, f \in BOOLEAN :
              \A l \in random_loose_qualifiers(opt, qf, nv, w, f) : LooserThan(opt, OkAggs, t, qf, nv, l)
          BY <1>6, <1>8, <3>2, RandomLoose
      <4> QED BY <3>1, <4>1
    <3>4. Agrees(qf, q) BY <1>4, <1>6, <3>3, LooserAgrees
    <3>5. q \in Quals(opt, OkAggs, t) BY <3>3 DEF LooserThan
    <3>6. q \in Vectors(t.stars + 1) BY <1>4, <3>5, QualsLast
    <3>7. job' \in JobRecs(opt, Ids, OkAggs, ConstAggs) BY <1>9, <2>2, <3>4, <3>6
    <3> QED BY <1>1, <1>8, <2>2, <3>7
  <2>3. ASSUME NEW glob \in BOOLEAN, NEW v \in NewVariables(opt, t, glob, FALSE, free, qf),
               pend' = <<v>>, job' \in Jobs(t, qf, v.q, FALSE, TRUE, free)
        PROVE  /\ job' \in JobRecs(opt, Ids, OkAggs, ConstAggs)
               /\ pend' \in Seq(PendRecs(opt, Ids, OkAggs))
    <3>1. /\ v \in PendRecs(opt, Ids, OkAggs)
          /\ v.q = qf \/ v.q = restrict(qf, FALSE, free)
      <4>1. free \in BOOLEAN OBVIOUS
      <4>2. \A w \in BOOLEAN, f \in BOOLEAN, g \in BOOLEAN :
              v \in NewVariables(opt, t, g, w, f, qf) =>
                /\ v \in PendRecs(opt, Ids, OkAggs)
                /\ v.q = qf \/ v.q = restrict(qf, w, f)
          BY <1>4, <1>6, <1>7, <1>8, NewVariable
      <4> QED BY <2>3, <4>1, <4>2
    <3>2. restrict(qf, FALSE, free) \in Vectors(t.stars + 1) /\ SameBelow(qf, restrict(qf, FALSE, free))
        BY <1>7, RestrictTop
    <3>3. v.q \in Vectors(t.stars + 1) BY <1>7, <3>1, <3>2
    <3>4. Agrees(qf, v.q) BY <1>7, <3>1, <3>2, AgreesOrder
    <3>5. job' \in JobRecs(opt, Ids, OkAggs, ConstAggs) BY <1>9, <2>3, <3>3, <3>4
    <3> QED BY <2>3, <3>1, <3>5
  <2> QED BY <1>5, <2>1, <2>2, <2>3 DEF ExpressionValue
<1>11. \A p \in ptrs' : p \in TypesOver(Ids) /\ p.stars > 0 BY <1>1 DEF Prog
<1>12. vars' \subseteq VarRecs(opt, Ids, OkAggs) BY <1>1 DEF Prog
<1> QED BY <1>1, <1>10, <1>11, <1>12, ProgStep

LEMMA JobFacts ==
    ASSUME Prog, job # None
    PROVE  /\ job.type \in TypesOver(Ids) /\ job.type.stars \in Nat
           /\ job.stricter \in BOOLEAN /\ job.exact \in BOOLEAN /\ job.free \in BOOLEAN
           /\ job.stricter \/ job.exact
           /\ job.want = Wildcard <=> job.src = Wildcard
           /\ job.want # Wildcard =>
                /\ job.want \in Quals(opt, OkAggs, job.type)
                /\ job.want \in Vectors(job.type.stars + 1) /\ job.src \in Vectors(job.type.stars + 1)
                /\ Keeps(opt) /\ job.type.stars > 0 => Agrees(job.want, job.src)
           /\ ~ConstType(ConstAggs, job.type)
<1>1. job \in JobRecs(opt, Ids, OkAggs, ConstAggs) BY DEF Prog
<1> QED BY <1>1 DEF JobRecs, TypesOver, Quals

\* The conversion to the left-hand side.
LEMMA WrittenGood ==
    ASSUME Prog, job # None, NEW v,
           LET dst == indirect_qualifiers(v.q, Deref(v, job.type))
           IN  /\ Keeps(opt) /\ job.type.stars > 0 /\ job.want # Wildcard => Agrees(dst, job.src)
               /\ ~Last(dst).c
               /\ ~job.free => ~Last(v.q).v /\ ~Last(dst).v
    PROVE  FlowGood(opt, Ids, ConstAggs, Written(v))
<1> DEFINE dst == indirect_qualifiers(v.q, Deref(v, job.type))
           w == Written(v)
<1>1. /\ w.type = job.type /\ w.dst = dst /\ w.src = job.src /\ w.free = job.free /\ w.var = v.q
    BY DEF Written, Flow
<1> HIDE DEF w
<1>2. job.want = Wildcard <=> job.src = Wildcard BY JobFacts
<1>3. ~ConstType(ConstAggs, job.type) /\ job.type \in TypesOver(Ids) BY JobFacts
<1>4. ASSUME Keeps(opt), job.type.stars > 0, job.want # Wildcard PROVE Len(dst) > 1
  <2>1. Len(job.src) = job.type.stars + 1 BY <1>4, JobFacts, VectorSeq
  <2>2. Agrees(dst, job.src) BY <1>4
  <2> HIDE DEF dst
  <2> QED BY <1>4, <2>1, <2>2, JobFacts DEF Agrees, Converts
<1> QED BY <1>1, <1>2, <1>3, <1>4 DEF FlowGood, w

\* A variable that is there and is written, for the qualifiers want or restricted ones.
LEMMA WriteGood ==
    ASSUME opt \in Options, Prog, job # None, NEW from, from \subseteq vars,
           NEW want \in {job.want, restrict(job.want, TRUE, job.free)},
           NEW mt \in {"dereference", "deref_exact"},
           NEW v \in choose_var(from, TRUE, job.free, job.type, WithExact(job.exact), want,
                                job.stricter, mt)
    PROVE  FlowGood(opt, Ids, ConstAggs, Written(v))
<1> DEFINE t == job.type
           n == t.stars + 1
           dst == indirect_qualifiers(v.q, Deref(v, t))
           o == WithExact(job.exact)
           free == job.free
           stricter == job.stricter
<1>1. /\ t \in TypesOver(Ids) /\ t.stars \in Nat /\ n \in Nat \ {0} /\ free \in BOOLEAN
      /\ stricter \in BOOLEAN /\ job.exact \in BOOLEAN /\ (stricter \/ job.exact)
      /\ job.want # Wildcard =>
           /\ job.want \in Vectors(n) /\ job.src \in Vectors(n)
           /\ Keeps(opt) /\ t.stars > 0 => Agrees(job.want, job.src)
    BY JobFacts
<1>2. o.exact = job.exact /\ o.exact \in BOOLEAN BY <1>1, Exact
<1>3. v \in choose_var(from, TRUE, free, t, o, want, stricter, mt) OBVIOUS
<1> HIDE DEF t, n, dst, o, free, stricter
<1>4. /\ v \in from /\ MatchType(t, v.type, mt)
      /\ match_indirect(o, want, stricter, v.q)
      /\ is_eligible_var(v, Deref(v, t), TRUE, free)
    BY <1>3 DEF choose_var
<1>5. v \in VarRecs(opt, Ids, OkAggs) BY <1>4 DEF Prog
<1>6. v.type \in TypesOver(Ids) /\ v.q \in Quals(opt, OkAggs, v.type) /\ v.type.stars \in Nat
    BY <1>5 DEF VarRecs, TypesOver
<1>7. v.type.stars - t.stars \in 0..v.type.stars /\ Below(v.type, v.type.stars - t.stars) = t
  <2>1. CASE mt = "deref_exact" BY <1>1, <1>4, <1>6, <2>1, Levels
  <2>2. CASE mt = "dereference"
    <3>1. v.type.stars - t.stars \in 1..v.type.stars /\ Below(v.type, v.type.stars - t.stars) = t
        BY <1>1, <1>4, <1>6, <2>2, Levels
    <3> QED BY <1>6, <3>1
  <2> QED BY <2>1, <2>2
<1>8. /\ ~free => ~v.q[v.type.stars + 1].v
      /\ ~free => ~dst[t.stars + 1].v
      /\ ~dst[t.stars + 1].c
  <2>1. /\ ~free => ~v.q[v.type.stars + 1].v
        /\ v.type.stars - t.stars \in 0..v.type.stars /\ Below(v.type, v.type.stars - t.stars) = t =>
             /\ ~free => ~indirect_qualifiers(v.q, Deref(v, t))[t.stars + 1].v
             /\ TRUE => ~indirect_qualifiers(v.q, Deref(v, t))[t.stars + 1].c
      BY <1>1, <1>4, <1>5, EligibleFlags
  <2> QED BY <1>7, <2>1 DEF dst
<1>9. dst \in Quals(opt, OkAggs, t) BY <1>1, <1>4, <1>5, ChosenQuals DEF dst
<1>10. Last(dst) = dst[t.stars + 1] BY <1>1, <1>9, QualsLast
<1>11. Last(v.q) = v.q[v.type.stars + 1] BY <1>6, QualsLast
<1>12. dst \in Vectors(n) BY <1>9 DEF Quals, n
<1>13. ASSUME Keeps(opt), t.stars > 0, job.want # Wildcard PROVE Agrees(dst, job.src)
  <2>1. job.want \in Vectors(n) /\ job.src \in Vectors(n) /\ Agrees(job.want, job.src)
      BY <1>1, <1>13
  <2>2. /\ restrict(job.want, TRUE, free) \in Vectors(n)
        /\ SameBelow(job.want, restrict(job.want, TRUE, free))
      BY <1>1, <2>1, RestrictTop
  <2>3. want \in Vectors(n) /\ Agrees(want, job.want)
    <3>1. want = job.want \/ want = restrict(job.want, TRUE, free) BY DEF free
    <3>2. Agrees(job.want, job.want) BY <1>1, <2>1, AgreesOrder
    <3>3. Agrees(restrict(job.want, TRUE, free), job.want) BY <1>1, <2>1, <2>2, AgreesOrder
    <3> QED BY <2>1, <2>2, <3>1, <3>2, <3>3
  <2>4. Agrees(dst, want)
    <3>1. /\ match_indirect(o, want, TRUE, v.q) => Agrees(dst, want)
          /\ \A s : match_indirect(o, want, s, v.q) /\ o.exact => Agrees(dst, want)
        BY <1>4, <1>5, <1>1, <1>13, <2>3, MatchAgrees DEF dst, n
    <3>2. stricter = TRUE \/ o.exact BY <1>1, <1>2
    <3> QED BY <1>4, <3>1, <3>2
  <2>5. Agrees(dst, job.want) BY <1>1, <1>12, <2>1, <2>3, <2>4, AgreesOrder
  <2> QED BY <1>1, <1>12, <2>1, <2>5, AgreesOrder
<1> QED BY <1>8, <1>10, <1>11, <1>13, WrittenGood DEF t, dst, free

LEMMA LhsExistingProg ==
    ASSUME opt \in Options, Prog, LhsExisting PROVE Prog'
<1>1. job # None /\ job' = None /\ UNCHANGED <<opt, agg, vars, pend, ptrs>> BY DEF LhsExisting
<1>2. PICK v \in Dereferenceable \cup UNION
       {choose_var({w \in vars : w.glob = glob}, TRUE, job.free, job.type, WithExact(job.exact),
                   restrict(job.want, TRUE, job.free), job.stricter, "deref_exact") : glob \in BOOLEAN} :
       flow' = Written(v)
    BY DEF LhsExisting
<1>3. FlowGood(opt, Ids, ConstAggs, flow')
  <2>1. CASE v \in Dereferenceable
    <3>1. {w \in vars : w.glob => ~Last(w.q).v} \subseteq vars OBVIOUS
    <3> QED BY <1>1, <1>2, <2>1, <3>1, WriteGood DEF Dereferenceable
  <2>2. ASSUME NEW glob \in BOOLEAN,
               v \in choose_var({w \in vars : w.glob = glob}, TRUE, job.free, job.type,
                                WithExact(job.exact), restrict(job.want, TRUE, job.free),
                                job.stricter, "deref_exact")
        PROVE  FlowGood(opt, Ids, ConstAggs, flow')
    <3>1. {w \in vars : w.glob = glob} \subseteq vars OBVIOUS
    <3> QED BY <1>1, <1>2, <2>2, <3>1, WriteGood
  <2> QED BY <1>2, <2>1, <2>2
<1> QED BY <1>1, <1>3, ProgStep DEF Prog

LEMMA GiveUpProg ==
    ASSUME Prog, GiveUp PROVE Prog'
BY ProgStep DEF GiveUp, Prog

LEMMA LhsNewVariableProg ==
    ASSUME opt \in Options, Prog, LhsNewVariable PROVE Prog'
<1> DEFINE t == job.type
           n == t.stars + 1
           o == WithExact(job.exact)
           free == job.free
           want == job.want
           given == restrict(want, TRUE, free)
<1>1. job # None /\ job' = None /\ UNCHANGED <<opt, agg, vars, ptrs>> BY DEF LhsNewVariable
<1>2. PICK glob \in BOOLEAN : \E v \in NewVariables(o, t, glob, TRUE, free, given) :
        pend' = <<v>> /\ flow' = Written(v)
    BY DEF LhsNewVariable
<1>2a. PICK v \in NewVariables(o, t, glob, TRUE, free, given) : pend' = <<v>> /\ flow' = Written(v)
    BY <1>2
<1>3. /\ t \in TypesOver(Ids) /\ t.stars \in Nat /\ n \in Nat \ {0} /\ free \in BOOLEAN
      /\ want # Wildcard =>
           /\ want \in Quals(opt, OkAggs, t) /\ want \in Vectors(n) /\ job.src \in Vectors(n)
           /\ Keeps(opt) /\ t.stars > 0 => Agrees(want, job.src)
    BY <1>1, JobFacts
<1>4. o.exact \in BOOLEAN
  <2>1. job.exact \in BOOLEAN BY <1>1, JobFacts
  <2> QED BY <2>1, Exact
<1> HIDE DEF o, t, n, free, want, given
<1>5. want = Wildcard => given = Wildcard BY <1>3, RestrictWildcard DEF given
<1>6. want # Wildcard =>
        /\ given \in Quals(opt, OkAggs, t) /\ given \in Vectors(n) /\ given # Wildcard
        /\ SameBelow(want, given) /\ ~given[n].c /\ (~free => ~given[n].v)
  <2> SUFFICES ASSUME want # Wildcard
               PROVE  /\ given \in Quals(opt, OkAggs, t) /\ given \in Vectors(n) /\ given # Wildcard
                      /\ SameBelow(want, given) /\ ~given[n].c /\ (~free => ~given[n].v)
      OBVIOUS
  <2>1. /\ given \in Vectors(n) /\ SameBelow(want, given) /\ Looser(want, given)
        /\ ~given[n].c /\ (~free => ~given[n].v)
      BY <1>3, RestrictTop DEF given
  <2>2. given \in Quals(opt, OkAggs, t) BY <1>3, <2>1, LooserQuals DEF n
  <2> QED BY <1>3, <2>1, <2>2, NotWildcard
<1>7. given = Wildcard \/ given \in Quals(opt, OkAggs, t) BY <1>5, <1>6
<1>8. /\ v \in PendRecs(opt, Ids, OkAggs) /\ v.type = t
      /\ given = Wildcard => ~v.q[n].c /\ (~free => ~v.q[n].v)
      /\ given # Wildcard => v.q = given \/ v.q = restrict(given, TRUE, free)
  <2>1. \A w \in BOOLEAN, f \in BOOLEAN, g \in BOOLEAN :
          v \in NewVariables(o, t, g, w, f, given) =>
            /\ v \in PendRecs(opt, Ids, OkAggs) /\ v.type = t
            /\ given = Wildcard => /\ w => ~v.q[t.stars + 1].c
                                   /\ ~f => ~v.q[t.stars + 1].v
            /\ given # Wildcard => v.q = given \/ v.q = restrict(given, w, f)
      BY <1>3, <1>4, <1>7, NewVariable
  <2> QED BY <1>2a, <1>3, <2>1 DEF n
<1>9. v.q \in Quals(opt, OkAggs, t) BY <1>8 DEF PendRecs
<1>10. v.q \in Vectors(n) /\ Last(v.q) = v.q[n] BY <1>3, <1>9, QualsLast DEF n
<1>11. given # Wildcard => /\ SameBelow(given, v.q) /\ ~v.q[n].c /\ (~free => ~v.q[n].v)
  <2> SUFFICES ASSUME given # Wildcard
               PROVE  SameBelow(given, v.q) /\ ~v.q[n].c /\ (~free => ~v.q[n].v)
      OBVIOUS
  <2>1. want # Wildcard BY <1>5
  <2>2. CASE v.q = given BY <1>6, <2>1, <2>2 DEF SameBelow
  <2>3. given \in Vectors(n) BY <1>6, <2>1
  <2>4. LET r == restrict(given, TRUE, free)
        IN  SameBelow(given, r) /\ ~r[n].c /\ (~free => ~r[n].v)
      BY <1>3, <2>3, RestrictTop
  <2> QED BY <1>8, <2>2, <2>4
<1>12. Deref(v, t) = 0 BY <1>3, <1>8 DEF Deref, get_indirect_level
<1>13. indirect_qualifiers(v.q, Deref(v, t)) = v.q BY <1>12 DEF indirect_qualifiers
<1>14. ASSUME Keeps(opt), t.stars > 0, want # Wildcard PROVE Agrees(v.q, job.src)
  <2>1. Agrees(want, job.src) /\ want \in Vectors(n) /\ job.src \in Vectors(n) BY <1>3, <1>14
  <2>2. SameBelow(want, given) /\ given \in Vectors(n) /\ given # Wildcard BY <1>6, <1>14
  <2>3. SameBelow(given, v.q) BY <1>11, <2>2
  <2>4. Agrees(v.q, given) BY <1>3, <1>10, <2>2, <2>3, AgreesOrder
  <2>5. Agrees(given, want) BY <1>3, <2>1, <2>2, AgreesOrder
  <2>6. Agrees(v.q, want) BY <1>3, <1>10, <2>1, <2>2, <2>4, <2>5, AgreesOrder
  <2> QED BY <1>3, <1>10, <2>1, <2>6, AgreesOrder
<1>15. ~Last(v.q).c /\ (~free => ~Last(v.q).v) BY <1>8, <1>10, <1>11
<1>16. FlowGood(opt, Ids, ConstAggs, flow')
  <2>1. /\ Keeps(opt) /\ t.stars > 0 /\ want # Wildcard => Agrees(v.q, job.src)
        /\ ~Last(v.q).c
        /\ ~free => ~Last(v.q).v
      BY <1>14, <1>15
  <2> QED BY <1>1, <1>2a, <1>13, <2>1, WrittenGood DEF t, free, want
<1>17. pend' \in Seq(PendRecs(opt, Ids, OkAggs)) BY <1>2a, <1>8
<1> QED BY <1>1, <1>16, <1>17, ProgStep DEF Prog

\* A pointer that is added in front of a variable to write.
LEMMA RandomAdd ==
    ASSUME opt \in Options, opt.global_variables, NEW e \in BOOLEAN, NEW nv \in BOOLEAN,
           NEW t \in TypesOver(Ids), NEW want \in Quals(opt, OkAggs, t),
           NEW q \in random_add_qualifiers(WithExact(e), want, nv)
    PROVE  /\ q \in Quals(opt, OkAggs, Ptr(t))
           /\ \A i \in 1..(t.stars + 1) : q[i] = want[i]
           /\ nv => ~q[t.stars + 2].v
<1> DEFINE n == t.stars + 1
           o == WithExact(e)
<1>1. /\ o.const_pointers = opt.const_pointers /\ o.volatile_pointers = opt.volatile_pointers
      /\ o.global_variables = opt.global_variables
    BY Exact
<1> HIDE DEF o
<1>2. Plain \in Flags /\ ~Plain.c /\ ~Plain.v BY DEF Plain, Flags
<1>3. PICK f \in Flags : /\ q = Append(want, f)
                         /\ f.c => opt.const_pointers
                         /\ f.v => opt.volatile_pointers /\ ~nv
  <2>1. CASE o.exact
    <3>1. q = Append(want, Plain) BY <2>1 DEF random_add_qualifiers, o
    <3> QED BY <1>2, <3>1
  <2>2. CASE ~o.exact
    <3>1. q \in {Append(want, f) : f \in {g \in Flags :
                     /\ g.c => o.const_pointers /\ o.consts
                     /\ g.v => o.volatile_pointers /\ o.volatiles /\ ~nv}}
        BY <2>2 DEF random_add_qualifiers, o
    <3> QED BY <1>1, <3>1
  <2> QED BY <2>1, <2>2
<1>4. /\ n \in Nat \ {0} /\ want \in Seq(Flags) /\ Len(want) = n
      /\ Scalar(opt, want) /\ (want[1].v /\ t.kind = "agg" => t.id \in OkAggs)
    BY QualsLast DEF Quals
<1>5. Ptr(t).stars + 1 = n + 1 /\ Ptr(t).kind = t.kind /\ Ptr(t).id = t.id
    BY <1>4, PtrType DEF TypesOver
<1>6. t.stars + 2 = n + 1 BY DEF TypesOver
<1> HIDE DEF n
<1>7. q \in Seq(Flags) /\ Len(q) = n + 1 /\ q[n + 1] = f /\ \A i \in 1..n : q[i] = want[i]
    BY <1>3, <1>4, AppendProperties
<1>8. q \in Vectors(n + 1) BY <1>4, <1>7, VectorOf
<1>9. Scalar(opt, q)
  <2> SUFFICES ASSUME NEW i \in 2..(n + 1)
               PROVE  /\ q[i].c => opt.const_pointers
                      /\ q[i].v => opt.volatile_pointers /\ opt.global_variables
      BY <1>4, <1>7 DEF Scalar
  <2>1. CASE i = n + 1 BY <2>1, <1>3, <1>7
  <2>2. CASE i # n + 1
    <3>1. i \in 2..n /\ i \in 1..n BY <2>2, <1>4
    <3> QED BY <3>1, <1>4, <1>7 DEF Scalar
  <2> QED BY <2>1, <2>2
<1>10. q[1] = want[1] BY <1>4, <1>7
<1>11. q \in Quals(opt, OkAggs, Ptr(t)) BY <1>4, <1>5, <1>8, <1>9, <1>10 DEF Quals
<1> QED BY <1>3, <1>6, <1>7, <1>11 DEF n

\* The qualifiers drawn for the pointer made to write the variable of a job.
PointerQuals ==
    IF job.want = Wildcard \/ ~opt.global_variables
      THEN random_qualifiers(Ptr(job.type), TRUE, job.free, TRUE)
      ELSE random_add_qualifiers(WithExact(job.exact), job.want, ~job.free)

LEMMA PointerQualsGood ==
    ASSUME opt \in Options, Prog, job # None, NEW q \in PointerQuals
    PROVE  LET m == job.type.stars + 1
               pq == [q EXCEPT ![Len(q) - 1].c = FALSE]
           IN  /\ pq \in Quals(opt, OkAggs, Ptr(job.type))
               /\ ~pq[m].c
               /\ ~job.free => ~pq[m + 1].v
               /\ Keeps(opt) /\ job.want # Wildcard =>
                    /\ \A i \in 1..(m - 1) : pq[i] = job.want[i]
                    /\ pq[m].v = job.want[m].v
<1> DEFINE t == job.type
           m == t.stars + 1
           pt == Ptr(t)
           want == job.want
           free == job.free
           pq == [q EXCEPT ![Len(q) - 1].c = FALSE]
<1>1. /\ t \in TypesOver(Ids) /\ t.stars \in Nat /\ free \in BOOLEAN /\ job.exact \in BOOLEAN
      /\ want # Wildcard => want \in Quals(opt, OkAggs, t)
    BY JobFacts
<1>2. /\ pt \in TypesOver(Ids) /\ pt.stars = m /\ m \in Nat \ {0} /\ m + 1 = t.stars + 2
    BY <1>1, PtrType
<1>3. /\ q \in Quals(opt, OkAggs, pt)
      /\ ~free => ~q[m + 1].v
      /\ Keeps(opt) /\ want # Wildcard => \A i \in 1..m : q[i] = want[i]
  <2>1. CASE want = Wildcard \/ ~opt.global_variables
    <3>1. q \in random_qualifiers(pt, TRUE, free, TRUE) BY <2>1 DEF PointerQuals
    <3>2. q \in Quals(opt, OkAggs, pt) /\ (~free => ~q[pt.stars + 1].v)
        BY <1>1, <1>2, <3>1, RandomQualifiers
    <3> QED BY <1>2, <2>1, <3>2 DEF Keeps
  <2>2. CASE ~(want = Wildcard \/ ~opt.global_variables)
    <3>1. q \in random_add_qualifiers(WithExact(job.exact), want, ~free) BY <2>2 DEF PointerQuals
    <3>2. (~free) \in BOOLEAN /\ opt.global_variables /\ want \in Quals(opt, OkAggs, t)
        BY <1>1, <2>2
    <3>3. /\ q \in Quals(opt, OkAggs, Ptr(t))
          /\ \A i \in 1..(t.stars + 1) : q[i] = want[i]
          /\ ~free => ~q[t.stars + 2].v
      <4> DEFINE e == job.exact
      <4>1. e \in BOOLEAN /\ q \in random_add_qualifiers(WithExact(e), want, ~free) BY <1>1, <3>1
      <4> HIDE DEF t, want, free, e
      <4>2. \A nv \in BOOLEAN :
              q \in random_add_qualifiers(WithExact(e), want, nv) =>
                /\ q \in Quals(opt, OkAggs, Ptr(t))
                /\ \A i \in 1..(t.stars + 1) : q[i] = want[i]
                /\ nv => ~q[t.stars + 2].v
          BY <1>1, <3>2, <4>1, RandomAdd
      <4> QED BY <3>2, <4>1, <4>2
    <3> QED BY <1>2, <3>3
  <2> QED BY <2>1, <2>2
<1> HIDE DEF t, pt, want, free, m
<1>4. q \in Vectors(m + 1) /\ q \in Seq(Flags) /\ Len(q) = m + 1 BY <1>2, <1>3, QualsLast
<1>5. Len(q) - 1 = m /\ m \in 1..(m + 1) BY <1>2, <1>4
<1>6. pq = [q EXCEPT ![m] = [q[m] EXCEPT !.c = FALSE]] BY <1>5
<1>7. q[m] \in Flags BY <1>2, <1>4, <1>5, VectorSeq
<1>8. /\ [q[m] EXCEPT !.c = FALSE] \in Flags /\ ~[q[m] EXCEPT !.c = FALSE].c
      /\ [q[m] EXCEPT !.c = FALSE].v = q[m].v
    BY <1>7 DEF Flags
<1>9. pq \in Vectors(m + 1) /\ \A i \in 1..(m + 1) : i # m => pq[i] = q[i]
    BY <1>4, <1>6, <1>8 DEF Vectors
<1>10. ~pq[m].c /\ pq[m].v = q[m].v
  <2>1. pq[m] = [q[m] EXCEPT !.c = FALSE] BY <1>4, <1>5, <1>6 DEF Vectors
  <2> QED BY <1>8, <2>1
<1> HIDE DEF pq
<1>11. Len(pq) = m + 1 BY <1>2, <1>9, VectorSeq
<1>12. Looser(q, pq) BY <1>4, <1>9, <1>10, <1>11 DEF Looser
<1>13. pq \in Quals(opt, OkAggs, pt) BY <1>2, <1>3, <1>9, <1>12, LooserQuals
<1>14. m + 1 \in 1..(m + 1) /\ m + 1 # m BY <1>2
<1>15. ~free => ~pq[m + 1].v BY <1>3, <1>9, <1>14
<1>16. ASSUME Keeps(opt), want # Wildcard
       PROVE  (\A i \in 1..(m - 1) : pq[i] = want[i]) /\ pq[m].v = want[m].v
  <2>1. \A i \in 1..m : q[i] = want[i] BY <1>3, <1>16
  <2>2. m \in 1..m /\ \A i \in 1..(m - 1) : i \in 1..m /\ i \in 1..(m + 1) /\ i # m BY <1>2
  <2> QED BY <1>9, <1>10, <2>1, <2>2
<1> QED BY <1>10, <1>13, <1>15, <1>16 DEF t, m, pt, want, free, pq

LEMMA LhsNewPointerProg ==
    ASSUME opt \in Options, Prog, LhsNewPointer PROVE Prog'
<1> DEFINE t == job.type
           m == t.stars + 1
           pt == Ptr(t)
           want == job.want
           free == job.free
           o == WithExact(job.exact)
<1>1. /\ job # None /\ UNCHANGED <<opt, agg, vars>> /\ ptrs' = AddPointer(pt)
    BY DEF LhsNewPointer
<1>2. PICK q \in PointerQuals :
        \E v \in NewVariables(o, pt, Last([q EXCEPT ![Len(q) - 1].c = FALSE]).v, TRUE, free,
                              [q EXCEPT ![Len(q) - 1].c = FALSE]) :
          /\ pend' = <<v>>
          /\ IF ~free /\ (Last(Front(v.q)).v \/ is_volatile_struct_union(t))
               THEN job' = job /\ flow' = None
               ELSE job' = None /\ flow' = Written(v)
    BY DEF LhsNewPointer, PointerQuals
<1> DEFINE pq == [q EXCEPT ![Len(q) - 1].c = FALSE]
<1>3. PICK v \in NewVariables(o, pt, Last(pq).v, TRUE, free, pq) :
          /\ pend' = <<v>>
          /\ IF ~free /\ (Last(Front(v.q)).v \/ is_volatile_struct_union(t))
               THEN job' = job /\ flow' = None
               ELSE job' = None /\ flow' = Written(v)
    BY <1>2
<1>4. /\ t \in TypesOver(Ids) /\ t.stars \in Nat /\ m \in Nat \ {0} /\ free \in BOOLEAN
      /\ want # Wildcard =>
           /\ want \in Vectors(m) /\ job.src \in Vectors(m)
           /\ Keeps(opt) /\ t.stars > 0 => Agrees(want, job.src)
    BY <1>1, JobFacts
<1>5. o.exact \in BOOLEAN
  <2>1. job.exact \in BOOLEAN BY <1>1, JobFacts
  <2> QED BY <2>1, Exact
<1>6. /\ pt \in TypesOver(Ids) /\ pt.stars = m /\ Below(pt, 1) = t BY <1>4, PtrType
<1>7. /\ pq \in Quals(opt, OkAggs, pt)
      /\ ~pq[m].c
      /\ ~free => ~pq[m + 1].v
      /\ Keeps(opt) /\ want # Wildcard =>
           /\ \A i \in 1..(m - 1) : pq[i] = want[i]
           /\ pq[m].v = want[m].v
    BY <1>1, <1>2, PointerQualsGood
<1> HIDE DEF t, m, pt, want, free, o, pq
<1>8. /\ pq \in Vectors(m + 1) /\ Len(pq) = m + 1 /\ Last(pq) = pq[m + 1] /\ pq # Wildcard
      /\ m + 1 \in Nat \ {0} /\ pq[m + 1] \in Flags
  <2>1. pq \in Vectors(m + 1) /\ Len(pq) = m + 1 /\ Last(pq) = pq[m + 1] /\ pq # Wildcard
      BY <1>6, <1>7, QualsLast
  <2>2. m + 1 \in Nat \ {0} /\ m + 1 \in 1..(m + 1) BY <1>4
  <2> QED BY <2>1, <2>2, VectorSeq
<1>9. Last(pq).v \in BOOLEAN BY <1>8 DEF Flags
<1>10. /\ v \in PendRecs(opt, Ids, OkAggs) /\ v.type = pt
       /\ v.q = pq \/ v.q = restrict(pq, TRUE, free)
  <2>1. \A w \in BOOLEAN, f \in BOOLEAN, g \in BOOLEAN :
          v \in NewVariables(o, pt, g, w, f, pq) =>
            /\ v \in PendRecs(opt, Ids, OkAggs) /\ v.type = pt
            /\ v.q = pq \/ v.q = restrict(pq, w, f)
      BY <1>5, <1>6, <1>7, <1>8, NewVariable
  <2> QED BY <1>3, <1>4, <1>9, <2>1
<1>11. v.q \in Quals(opt, OkAggs, pt) BY <1>10 DEF PendRecs
<1>12. v.q \in Vectors(m + 1) /\ v.q \in Seq(Flags) /\ Len(v.q) = m + 1 /\ Last(v.q) = v.q[m + 1]
    BY <1>6, <1>11, QualsLast
<1>13. SameBelow(pq, v.q) /\ (~free => ~v.q[m + 1].v)
  <2>1. CASE v.q = pq BY <1>7, <2>1 DEF SameBelow
  <2>2. LET r == restrict(pq, TRUE, free) IN SameBelow(pq, r) /\ (~free => ~r[m + 1].v)
      BY <1>4, <1>8, RestrictTop
  <2> QED BY <1>10, <2>1, <2>2
<1>14. \A i \in 1..m : v.q[i] = pq[i]
  <2>1. (m + 1) - 1 = m BY <1>4
  <2> QED BY <1>8, <1>13, <2>1 DEF SameBelow
<1> DEFINE dst == indirect_qualifiers(v.q, Deref(v, t))
<1>15. Deref(v, t) = 1 BY <1>4, <1>6, <1>10 DEF Deref, get_indirect_level, m
<1>16. 1 \in 0..pt.stars BY <1>4, <1>6
<1>17. dst \in Quals(opt, OkAggs, t) /\ \A i \in 1..m : dst[i] = v.q[i]
  <2>1. /\ indirect_qualifiers(v.q, 1) \in Quals(opt, OkAggs, Below(pt, 1))
        /\ \A i \in 1..(pt.stars + 1 - 1) : indirect_qualifiers(v.q, 1)[i] = v.q[i]
      BY <1>6, <1>11, <1>16, Indirect
  <2>2. pt.stars + 1 - 1 = m BY <1>4, <1>6
  <2> QED BY <1>6, <1>15, <2>1, <2>2
<1>18. Last(Front(v.q)) = v.q[m]
  <2>1. Front(v.q) = SubSeq(v.q, 1, m)
    <3>1. Len(v.q) - 1 = m BY <1>4, <1>12
    <3> QED BY <3>1 DEF Front
  <2>2. Len(SubSeq(v.q, 1, m)) = m /\ SubSeq(v.q, 1, m)[m] = v.q[m]
      BY <1>4, <1>12, SubSeqProperties
  <2> QED BY <2>1, <2>2 DEF Last
<1> HIDE DEF dst
<1>19. dst \in Vectors(m) /\ Len(dst) = m /\ Last(dst) = dst[m] BY <1>4, <1>17, QualsLast DEF m
<1>20. m \in 1..m BY <1>4
<1>21. dst[m] = pq[m] /\ dst[m] = v.q[m] BY <1>14, <1>17, <1>20
<1>22. ASSUME Keeps(opt), t.stars > 0, want # Wildcard PROVE Agrees(dst, job.src)
  <2>1. want \in Vectors(m) /\ job.src \in Vectors(m) /\ Agrees(want, job.src) BY <1>4, <1>22
  <2>2. \A i \in 1..(m - 1) : dst[i] = want[i]
    <3>1. \A i \in 1..(m - 1) : pq[i] = want[i] BY <1>7, <1>22
    <3>2. \A i \in 1..(m - 1) : i \in 1..m BY <1>4
    <3> QED BY <1>14, <1>17, <3>1, <3>2
  <2>3. Len(want) = m BY <1>4, <2>1, VectorSeq
  <2>4. SameBelow(want, dst) BY <1>19, <2>2, <2>3 DEF SameBelow
  <2>5. Agrees(dst, want) BY <1>4, <1>19, <2>1, <2>4, AgreesOrder
  <2> QED BY <1>4, <1>19, <2>1, <2>5, AgreesOrder
<1>23. flow' = None \/ FlowGood(opt, Ids, ConstAggs, flow')
  <2>1. CASE ~free /\ (Last(Front(v.q)).v \/ is_volatile_struct_union(t)) BY <1>3, <2>1
  <2>2. CASE ~(~free /\ (Last(Front(v.q)).v \/ is_volatile_struct_union(t)))
    <3>1. flow' = Written(v) BY <1>3, <2>2
    <3>2. ~Last(dst).c BY <1>7, <1>19, <1>21
    <3>3. ~free => ~Last(v.q).v /\ ~Last(dst).v BY <1>12, <1>13, <1>18, <1>19, <1>21, <2>2
    <3> QED BY <1>1, <1>22, <3>1, <3>2, <3>3, WrittenGood DEF dst, t, want, free
  <2> QED BY <2>1, <2>2
<1>24. job' = None \/ job' \in JobRecs(opt, Ids, OkAggs, ConstAggs) BY <1>1, <1>3 DEF Prog
<1>25. \A p \in ptrs' : p \in TypesOver(Ids) /\ p.stars > 0
  <2>1. \A p \in ptrs : p \in TypesOver(Ids) /\ p.stars > 0 BY DEF Prog
  <2>2. pt.stars > 0 BY <1>4, <1>6
  <2> QED BY <1>1, <1>6, <2>1, <2>2 DEF AddPointer
<1>26. pend' \in Seq(PendRecs(opt, Ids, OkAggs)) BY <1>3, <1>10
<1> QED BY <1>1, <1>23, <1>24, <1>25, <1>26, ProgStep DEF Prog

-----------------------------------------------------------------------------
(* The phases of a run: types are made, then used, then printed.           *)

Making == phase \in {"structs", "unions"}
Printing == phase \in {"printing", "printed"}

Shape ==
    /\ opt \in Options
    /\ phase \in {"structs", "unions", "program", "printing", "printed"}
    /\ cur # None => Making
    /\ Making => vars = {} /\ pend = <<>> /\ job = None /\ flow = None /\ ptrs = {} /\ used = {}
    /\ Printing => pend = <<>> /\ job = None
    /\ ~Printing => turn = 0 /\ calls = <<>> /\ printed = {} /\ out = <<>>
    /\ phase = "printed" => calls = <<>> /\ turn = Len(agg)

MakeTypes == StartStruct \/ StartUnion \/ AddField \/ FinishAggregate \/ NextKind
UseTypes ==
    \/ Declare \/ InitDone \/ InitAddress \/ InitNew \/ AssignStatement \/ AssignExpression
    \/ LhsExisting \/ LhsNewPointer \/ LhsNewVariable \/ GiveUp
PrintTypes == Output \/ OutputStructUnionDeclarations \/ OutputStructUnion \/ EndOutput

LEMMA NextSteps == Next => MakeTypes \/ UseTypes \/ PrintTypes \/ UNCHANGED tvars
BY DEF Next, MakeTypes, UseTypes, PrintTypes, Finished

LEMMA MakeStep ==
    ASSUME Shape, MakeTypes
    PROVE  /\ Making /\ UNCHANGED <<opt, used, ptrs, vars, pend, job, flow, paper>>
           /\ phase' \in {"structs", "unions", "program"}
           /\ cur' # None => phase' \in {"structs", "unions"}
<1>1. CASE StartStruct BY <1>1 DEF Shape, StartStruct, StartAggregate, Making
<1>2. CASE StartUnion BY <1>2 DEF Shape, StartUnion, StartAggregate, Making
<1>3. CASE AddField BY <1>3 DEF Shape, AddField, Making
<1>4. CASE FinishAggregate BY <1>4 DEF Shape, FinishAggregate, Making
<1>5. CASE NextKind BY <1>5 DEF Shape, NextKind, Making
<1> QED BY <1>1, <1>2, <1>3, <1>4, <1>5 DEF MakeTypes

LEMMA UseStep ==
    ASSUME Shape, UseTypes
    PROVE  phase = "program" /\ UNCHANGED <<opt, phase, agg, cur, paper>>
<1>1. CASE Declare BY <1>1 DEF Declare
<1>2. CASE InitDone BY <1>2 DEF Shape, InitDone, Making, Printing
<1>3. CASE InitAddress BY <1>3 DEF Shape, InitAddress, Making, Printing
<1>4. CASE InitNew BY <1>4 DEF Shape, InitNew, Making, Printing
<1>5. CASE AssignStatement BY <1>5 DEF AssignStatement, Idle
<1>6. CASE AssignExpression BY <1>6 DEF AssignExpression, Idle
<1>7. CASE LhsExisting BY <1>7 DEF Shape, LhsExisting, Making, Printing
<1>8. CASE LhsNewPointer BY <1>8 DEF Shape, LhsNewPointer, Making, Printing
<1>9. CASE LhsNewVariable BY <1>9 DEF Shape, LhsNewVariable, Making, Printing
<1>10. CASE GiveUp BY <1>10 DEF Shape, GiveUp, Making, Printing
<1> QED BY <1>1, <1>2, <1>3, <1>4, <1>5, <1>6, <1>7, <1>8, <1>9, <1>10 DEF UseTypes

LEMMA PrintStep ==
    ASSUME Shape, PrintTypes
    PROVE  /\ UNCHANGED <<opt, agg, cur, used, ptrs, vars, pend, job>> /\ flow' \in {None, flow}
           /\ phase \in {"program", "printing"} /\ phase' \in {"printing", "printed"}
           /\ cur = None /\ pend = <<>> /\ job = None
           /\ phase' = "printed" => calls' = <<>> /\ turn' = Len(agg)
<1>1. CASE Output BY <1>1 DEF Shape, Output, Idle, Making
<1>2. CASE OutputStructUnionDeclarations
    BY <1>2 DEF Shape, OutputStructUnionDeclarations, Making, Printing
<1>3. CASE OutputStructUnion
  <2>1. calls # <<>> /\ UNCHANGED <<opt, phase, agg, cur, used, ptrs, vars, pend, job, flow, turn>>
      BY <1>3 DEF OutputStructUnion
  <2> QED BY <2>1 DEF Shape, Making, Printing
<1>4. CASE EndOutput BY <1>4 DEF Shape, EndOutput, paper, Making, Printing
<1> QED BY <1>1, <1>2, <1>3, <1>4 DEF PrintTypes

LEMMA ShapeInit == Init => Shape
BY DEF Init, Shape, Making, Printing

LEMMA ShapeNext == Shape /\ [Next]_tvars => Shape'
<1> SUFFICES ASSUME Shape, [Next]_tvars PROVE Shape' OBVIOUS
<1>1. CASE MakeTypes BY <1>1, MakeStep DEF Shape, Making, Printing, paper
<1>2. CASE UseTypes BY <1>2, UseStep DEF Shape, Making, Printing, paper
<1>3. CASE PrintTypes BY <1>3, PrintStep DEF Shape, Making, Printing
<1>4. CASE UNCHANGED tvars BY <1>4 DEF tvars, Shape, Making, Printing
<1> QED BY <1>1, <1>2, <1>3, <1>4, NextSteps

LEMMA ProgNext == Shape /\ Prog /\ [Next]_tvars => Prog'
<1> SUFFICES ASSUME Shape, Prog, [Next]_tvars PROVE Prog' OBVIOUS
<1>1. CASE MakeTypes
  <2>1. /\ vars' = {} /\ pend' = <<>> /\ job' = None /\ flow' = None /\ ptrs' = {}
      BY <1>1, MakeStep DEF Shape
  <2> QED BY <2>1 DEF Prog
<1>2. CASE UseTypes
  <2>1. opt \in Options BY DEF Shape
  <2> QED BY <1>2, <2>1, DeclareProg, InitDoneProg, InitAddressProg, InitNewProg,
             AssignStatementProg, AssignExpressionProg, LhsExistingProg, LhsNewPointerProg,
             LhsNewVariableProg, GiveUpProg
      DEF UseTypes
<1>3. CASE PrintTypes BY <1>3, PrintStep, ProgStep DEF Prog
<1>4. CASE UNCHANGED tvars BY <1>4, ProgStep DEF tvars, Prog
<1> QED BY <1>1, <1>2, <1>3, <1>4, NextSteps

LEMMA ShapeProg == Spec => [](Shape /\ Prog)
<1>1. Init => Shape /\ Prog
  <2>1. Init => Prog BY DEF Init, Prog
  <2> QED BY <2>1, ShapeInit
<1>2. Shape /\ Prog /\ [Next]_tvars => (Shape /\ Prog)' BY ShapeNext, ProgNext
<1> QED BY <1>1, <1>2, PTL DEF Spec

\* Every initialiser and every assignment of a pointer converts by C's rules, and shows the
\* storage at the end of the chain as volatile exactly when it is (CVQualifiers::match,
\* stricter_than, random_loose_qualifiers; VariableSelector::select, make_init_value).
THEOREM Conversions == Spec => []ConversionsLegal
<1>1. Shape /\ Prog => ConversionsLegal
  <2> SUFFICES ASSUME Prog, KeepsQualifiers, flow # None, IsPtr(flow.type), flow.src # Wildcard
               PROVE  Converts(flow.dst, flow.src) /\ flow.dst[1].v = flow.src[1].v
      BY DEF ConversionsLegal, FlowLegal, StorageAgrees
  <2>1. FlowGood(opt, Ids, ConstAggs, flow) BY DEF Prog
  <2>2. Len(flow.dst) > 1 /\ Agrees(flow.dst, flow.src)
      BY <2>1 DEF FlowGood, Keeps, KeepsQualifiers, IsPtr
  <2> QED BY <2>2 DEF Agrees
<1> QED BY <1>1, ShapeProg, PTL

\* Nothing const is written, at a level of indirection or inside an aggregate, and nothing
\* declared volatile is selected in a context that has touched one (Lhs::make_random,
\* VariableSelector::is_eligible_var, CVQualifiers::restrict).
THEOREM Accesses == Spec => []AccessesAllowed
<1>1. Shape /\ Prog => AccessesAllowed
  <2> SUFFICES ASSUME Prog, flow # None
               PROVE  /\ flow.write => ~Last(flow.dst).c /\ ~is_const_struct_union(flow.type)
                      /\ ~flow.free => ~Last(flow.var).v /\ (flow.write => ~Last(flow.dst).v)
      BY DEF AccessesAllowed, NoConstWrite, VolatileOnlyWhenFree
  <2>1. FlowGood(opt, Ids, ConstAggs, flow) BY DEF Prog
  <2>2. ConstType(ConstAggs, flow.type) <=> is_const_struct_union(flow.type)
      BY <2>1, NotConst DEF FlowGood
  <2> QED BY <2>1, <2>2 DEF FlowGood
<1> QED BY <1>1, ShapeProg, PTL

-----------------------------------------------------------------------------
(* The aggregates: structs come before unions, and what the filters of     *)
(* fields ask of an aggregate holds at every depth inside it.              *)

FieldRecs ==
    [type : [kind : {"simple", "agg"}, id : Nat, stars : {0}], c : BOOLEAN, v : BOOLEAN, len : Int]
AggRecs ==
    [union : BOOLEAN, fields : Seq(FieldRecs), packed : BOOLEAN, ops : BOOLEAN, nontrivial : BOOLEAN]

\* A field of an aggregate with the number k.
FieldFit(union, ops, f, k) ==
    IsAgg(f.type) =>
        /\ f.type.id \in 1..(k - 1)
        /\ ~agg[f.type.id].union
        /\ union => ~has_bitfields(f.type.id) /\ ~agg[f.type.id].nontrivial
        /\ ~union /\ ops => agg[f.type.id].ops

Named(fs) ==
    (fs # <<>> => fs[1].len # 0) /\ \A i \in 2..Len(fs) : fs[i].len = 0 => fs[i-1].len # 0

AggFit(k) ==
    /\ \A f \in FieldsOf(k) : FieldFit(agg[k].union, agg[k].ops, f, k)
    /\ Named(agg[k].fields)
    /\ ~agg[k].nontrivial => \A f \in FieldsOf(k) : IsAgg(f.type) => ~agg[f.type.id].nontrivial
    /\ ~opt.cpp => ~agg[k].nontrivial

CurFit ==
    /\ cur \in [n : Nat, ops : BOOLEAN, union : BOOLEAN, fields : Seq(FieldRecs)]
    /\ cur.union => phase = "unions"
    /\ ~cur.union => phase = "structs"
    /\ ~opt.cpp => ~cur.ops
    /\ Named(cur.fields)
    /\ \A f \in Range(cur.fields) : FieldFit(cur.union, cur.ops, f, Len(agg) + 1)

Aggs ==
    /\ agg \in Seq(AggRecs)
    /\ \A k \in Ids : AggFit(k)
    /\ phase = "structs" => \A k \in Ids : ~agg[k].union
    /\ cur # None => CurFit

LEMMA RangeAppend ==
    ASSUME NEW S, NEW s \in Seq(S), NEW x \in S
    PROVE  /\ \A y \in Range(Append(s, x)) : y = x \/ y \in Range(s)
           /\ \A y \in Range(s) : y \in S
<1>1. /\ Append(s, x) \in Seq(S) /\ Len(Append(s, x)) = Len(s) + 1 /\ Len(s) \in Nat
      /\ \A i \in 1..Len(s) : Append(s, x)[i] = s[i] /\ s[i] \in S
      /\ Append(s, x)[Len(s) + 1] = x
    BY AppendProperties
<1>2. DOMAIN Append(s, x) = 1..(Len(s) + 1) /\ DOMAIN s = 1..Len(s) BY <1>1
<1>3. \A i \in 1..(Len(s) + 1) : i = Len(s) + 1 \/ i \in 1..Len(s) BY <1>1
<1> QED BY <1>1, <1>2, <1>3 DEF Range

\* The fields of an aggregate have the numbers of older ones.
LEMMA OlderFields ==
    ASSUME Aggs, NEW k \in Ids, NEW f \in FieldsOf(k), IsAgg(f.type)
    PROVE  /\ f.type.id \in 1..(k - 1) /\ f.type.id \in Ids /\ ~agg[f.type.id].union
           /\ FieldFit(agg[k].union, agg[k].ops, f, k)
<1>1. FieldFit(agg[k].union, agg[k].ops, f, k) BY DEF Aggs, AggFit
<1>2. f.type.id \in 1..(k - 1) /\ ~agg[f.type.id].union BY <1>1 DEF FieldFit
<1>3. Len(agg) \in Nat /\ k \in 1..Len(agg) BY DEF Aggs, Ids
<1> QED BY <1>1, <1>2, <1>3 DEF Ids

\* A property of k that every field of an aggregate inherits holds at every depth.
LEMMA NestedClosed ==
    ASSUME NEW k \in Ids, NEW S \in SUBSET (1..k), k \in S,
           \A j \in S : \A f \in FieldsOf(j) : IsAgg(f.type) => f.type.id \in S
    PROVE  Nested(k) \subseteq S
BY DEF Nested

LEMMA StructsClosed ==
    ASSUME NEW k \in Ids, NEW S \in SUBSET (1..k), k \in S,
           \A j \in S : \A f \in FieldsOf(j) : IsStruct(f.type) => f.type.id \in S
    PROVE  NestedStructs(k) \subseteq S
BY DEF NestedStructs

\* A struct's own bit-fields and those of the structs it has as fields count.
LEMMA BitfieldsInside ==
    ASSUME Aggs, NEW k \in Ids, ~has_bitfields(k)
    PROVE  /\ \A f \in FieldsOf(k) : ~(f.len >= 0)
           /\ \A f \in FieldsOf(k) : IsAgg(f.type) => ~has_bitfields(f.type.id)
<1>1. k \in Nat /\ k \in 1..k BY DEF Aggs, Ids
<1>2. k \in NestedStructs(k) BY <1>1 DEF NestedStructs
<1>3. \A i \in NestedStructs(k) : \A f \in FieldsOf(i) : ~(f.len >= 0) BY DEF has_bitfields
<1>4. ASSUME NEW f \in FieldsOf(k), IsAgg(f.type)
      PROVE  ~has_bitfields(f.type.id)
  <2> DEFINE m == f.type.id
  <2>1. m \in 1..(k - 1) /\ m \in Ids /\ ~agg[m].union BY <1>4, OlderFields
  <2>2. IsStruct(f.type) BY <1>4, <2>1 DEF IsStruct
  <2> HIDE DEF m
  <2>3. NestedStructs(m) \subseteq NestedStructs(k)
    <3> SUFFICES ASSUME NEW x \in NestedStructs(m), NEW S \in SUBSET (1..k),
                        k \in S /\ \A j \in S : \A g \in FieldsOf(j) : IsStruct(g.type) => g.type.id \in S
                 PROVE  x \in S
      <4>1. \A x \in NestedStructs(m) : x \in 1..k BY <1>1, <2>1 DEF NestedStructs
      <4> QED BY <4>1 DEF NestedStructs
    <3> DEFINE T == S \cap (1..m)
    <3>1. T \in SUBSET (1..m) OBVIOUS
    <3>2. m \in T
      <4>1. m \in S BY <1>4, <2>2 DEF m
      <4> QED BY <2>1, <4>1
    <3>3. \A j \in T : \A g \in FieldsOf(j) : IsStruct(g.type) => g.type.id \in T
      <4> SUFFICES ASSUME NEW j \in T, NEW g \in FieldsOf(j), IsStruct(g.type) PROVE g.type.id \in T
          OBVIOUS
      <4>1. g.type.id \in S OBVIOUS
      <4>2. j \in Ids /\ j \in 1..m BY <1>1, <2>1 DEF Ids
      <4>3. g.type.id \in 1..(j - 1) BY <4>2, OlderFields DEF IsStruct
      <4>4. g.type.id \in 1..m BY <1>1, <2>1, <4>2, <4>3
      <4> QED BY <4>1, <4>4
    <3> HIDE DEF T
    <3>4. NestedStructs(m) \subseteq T BY <2>1, <3>1, <3>2, <3>3, StructsClosed
    <3> QED BY <3>4 DEF T
  <2>4. ~has_bitfields(m) BY <1>3, <2>3 DEF has_bitfields
  <2> QED BY <2>4 DEF m
<1> QED BY <1>2, <1>3, <1>4

\* A field that is added to what is made fits.
LEMMA NewField ==
    ASSUME Aggs, cur # None,
           NEW f \in (IF cur.union THEN make_one_union_field ELSE make_one_struct_field(cur.ops))
                     \cup (IF opt.bitfields /\ (cur.union => ~opt.ccomp)
                             THEN make_one_bitfield(cur.fields) ELSE {})
    PROVE  /\ f \in FieldRecs
           /\ FieldFit(cur.union, cur.ops, f, Len(agg) + 1)
           /\ f.len = 0 => cur.fields # <<>> /\ Last(cur.fields).len # 0
<1>1. Len(agg) \in Nat /\ Ids = 1..((Len(agg) + 1) - 1) BY DEF Aggs, Ids
<1>2. ASSUME NEW t, NEW g \in FieldFlags(t), NEW l \in Int, f = Field(t, g, l),
             t \in TypesOver(Ids), t.stars = 0
      PROVE  f \in FieldRecs /\ f.type = t /\ f.len = l
    BY <1>2 DEF Field, FieldRecs, FieldFlags, Flags, TypesOver
<1>3. -1 \in Int /\ -1 # 0 OBVIOUS
<1>4. CASE cur.union /\ f \in make_one_union_field
  <2> DEFINE types == SimpleTypes \cup
        {Agg(k) : k \in {i \in Ids : /\ ~contain_pointer_field(i)
                                     /\ ~has_bitfields(i)
                                     /\ ~agg[i].nontrivial
                                     /\ ~agg[i].union}}
  <2>1. PICK t \in types : f \in {Field(t, g, -1) : g \in FieldFlags(t)}
      BY <1>4 DEF make_one_union_field
  <2>2. PICK g \in FieldFlags(t) : f = Field(t, g, -1) BY <2>1
  <2>3. t \in TypesOver(Ids) /\ t.stars = 0 /\
        (IsAgg(t) => t.id \in Ids /\ ~has_bitfields(t.id) /\ ~agg[t.id].nontrivial /\ ~agg[t.id].union)
    <3>1. CASE t \in SimpleTypes BY <3>1, SimpleTyped DEF IsAgg
    <3>2. CASE t \notin SimpleTypes
      <4>1. PICK k \in Ids : t = Agg(k) /\ ~has_bitfields(k) /\ ~agg[k].nontrivial /\ ~agg[k].union
          BY <3>2
      <4> QED BY <4>1, AggType
    <3> QED BY <3>1, <3>2
  <2>4. f \in FieldRecs /\ f.type = t /\ f.len = -1 BY <1>2, <1>3, <2>2, <2>3
  <2> QED BY <1>1, <1>3, <1>4, <2>3, <2>4 DEF FieldFit
<1>5. CASE ~cur.union /\ f \in make_one_struct_field(cur.ops)
  <2>1. PICK t \in FieldTypes(cur.ops) : f \in {Field(t, g, -1) : g \in FieldFlags(t)}
      BY <1>5 DEF make_one_struct_field
  <2>2. PICK g \in FieldFlags(t) : f = Field(t, g, -1) BY <2>1
  <2>3. t \in TypesOver(Ids) /\ t.stars = 0 /\ (IsAgg(t) => t.id \in Ids /\ (cur.ops => agg[t.id].ops))
    <3>1. CASE t \in SimpleTypes BY <3>1, SimpleTyped DEF IsAgg
    <3>2. CASE t \notin SimpleTypes
      <4>1. PICK k \in Ids : t = Agg(k) /\ (cur.ops => agg[k].ops) BY <3>2 DEF FieldTypes
      <4> QED BY <4>1, AggType
    <3> QED BY <3>1, <3>2
  <2>4. f \in FieldRecs /\ f.type = t /\ f.len = -1 BY <1>2, <1>3, <2>2, <2>3
  <2>5. \A k \in Ids : ~agg[k].union BY <1>5 DEF Aggs, CurFit
  <2> QED BY <1>1, <1>3, <1>5, <2>3, <2>4, <2>5 DEF FieldFit
<1>6. CASE f \in make_one_bitfield(cur.fields)
  <2> DEFINE no_zero_len == cur.fields = <<>> \/ Last(cur.fields).len = 0
             lengths == IF no_zero_len THEN BitLengths \ {0} ELSE BitLengths
  <2>1. PICK l \in lengths : f \in {Field(eInt, g, l) : g \in FieldFlags(eInt)}
      BY <1>6 DEF make_one_bitfield
  <2>2. PICK g \in FieldFlags(eInt) : f = Field(eInt, g, l) BY <2>1
  <2>3. l \in Int /\ (l = 0 => ~no_zero_len) BY BitLengthsAssumption DEF BitLengthsAssumption
  <2>4. f \in FieldRecs /\ f.type = eInt /\ f.len = l BY <1>2, <2>2, <2>3, ChosenTypes
  <2>5. ~IsAgg(eInt) BY ChosenTypes DEF IsAgg
  <2> QED BY <2>3, <2>4, <2>5 DEF FieldFit
<1> QED BY <1>4, <1>5, <1>6

LEMMA AddFieldAggs ==
    ASSUME Aggs, AddField PROVE Aggs'
<1>1. cur # None /\ UNCHANGED <<opt, phase, agg>> BY DEF AddField
<1>2. PICK f \in (IF cur.union THEN make_one_union_field ELSE make_one_struct_field(cur.ops))
                 \cup (IF opt.bitfields /\ (cur.union => ~opt.ccomp)
                         THEN make_one_bitfield(cur.fields) ELSE {}) :
        cur' = [cur EXCEPT !.fields = Append(@, f)]
    BY DEF AddField
<1>3. /\ f \in FieldRecs
      /\ FieldFit(cur.union, cur.ops, f, Len(agg) + 1)
      /\ f.len = 0 => cur.fields # <<>> /\ Last(cur.fields).len # 0
    BY <1>1, <1>2, NewField
<1>4. CurFit BY <1>1 DEF Aggs
<1> DEFINE fs == cur.fields
           gs == Append(fs, f)
<1>5. fs \in Seq(FieldRecs) /\ Named(fs) BY <1>4 DEF CurFit
<1>6. /\ cur' \in [n : Nat, ops : BOOLEAN, union : BOOLEAN, fields : Seq(FieldRecs)]
      /\ cur'.union = cur.union /\ cur'.ops = cur.ops /\ cur'.fields = gs
    BY <1>2, <1>3, <1>4, AppendProperties DEF CurFit
<1> HIDE DEF fs
<1>7. /\ Len(gs) = Len(fs) + 1 /\ Len(fs) \in Nat /\ gs[Len(fs) + 1] = f
      /\ \A i \in 1..Len(fs) : gs[i] = fs[i]
    BY <1>3, <1>5, AppendProperties
<1>8. f.len = 0 => fs # <<>> /\ Len(fs) # 0 /\ fs[Len(fs)].len # 0
    BY <1>3, <1>5 DEF fs, Last
<1> HIDE DEF gs
<1>9. Named(gs)
  <2>1. gs[1].len # 0
    <3>1. CASE fs = <<>>
      <4>1. Len(fs) = 0 BY <3>1
      <4>2. gs[1] = f BY <1>7, <4>1
      <4> QED BY <1>8, <3>1, <4>2
    <3>2. CASE fs # <<>>
      <4>1. Len(fs) # 0 BY <1>5, <3>2
      <4>2. gs[1] = fs[1] BY <1>7, <4>1
      <4> QED BY <1>5, <3>2, <4>2 DEF Named
    <3> QED BY <3>1, <3>2
  <2>2. ASSUME NEW i \in 2..Len(gs), gs[i].len = 0 PROVE gs[i-1].len # 0
    <3>1. CASE i = Len(fs) + 1
      <4>1. fs[Len(fs)].len # 0 /\ Len(fs) # 0 BY <1>7, <1>8, <2>2, <3>1
      <4>2. i - 1 = Len(fs) /\ Len(fs) \in 1..Len(fs) BY <1>7, <3>1, <4>1
      <4> QED BY <1>7, <4>1, <4>2
    <3>2. CASE i # Len(fs) + 1
      <4>1. i \in 2..Len(fs) /\ i \in 1..Len(fs) /\ i - 1 \in 1..Len(fs) BY <1>7, <3>2
      <4> QED BY <1>5, <1>7, <2>2, <4>1 DEF Named
    <3> QED BY <3>1, <3>2
  <2> QED BY <2>1, <2>2 DEF Named
<1>10. \A g \in Range(gs) : FieldFit(cur.union, cur.ops, g, Len(agg) + 1)
  <2>1. \A g \in Range(gs) : g = f \/ g \in Range(fs) BY <1>3, <1>5, RangeAppend DEF gs
  <2>2. \A g \in Range(fs) : FieldFit(cur.union, cur.ops, g, Len(agg) + 1) BY <1>4 DEF CurFit, fs
  <2> QED BY <1>3, <2>1, <2>2
<1>11. \A g, u, o, k : FieldFit(u, o, g, k)' <=> FieldFit(u, o, g, k)
    BY <1>1 DEF FieldFit, IsAgg, has_bitfields, NestedStructs, IsStruct, FieldsOf
<1>12. CurFit'
  <2>1. \A g \in Range(cur'.fields) : FieldFit(cur'.union, cur'.ops, g, Len(agg') + 1)
      BY <1>1, <1>6, <1>10
  <2>2. (\A g \in Range(cur.fields) : FieldFit(cur.union, cur.ops, g, Len(agg) + 1))'
      BY <1>1, <1>11, <2>1
  <2> QED BY <1>1, <1>4, <1>6, <1>9, <2>2 DEF CurFit
<1>13. \A k \in Ids : AggFit(k)'
    BY <1>1, <1>11 DEF Aggs, AggFit, FieldsOf, IsAgg
<1>14. Ids' = Ids BY <1>1 DEF Ids
<1> QED BY <1>1, <1>12, <1>13, <1>14 DEF Aggs

\* A new aggregate changes nothing about the older ones.
LEMMA AppendKeeps ==
    ASSUME Aggs, NEW x, agg' = Append(agg, x)
    PROVE  /\ Len(agg') = Len(agg) + 1 /\ Len(agg) \in Nat
           /\ Ids' = Ids \cup {Len(agg) + 1} /\ agg'[Len(agg) + 1] = x
           /\ \A k \in Ids : agg'[k] = agg[k]
           /\ \A k \in Ids : has_bitfields(k)' <=> has_bitfields(k)
<1>1. /\ Len(agg') = Len(agg) + 1 /\ Len(agg) \in Nat /\ agg'[Len(agg) + 1] = x
      /\ \A k \in 1..Len(agg) : agg'[k] = agg[k]
  <2>1. agg \in Seq(AggRecs \cup {x})
    <3>1. agg \in Seq(AggRecs) BY DEF Aggs
    <3> QED BY <3>1
  <2> QED BY <2>1, AppendProperties
<1>2. Ids' = Ids \cup {Len(agg) + 1} BY <1>1 DEF Ids
<1>3. \A k \in Ids : agg'[k] = agg[k] /\ FieldsOf(k)' = FieldsOf(k) BY <1>1 DEF Ids, FieldsOf
<1>4. ASSUME NEW k \in Ids PROVE has_bitfields(k)' <=> has_bitfields(k)
  <2>1. \A j \in 1..k : j \in Ids BY <1>1 DEF Ids
  <2>2. \A j \in 1..k : \A f \in FieldsOf(j) : IsStruct(f.type)' <=> IsStruct(f.type)
    <3> SUFFICES ASSUME NEW j \in 1..k, NEW f \in FieldsOf(j), IsAgg(f.type)
                 PROVE  agg'[f.type.id].union <=> agg[f.type.id].union
        BY DEF IsStruct, IsAgg
    <3>1. f.type.id \in Ids BY <2>1, OlderFields
    <3> QED BY <1>3, <3>1
  <2>3. NestedStructs(k)' = NestedStructs(k)
    <3>1. \A S \in SUBSET (1..k) :
            (k \in S /\ \A j \in S : \A f \in FieldsOf(j) : IsStruct(f.type) => f.type.id \in S)'
            <=> (k \in S /\ \A j \in S : \A f \in FieldsOf(j) : IsStruct(f.type) => f.type.id \in S)
        BY <1>3, <2>1, <2>2
    <3> QED BY <3>1 DEF NestedStructs
  <2>4. \A j \in NestedStructs(k) : j \in 1..k BY DEF NestedStructs
  <2> QED BY <1>3, <2>1, <2>3, <2>4 DEF has_bitfields
<1> QED BY <1>1, <1>2, <1>3, <1>4

LEMMA FinishAggregateAggs ==
    ASSUME opt \in Options, Aggs, FinishAggregate PROVE Aggs'
<1>1. cur # None /\ cur' = None /\ UNCHANGED <<opt, phase>> BY DEF FinishAggregate
<1>2. CurFit BY <1>1 DEF Aggs
<1>3. PICK packed \in BOOLEAN :
        agg' = Append(agg, [union |-> cur.union, fields |-> cur.fields, packed |-> packed,
                            ops |-> cur.ops,
                            nontrivial |-> \/ cur.ops
                                           \/ checkImplicitNontrivialAssignOps(cur.fields)])
    BY DEF FinishAggregate
<1> DEFINE x == [union |-> cur.union, fields |-> cur.fields, packed |-> packed,
                 ops |-> cur.ops,
                 nontrivial |-> \/ cur.ops
                                \/ checkImplicitNontrivialAssignOps(cur.fields)]
<1>0. PICK k : k = Len(agg) + 1 OBVIOUS
<1>4. x \in AggRecs
  <2>1. (cur.ops \/ checkImplicitNontrivialAssignOps(cur.fields)) \in BOOLEAN
      BY <1>2 DEF CurFit, checkImplicitNontrivialAssignOps
  <2> QED BY <1>2, <2>1 DEF CurFit, AggRecs
<1>5. /\ x.union = cur.union /\ x.fields = cur.fields /\ x.ops = cur.ops
      /\ x.nontrivial <=> cur.ops \/ checkImplicitNontrivialAssignOps(cur.fields)
    OBVIOUS
<1>6. agg' = Append(agg, x) BY <1>3
<1> HIDE DEF x
<1>7. /\ Ids' = Ids \cup {k} /\ agg'[k] = x
      /\ \A i \in Ids : agg'[i] = agg[i] /\ (has_bitfields(i)' <=> has_bitfields(i))
    BY <1>0, <1>6, AppendKeeps
<1>8. agg' \in Seq(AggRecs) BY <1>4, <1>6, AppendProperties DEF Aggs
<1>9. Ids = 1..(k - 1) /\ Len(agg) \in Nat BY <1>0 DEF Aggs, Ids
<1>10. ASSUME NEW i \in Ids PROVE AggFit(i)'
  <2>1. AggFit(i) BY DEF Aggs
  <2>2. FieldsOf(i)' = FieldsOf(i) /\ agg'[i] = agg[i] BY <1>7 DEF FieldsOf
  <2>3. \A f \in FieldsOf(i) : IsAgg(f.type) =>
          /\ f.type.id \in Ids
          /\ agg'[f.type.id] = agg[f.type.id]
          /\ has_bitfields(f.type.id)' <=> has_bitfields(f.type.id)
      BY <1>7, OlderFields
  <2>4. \A f \in FieldsOf(i) : IsAgg(f.type)' <=> IsAgg(f.type) BY DEF IsAgg
  <2>5. \A f \in FieldsOf(i) : FieldFit(agg[i].union, agg[i].ops, f, i)'
      BY <2>1, <2>2, <2>3, <2>4 DEF AggFit, FieldFit
  <2>6. (\A f \in FieldsOf(i) : FieldFit(agg[i].union, agg[i].ops, f, i))' BY <2>2, <2>5
  <2>7. (~agg[i].nontrivial => \A f \in FieldsOf(i) : IsAgg(f.type) => ~agg[f.type.id].nontrivial)'
      BY <2>1, <2>2, <2>3, <2>4 DEF AggFit
  <2> QED BY <1>1, <2>1, <2>2, <2>6, <2>7 DEF AggFit
<1>11. AggFit(k)'
  <2>1. FieldsOf(k)' = Range(cur.fields) BY <1>5, <1>7 DEF FieldsOf
  <2>2. \A f \in Range(cur.fields) : FieldFit(cur.union, cur.ops, f, k) BY <1>0, <1>2 DEF CurFit
  <2>3. \A f \in Range(cur.fields) : IsAgg(f.type) =>
          /\ f.type.id \in Ids
          /\ agg'[f.type.id] = agg[f.type.id]
          /\ has_bitfields(f.type.id)' <=> has_bitfields(f.type.id)
      BY <1>7, <1>9, <2>2 DEF FieldFit
  <2>4. agg'[k].union = cur.union /\ agg'[k].ops = cur.ops /\ agg'[k].fields = cur.fields
      BY <1>5, <1>7
  <2>5. \A f \in Range(cur.fields) :
          IsAgg(f.type) =>
            /\ f.type.id \in 1..(k - 1)
            /\ ~agg'[f.type.id].union
            /\ cur.union => ~has_bitfields(f.type.id)' /\ ~agg'[f.type.id].nontrivial
            /\ ~cur.union /\ cur.ops => agg'[f.type.id].ops
      BY <2>2, <2>3 DEF FieldFit
  <2>6. (\A f \in FieldsOf(k) : FieldFit(agg[k].union, agg[k].ops, f, k))'
      BY <2>1, <2>4, <2>5 DEF FieldFit, IsAgg
  <2>7. Named(agg'[k].fields) BY <1>2, <2>4 DEF CurFit
  <2>8. agg'[k].nontrivial <=> cur.ops \/ checkImplicitNontrivialAssignOps(cur.fields)
      BY <1>5, <1>7
  <2>9. opt.cpp \in BOOLEAN BY OptionsAssumption DEF OptionsAssumption
  <2>10. ~agg'[k].nontrivial => \A f \in FieldsOf(k)' : IsAgg(f.type) => ~agg'[f.type.id].nontrivial
    <3> SUFFICES ASSUME ~agg'[k].nontrivial, NEW f \in Range(cur.fields), IsAgg(f.type)
                 PROVE  ~agg[f.type.id].nontrivial
        BY <2>1, <2>3
    <3>1. CASE opt.cpp BY <2>8, <3>1 DEF checkImplicitNontrivialAssignOps
    <3>2. CASE ~opt.cpp
      <4>1. f.type.id \in Ids BY <2>3
      <4> QED BY <3>2, <4>1 DEF Aggs, AggFit
    <3> QED BY <3>1, <3>2
  <2>11. ~opt.cpp => ~agg'[k].nontrivial
      BY <1>2, <2>8 DEF CurFit, checkImplicitNontrivialAssignOps
  <2> QED BY <1>1, <2>6, <2>7, <2>10, <2>11 DEF AggFit, Named, IsAgg
<1>12. phase' = "structs" => \A i \in Ids' : ~agg'[i].union
  <2> SUFFICES ASSUME phase' = "structs", NEW i \in Ids' PROVE ~agg'[i].union OBVIOUS
  <2>1. CASE i \in Ids BY <1>1, <1>7, <2>1 DEF Aggs
  <2>2. CASE i = k
    <3>1. phase = "structs" BY <1>1
    <3>2. ~cur.union BY <1>2, <3>1 DEF CurFit
    <3> QED BY <1>5, <1>7, <2>2, <3>2
  <2> QED BY <1>7, <2>1, <2>2
<1> QED BY <1>1, <1>7, <1>8, <1>10, <1>11, <1>12 DEF Aggs

LEMMA StartAggs ==
    ASSUME opt \in Options, Aggs, StartStruct \/ StartUnion PROVE Aggs'
<1>1. PICK union \in BOOLEAN :
        /\ StartAggregate(union)
        /\ union => phase = "unions"
        /\ ~union => phase = "structs"
    BY DEF StartStruct, StartUnion
<1>2. PICK n \in (IF union THEN 1..opt.max_union_fields
                  ELSE IF opt.fixed_struct_fields THEN {opt.max_struct_fields}
                  ELSE 1..opt.max_struct_fields) :
        \E ops \in IF opt.cpp THEN BOOLEAN ELSE {FALSE} :
          cur' = [n |-> n, ops |-> ops, union |-> union, fields |-> <<>>]
    BY <1>1 DEF StartAggregate
<1>3. PICK ops \in IF opt.cpp THEN BOOLEAN ELSE {FALSE} :
        cur' = [n |-> n, ops |-> ops, union |-> union, fields |-> <<>>]
    BY <1>2
<1>4. UNCHANGED <<opt, phase, agg>> BY <1>1 DEF StartAggregate
<1>5. opt.max_union_fields \in Nat /\ opt.max_struct_fields \in Nat /\ opt.cpp \in BOOLEAN
    BY OptionsAssumption DEF OptionsAssumption
<1>6. n \in Nat
  <2>1. CASE union BY <1>5, <2>1
  <2>2. CASE ~union BY <1>5, <2>2
  <2> QED BY <2>1, <2>2
<1>7. ops \in BOOLEAN /\ (~opt.cpp => ~ops) BY <1>5
<1>8. cur' \in [n : Nat, ops : BOOLEAN, union : BOOLEAN, fields : Seq(FieldRecs)] BY <1>3, <1>6, <1>7
<1>9. Range(cur'.fields) = {} /\ Named(cur'.fields) BY <1>3 DEF Range, Named
<1>10. CurFit' BY <1>1, <1>3, <1>4, <1>7, <1>8, <1>9 DEF CurFit, Named
<1>11. Ids' = Ids BY <1>4 DEF Ids
<1>12. \A k \in Ids : AggFit(k)'
    BY <1>4 DEF Aggs, AggFit, FieldFit, FieldsOf, IsAgg, Named, has_bitfields, NestedStructs, IsStruct
<1> QED BY <1>4, <1>10, <1>11, <1>12 DEF Aggs

LEMMA AggsSame ==
    ASSUME Aggs, UNCHANGED <<opt, agg>>, cur' = None \/ UNCHANGED <<cur, phase>>,
           phase' = "structs" => phase = "structs"
    PROVE  Aggs'
<1>1. Ids' = Ids BY DEF Ids
<1>2. \A k \in Ids : AggFit(k)'
    BY DEF Aggs, AggFit, FieldFit, FieldsOf, IsAgg, Named, has_bitfields, NestedStructs, IsStruct
<1>3. cur' # None => CurFit'
    BY DEF Aggs, CurFit, FieldFit, IsAgg, Named, has_bitfields, NestedStructs, IsStruct, FieldsOf
<1> QED BY <1>1, <1>2, <1>3 DEF Aggs

LEMMA AggsNext == Shape /\ Aggs /\ [Next]_tvars => Aggs'
<1> SUFFICES ASSUME Shape, Aggs, [Next]_tvars PROVE Aggs' OBVIOUS
<1>1. opt \in Options BY DEF Shape
<1>2. CASE MakeTypes
  <2>1. CASE NextKind BY <2>1, AggsSame DEF NextKind
  <2> QED BY <1>1, <1>2, <2>1, StartAggs, AddFieldAggs, FinishAggregateAggs DEF MakeTypes
<1>3. CASE UseTypes BY <1>3, UseStep, AggsSame
<1>4. CASE PrintTypes
  <2>1. phase' # "structs" /\ cur' = None /\ UNCHANGED <<opt, agg>> BY <1>4, PrintStep
  <2> QED BY <2>1, AggsSame
<1>5. CASE UNCHANGED tvars BY <1>5, AggsSame DEF tvars
<1> QED BY <1>2, <1>3, <1>4, <1>5, NextSteps

LEMMA AggsInit == Init => Aggs
<1> SUFFICES ASSUME Init PROVE Aggs OBVIOUS
<1>1. agg = <<>> /\ cur = None /\ Len(agg) = 0 BY DEF Init
<1>2. Ids = {} BY <1>1 DEF Ids
<1> QED BY <1>1, <1>2 DEF Aggs

\* What is inside a union, and inside a struct with volatile operators.
LEMMA UnionsFit == Aggs => UnionsPortable
<1> SUFFICES ASSUME Aggs, NEW k \in Ids, agg[k].union, NEW j \in Nested(k) \ {k}
             PROVE  ~agg[j].nontrivial /\ \A f \in FieldsOf(j) : f.len < 0
    BY DEF UnionsPortable
<1>1. Len(agg) \in Nat /\ k \in 1..k /\ \A i \in 1..k : i \in Ids BY DEF Aggs, Ids
<1> DEFINE Good(i) == ~agg[i].nontrivial /\ ~has_bitfields(i)
           S == {k} \cup {i \in 1..k : ~agg[i].union /\ Good(i)}
<1>2. ASSUME NEW i \in S, NEW f \in FieldsOf(i), IsAgg(f.type) PROVE f.type.id \in S
  <2> DEFINE m == f.type.id
  <2>1. i \in Ids /\ i \in 1..k BY <1>1
  <2>2. /\ m \in 1..(i - 1) /\ m \in Ids /\ ~agg[m].union
        /\ FieldFit(agg[i].union, agg[i].ops, f, i)
      BY <1>2, <2>1, OlderFields
  <2>3. m \in 1..k BY <1>1, <2>1, <2>2
  <2>4. CASE i = k BY <1>2, <2>2, <2>3, <2>4 DEF FieldFit
  <2>5. CASE i # k
    <3>1. Good(i) BY <2>5
    <3>2. ~has_bitfields(m) BY <1>2, <2>1, <3>1, BitfieldsInside
    <3>3. ~agg[m].nontrivial BY <1>2, <2>1, <3>1 DEF Aggs, AggFit
    <3> QED BY <2>2, <2>3, <3>2, <3>3
  <2> QED BY <2>4, <2>5
<1>3. S \in SUBSET (1..k) /\ k \in S BY <1>1
<1> HIDE DEF S
<1>4. Nested(k) \subseteq S BY <1>2, <1>3, NestedClosed
<1>5. j \in Ids /\ Good(j) BY <1>1, <1>3, <1>4 DEF S
<1>6. \A f \in FieldsOf(j) : f.len \in Int
  <2>0. agg[j] \in AggRecs BY <1>5 DEF Aggs, Ids
  <2>1. agg[j].fields \in Seq(FieldRecs) BY <2>0 DEF AggRecs
  <2>2. \A f \in FieldsOf(j) : f \in FieldRecs BY <2>1 DEF FieldsOf, Range
  <2> QED BY <2>2 DEF FieldRecs
<1> QED BY <1>5, <1>6, BitfieldsInside

LEMMA VolatileFits == Aggs /\ Prog => VolatileAssignable
<1> SUFFICES ASSUME Aggs, Prog, opt.cpp, NEW v \in AllVars, NEW i \in 1..Len(v.q),
                    v.q[i].v, IsAgg(Below(v.type, Len(v.q) - i)),
                    NEW k \in Nested(Below(v.type, Len(v.q) - i).id)
             PROVE  agg[k].ops /\ (agg[k].union => \A f \in FieldsOf(k) : ~IsAgg(f.type))
    BY DEF VolatileAssignable
<1>1. v \in VarRecs(opt, Ids, OkAggs)
  <2>1. pend \in Seq(PendRecs(opt, Ids, OkAggs)) BY DEF Prog
  <2>2. \A p \in Range(pend) : p \in PendRecs(opt, Ids, OkAggs) BY <2>1 DEF Range
  <2>3. \A p \in Range(pend) : Declared(p) \in VarRecs(opt, Ids, OkAggs)
      BY <2>2 DEF PendRecs, VarRecs, Declared
  <2> QED BY <2>3 DEF AllVars, Prog
<1>2. v.type \in TypesOver(Ids) /\ v.q \in Quals(opt, OkAggs, v.type) /\ v.type.stars \in Nat
    BY <1>1 DEF VarRecs, TypesOver
<1>3. Len(v.q) = v.type.stars + 1 BY <1>2, QualsLast
<1>4. Len(v.q) - i \in 0..v.type.stars BY <1>2, <1>3
<1> DEFINE t == Below(v.type, Len(v.q) - i)
<1>5. t \in TypesOver(Ids) /\ t.stars = v.type.stars - (Len(v.q) - i) /\ t.kind = v.type.kind
      /\ t.id = v.type.id
    BY <1>2, <1>4, BelowType
<1> HIDE DEF t
<1>6. t.kind = "agg" /\ t.stars = 0 BY DEF IsAgg, t
<1>7. i = 1 BY <1>2, <1>3, <1>5, <1>6
<1>8. t.id \in OkAggs BY <1>2, <1>5, <1>6, <1>7 DEF Quals
<1>9. t.id \in Ids /\ is_volatile_ok_on_one_level(t) BY <1>5, <1>6, <1>8, BaseOk
<1>10. /\ agg[t.id].ops
       /\ agg[t.id].union => \A f \in FieldsOf(t.id) : ~IsAgg(f.type)
    BY <1>6, <1>9 DEF is_volatile_ok_on_one_level, IsUnion, IsAgg
<1> DEFINE n == t.id
           S == {n} \cup {j \in 1..n : agg[j].ops /\ ~agg[j].union}
<1>11. Len(agg) \in Nat /\ n \in Nat /\ n \in 1..n /\ \A j \in 1..n : j \in Ids BY <1>9 DEF Aggs, Ids
<1> HIDE DEF n
<1>12. ASSUME NEW j \in S, NEW f \in FieldsOf(j), IsAgg(f.type) PROVE f.type.id \in S
  <2>1. j \in 1..n /\ j \in Ids BY <1>11
  <2>2. /\ f.type.id \in 1..(j - 1) /\ ~agg[f.type.id].union
        /\ FieldFit(agg[j].union, agg[j].ops, f, j)
      BY <1>12, <2>1, OlderFields
  <2>3. ~agg[j].union /\ agg[j].ops BY <1>10, <1>12 DEF n
  <2>4. f.type.id \in 1..n BY <1>11, <2>1, <2>2
  <2> QED BY <1>12, <2>2, <2>3, <2>4 DEF FieldFit
<1>13. S \in SUBSET (1..n) /\ n \in S BY <1>11
<1> HIDE DEF S
<1>14. Nested(n) \subseteq S BY <1>9, <1>12, <1>13, NestedClosed DEF n
<1>15. k \in S BY <1>14 DEF n, t
<1> QED BY <1>10, <1>15 DEF S, n

-----------------------------------------------------------------------------
(* Whatever is declared or assigned has a type that was marked as used.    *)

Uses ==
    /\ used \subseteq Ids
    /\ \A v \in vars : v.type \in TypesOver(used)
    /\ \A p \in Range(pend) : p.type \in TypesOver(used)
    /\ job # None => job.type \in TypesOver(used)

LEMMA Marked ==
    ASSUME Uses, NEW t \in TypesOver(Ids)
    PROVE  /\ used \subseteq MarkUsed(t) /\ MarkUsed(t) \subseteq Ids /\ t \in TypesOver(MarkUsed(t))
           /\ TypesOver(used) \subseteq TypesOver(MarkUsed(t))
<1> DEFINE b == get_base_type(t)
<1>1. t.stars \in Nat /\ t.stars \in 0..t.stars /\ t.kind \in {"simple", "agg"} BY DEF TypesOver
<1>2. b = Below(t, t.stars) BY DEF get_base_type, get_indirect_level
<1>3. b \in TypesOver(Ids) /\ b.stars = t.stars - t.stars /\ b.kind = t.kind /\ b.id = t.id
    BY <1>1, <1>2, BelowType
<1>4. IsAgg(b) <=> t.kind = "agg" BY <1>1, <1>3 DEF IsAgg
<1> HIDE DEF b
<1>5. MarkUsed(t) = used \cup (IF t.kind = "agg" THEN {t.id} ELSE {}) BY <1>3, <1>4 DEF MarkUsed, b
<1>6. t.kind = "agg" => t.id \in Ids BY DEF TypesOver
<1>7. used \subseteq Ids BY DEF Uses
<1> QED BY <1>5, <1>6, <1>7 DEF TypesOver

LEMMA NewType ==
    ASSUME NEW o, NEW t, NEW g, NEW w, NEW f, NEW q, NEW v \in NewVariables(o, t, g, w, f, q)
    PROVE  v.type = t
BY DEF NewVariables

LEMMA JobType ==
    ASSUME NEW t, NEW want, NEW src, NEW s, NEW e, NEW f, NEW j \in Jobs(t, want, src, s, e, f)
    PROVE  j.type = t
<1> DEFINE wants == IF opt.strict_volatile_rule THEN {set_top(want, "v", FALSE)}
                    ELSE IF IsSimple(t) THEN {want, set_top(want, "v", FALSE)} ELSE {want}
           r(g, w) == [type |-> t, src |-> src, stricter |-> s, exact |-> e, free |-> g, want |-> w]
<1>1. j \in UNION {{r(g, w) : w \in wants} : g \in {f, FALSE}} BY DEF Jobs
<1> HIDE DEF wants, r
<1>2. \E g, w : j = r(g, w) BY <1>1
<1> QED BY <1>2 DEF r

LEMMA RangeFront ==
    ASSUME NEW S, NEW s \in Seq(S), s # <<>>, NEW a, NEW b
    PROVE  /\ Range(Front(s)) \subseteq Range(s) /\ Last(s) \in Range(s)
           /\ Range(Front(s) \o <<a, b>>) \subseteq Range(s) \cup {a, b}
           /\ Range(Front(s) \o <<a>>) \subseteq Range(s) \cup {a}
<1> DEFINE n == Len(s) - 1
           f == Front(s)
<1>1. n \in Nat /\ Len(s) = n + 1 /\ s \in Seq(S) OBVIOUS
<1>2. f = SubSeq(s, 1, n) BY DEF Front
<1>3. f \in Seq(S) /\ Len(f) = n /\ \A i \in 1..n : f[i] = s[i] BY <1>1, <1>2, SubSeqProperties
<1>4. DOMAIN s = 1..(n + 1) /\ DOMAIN f = 1..n BY <1>1, <1>3
<1>5. \A i \in 1..n : f[i] \in Range(s) BY <1>1, <1>3, <1>4 DEF Range
<1>6. Last(s) \in Range(s) BY <1>1, <1>4 DEF Range, Last
<1> HIDE DEF f, n
<1>7. f \in Seq(S \cup {a, b}) /\ <<a, b>> \in Seq(S \cup {a, b}) /\ <<a>> \in Seq(S \cup {a, b})
    BY <1>3
<1>8. /\ DOMAIN (f \o <<a, b>>) = 1..(n + 2)
      /\ \A i \in 1..(n + 2) : (f \o <<a, b>>)[i] = IF i <= n THEN f[i] ELSE <<a, b>>[i - n]
      /\ DOMAIN (f \o <<a>>) = 1..(n + 1)
      /\ \A i \in 1..(n + 1) : (f \o <<a>>)[i] = IF i <= n THEN f[i] ELSE <<a>>[i - n]
    BY <1>1, <1>3, <1>7, ConcatProperties
<1>9. \A i \in 1..(n + 2) : i <= n \/ (i - n = 1) \/ (i - n = 2) BY <1>1
<1>10. \A i \in 1..(n + 1) : i <= n \/ (i - n = 1) BY <1>1
<1>11. Range(f \o <<a, b>>) \subseteq Range(s) \cup {a, b} BY <1>1, <1>5, <1>8, <1>9 DEF Range
<1>12. Range(f \o <<a>>) \subseteq Range(s) \cup {a} BY <1>1, <1>5, <1>8, <1>10 DEF Range
<1>13. Range(f) \subseteq Range(s) BY <1>4, <1>5 DEF Range
<1> QED BY <1>6, <1>11, <1>12, <1>13 DEF f

LEMMA UsesDeclare ==
    ASSUME Prog, Uses, Declare PROVE Uses'
<1>1. PICK free \in BOOLEAN, write \in BOOLEAN, glob \in BOOLEAN :
        \E t \in (IF write THEN SelectLType(~free)
                  ELSE make_random_pointer_type \cup
                       (IF free THEN choose_random_nonvoid ELSE choose_random_nonvoid_nonvolatile)) :
          /\ \E v \in NewVariables(opt, t, glob, write, free, Wildcard) : pend' = <<v>>
          /\ used' = MarkUsed(t)
    BY DEF Declare
<1>2. PICK t \in (IF write THEN SelectLType(~free)
                  ELSE make_random_pointer_type \cup
                       (IF free THEN choose_random_nonvoid ELSE choose_random_nonvoid_nonvolatile)) :
        /\ \E v \in NewVariables(opt, t, glob, write, free, Wildcard) : pend' = <<v>>
        /\ used' = MarkUsed(t)
    BY <1>1
<1>3. \A p \in ptrs : p \in TypesOver(Ids) /\ p.stars > 0 BY DEF Prog
<1>4. t \in TypesOver(Ids) BY <1>2, <1>3, LTypes, PointerTypes, ChosenTypes
<1>5. PICK v \in NewVariables(opt, t, glob, write, free, Wildcard) : pend' = <<v>> BY <1>2
<1>6. v.type = t BY <1>5, NewType
<1>7. /\ used' \subseteq Ids /\ t \in TypesOver(used') /\ TypesOver(used) \subseteq TypesOver(used')
    BY <1>2, <1>4, Marked
<1>8. Range(pend') = {v} BY <1>5 DEF Range
<1>9. UNCHANGED <<agg, vars, job>> BY DEF Declare
<1> QED BY <1>6, <1>7, <1>8, <1>9 DEF Uses, Ids

LEMMA UsesInit ==
    ASSUME Prog, Uses, InitDone \/ InitAddress \/ InitNew PROVE Uses'
<1> DEFINE p == Last(pend)
<1>1. pend # <<>> /\ UNCHANGED <<agg, used, job>> BY DEF InitDone, InitAddress, InitNew
<1>2. /\ p \in PendRecs(opt, Ids, OkAggs) /\ p.type \in TypesOver(Ids)
      /\ pend \in Seq(PendRecs(opt, Ids, OkAggs))
    BY <1>1, PendFacts DEF Prog
<1>3. p \in Range(pend) /\ Range(Front(pend)) \subseteq Range(pend) BY <1>1, <1>2, RangeFront
<1>4. p.type \in TypesOver(used) BY <1>3 DEF Uses
<1>5. CASE vars' = vars \cup {Declared(p)} /\ pend' = Front(pend)
  <2>1. Declared(p).type = p.type BY DEF Declared
  <2> QED BY <1>1, <1>3, <1>4, <1>5, <2>1 DEF Uses, Ids
<1>6. CASE InitNew
  <2> DEFINE t == Below(p.type, 1)
  <2>1. \E o, l, w, f, q : \E v \in NewVariables(o, t, l, w, f, q) :
          pend' = Front(pend) \o <<[p EXCEPT !.done = TRUE], v>>
      BY <1>6, ZenonT(60) DEF InitNew
  <2>2. PICK v : v.type = t /\ pend' = Front(pend) \o <<[p EXCEPT !.done = TRUE], v>>
      BY <2>1, NewType
  <2>3. 1 \in 0..p.type.stars
    <3>1. p.type.stars > 0 BY <1>6 DEF InitNew, IsPtr
    <3>2. p.type.stars \in Nat BY <1>2 DEF TypesOver
    <3> QED BY <3>1, <3>2
  <2>4. t \in TypesOver(used) BY <1>4, <2>3, BelowType
  <2>5. [p EXCEPT !.done = TRUE].type = p.type BY <1>2 DEF PendRecs
  <2>6. Range(pend') \subseteq Range(pend) \cup {[p EXCEPT !.done = TRUE], v}
      BY <1>1, <1>2, <2>2, RangeFront, ZenonT(60)
  <2>7. UNCHANGED vars BY <1>6 DEF InitNew
  <2> QED BY <1>1, <1>4, <2>2, <2>4, <2>5, <2>6, <2>7 DEF Uses, Ids
<1> QED BY <1>5, <1>6 DEF InitDone, InitAddress

LEMMA UsesAssign ==
    ASSUME Prog, Uses, AssignStatement \/ AssignExpression PROVE Uses'
<1>1. UNCHANGED <<agg, vars>> BY DEF AssignStatement, AssignExpression
<1>2. \A p \in ptrs : p \in TypesOver(Ids) /\ p.stars > 0 BY DEF Prog
<1>3. ASSUME NEW t \in TypesOver(Ids), used' = MarkUsed(t), job'.type = t,
             pend' = pend \/ \E v : pend' = <<v>> /\ v.type = t
      PROVE  Uses'
  <2>1. /\ used' \subseteq Ids /\ t \in TypesOver(used') /\ TypesOver(used) \subseteq TypesOver(used')
      BY <1>3, Marked
  <2>2. CASE pend' = pend BY <1>1, <1>3, <2>1, <2>2 DEF Uses, Ids
  <2>3. ASSUME NEW v, pend' = <<v>>, v.type = t PROVE Uses'
    <3>1. Range(pend') = {v} BY <2>3 DEF Range
    <3> QED BY <1>1, <1>3, <2>1, <2>3, <3>1 DEF Uses, Ids
  <2> QED BY <1>3, <2>2, <2>3
<1>4. CASE AssignStatement
  <2>1. PICK free \in BOOLEAN : \E t \in SelectLType(~free) :
          /\ used' = MarkUsed(t)
          /\ \E want, src, s, e, f : job' \in Jobs(t, want, src, s, e, f)
    <3>1. PICK free \in BOOLEAN : \E t \in SelectLType(~free) :
           /\ used' = MarkUsed(t)
           /\ \/ job' \in Jobs(t, Wildcard, Wildcard, TRUE, opt.exact, free)
              \/ \E glob \in BOOLEAN :
                 \E v \in choose_var({w \in vars : w.glob = glob}, FALSE, free, t, opt,
                                     Wildcard, FALSE, "flexible") :
                   LET q == indirect_qualifiers(v.q, Deref(v, t))
                   IN  job' \in Jobs(t, q, q, TRUE, opt.exact, free)
              \/ \E q \in random_qualifiers(t, FALSE, free, TRUE) :
                   job' \in Jobs(t, q, q, TRUE, opt.exact, free)
        BY <1>4, ZenonT(60) DEF AssignStatement
    <3> QED BY <3>1
  <2>2. PICK t \in SelectLType(~free) :
          /\ used' = MarkUsed(t)
          /\ \E want, src, s, e, f : job' \in Jobs(t, want, src, s, e, f)
      BY <2>1
  <2>3. t \in TypesOver(Ids) BY <1>2, <2>2, LTypes
  <2>4. job'.type = t BY <2>2, JobType
  <2>5. pend' = pend BY <1>4 DEF AssignStatement
  <2> QED BY <1>3, <2>2, <2>3, <2>4, <2>5
<1>5. CASE AssignExpression
  <2>1. PICK free \in BOOLEAN :
          \E t \in ptrs \cup (IF free THEN choose_random_nonvoid ELSE choose_random_nonvoid_nonvolatile) :
            /\ used' = MarkUsed(t)
            /\ \E qf \in AssignQualifiers(t, free) : ExpressionValue(t, qf, free)
      BY <1>5 DEF AssignExpression
  <2>2. PICK t \in ptrs \cup (IF free THEN choose_random_nonvoid ELSE choose_random_nonvoid_nonvolatile) :
            /\ used' = MarkUsed(t)
            /\ \E qf \in AssignQualifiers(t, free) : ExpressionValue(t, qf, free)
      BY <2>1
  <2>3. t \in TypesOver(Ids) BY <1>2, <2>2, ChosenTypes
  <2>4. PICK qf : ExpressionValue(t, qf, free) BY <2>2
  <2>5. /\ \E want, src, s, e, f : job' \in Jobs(t, want, src, s, e, f)
        /\ pend' = pend \/ \E o, g, w, f, q : \E v \in NewVariables(o, t, g, w, f, q) : pend' = <<v>>
      BY <2>4 DEF ExpressionValue
  <2>6. job'.type = t BY <2>5, JobType
  <2>7. pend' = pend \/ \E v : pend' = <<v>> /\ v.type = t BY <2>5, NewType
  <2> QED BY <1>3, <2>2, <2>3, <2>6, <2>7
<1> QED BY <1>4, <1>5

LEMMA UsesLhs ==
    ASSUME Prog, Uses, LhsExisting \/ LhsNewPointer \/ LhsNewVariable \/ GiveUp PROVE Uses'
<1>1. job # None /\ UNCHANGED <<agg, used, vars>> /\ (job' = None \/ job' = job)
    BY DEF LhsExisting, LhsNewPointer, LhsNewVariable, GiveUp
<1>2. job.type \in TypesOver(used) BY <1>1 DEF Uses
<1>3. Ptr(job.type) \in TypesOver(used) BY <1>2, PtrType
<1>4. pend' = pend \/ \E v : pend' = <<v>> /\ v.type \in TypesOver(used)
  <2>1. CASE LhsNewPointer
    <3>1. \E o, g, w, f, q : \E v \in NewVariables(o, Ptr(job.type), g, w, f, q) : pend' = <<v>>
        BY <2>1 DEF LhsNewPointer
    <3> QED BY <1>3, <3>1, NewType
  <2>2. CASE LhsNewVariable
    <3>1. \E o, g, w, f, q : \E v \in NewVariables(o, job.type, g, w, f, q) : pend' = <<v>>
        BY <2>2 DEF LhsNewVariable
    <3> QED BY <1>2, <3>1, NewType
  <2> QED BY <2>1, <2>2 DEF LhsExisting, GiveUp
<1>5. CASE pend' = pend BY <1>1, <1>5 DEF Uses, Ids
<1>6. ASSUME NEW v, pend' = <<v>>, v.type \in TypesOver(used) PROVE Uses'
  <2>1. Range(pend') = {v} BY <1>6 DEF Range
  <2> QED BY <1>1, <1>6, <2>1 DEF Uses, Ids
<1> QED BY <1>4, <1>5, <1>6

LEMMA UsesNext == Shape /\ Prog /\ Uses /\ [Next]_tvars => Uses'
<1> SUFFICES ASSUME Shape, Prog, Uses, [Next]_tvars PROVE Uses' OBVIOUS
<1>1. CASE MakeTypes
  <2>1. used' = {} /\ vars' = {} /\ pend' = <<>> /\ job' = None BY <1>1, MakeStep DEF Shape
  <2>2. Range(pend') = {} BY <2>1 DEF Range
  <2> QED BY <2>1, <2>2 DEF Uses
<1>2. CASE UseTypes BY <1>2, UsesDeclare, UsesInit, UsesAssign, UsesLhs DEF UseTypes
<1>3. CASE PrintTypes
  <2>1. UNCHANGED <<agg, used, vars, pend, job>> BY <1>3, PrintStep
  <2> QED BY <2>1 DEF Uses, Ids
<1>4. CASE UNCHANGED tvars BY <1>4 DEF tvars, Uses, Ids
<1> QED BY <1>1, <1>2, <1>3, <1>4, NextSteps

-----------------------------------------------------------------------------
(* The printing of the aggregates: a frame's aggregate waits for those     *)
(* inside it, which are older and so not among the frames below.           *)

Frames == [id : Nat, at : Nat \ {0}]

\* The aggregates among the fields before the one that c is at are in ids.
Seen(c, ids) ==
    \A j \in 1..Len(agg[c.id].fields) :
        j < c.at /\ IsAgg(agg[c.id].fields[j].type) => agg[c.id].fields[j].type.id \in ids

Printed ==
    /\ turn \in 0..Len(agg)
    /\ out \in Seq(Ids) /\ printed = Range(out) /\ printed \subseteq 1..turn
    /\ \A i, j \in 1..Len(out) : out[i] = out[j] => i = j
    /\ \A i \in 1..Len(out) : \A f \in FieldsOf(out[i]) :
         IsAgg(f.type) => \E h \in 1..(i - 1) : out[h] = f.type.id

Calls ==
    /\ calls \in Seq(Frames)
    /\ \A i \in 1..Len(calls) :
         /\ calls[i].id \in 1..turn /\ calls[i].id \notin printed
         /\ Seen(calls[i], printed \cup (IF i < Len(calls) THEN {calls[i+1].id} ELSE {}))
    /\ \A i, j \in 1..Len(calls) : i < j => calls[j].id < calls[i].id
    /\ \A u \in used : u <= turn => u \in printed \/ (calls # <<>> /\ u = calls[1].id)

LEMMA Pushed ==
    ASSUME NEW S, NEW s \in Seq(S), s # <<>>, NEW a \in S, NEW b \in S
    PROVE  LET r == Front(s) \o <<a>> \o <<>>
               p == Front(s) \o <<a>> \o <<b>>
           IN  /\ r \in Seq(S) /\ Len(r) = Len(s) /\ r[Len(s)] = a
               /\ p \in Seq(S) /\ Len(p) = Len(s) + 1 /\ p[Len(s)] = a /\ p[Len(s) + 1] = b
               /\ \A i \in 1..(Len(s) - 1) : r[i] = s[i] /\ p[i] = s[i]
               /\ Front(s) \in Seq(S) /\ Len(Front(s)) = Len(s) - 1
               /\ \A i \in 1..(Len(s) - 1) : Front(s)[i] = s[i]
               /\ Last(s) = s[Len(s)] /\ Last(s) \in S
<1> DEFINE n == Len(s) - 1
           f == Front(s)
<1>1. n \in Nat /\ Len(s) = n + 1 /\ s \in Seq(S) OBVIOUS
<1>2. f = SubSeq(s, 1, n) BY DEF Front
<1>3. f \in Seq(S) /\ Len(f) = n /\ \A i \in 1..n : f[i] = s[i] BY <1>1, <1>2, SubSeqProperties
<1>4. Last(s) = s[n + 1] /\ s[n + 1] \in S BY <1>1 DEF Last
<1> DEFINE g == f \o <<a>>
           r == g \o <<>>
           p == g \o <<b>>
<1> HIDE DEF f, n
<1>5. <<a>> \in Seq(S) /\ Len(<<a>>) = 1 /\ <<b>> \in Seq(S) /\ Len(<<b>>) = 1 /\ <<a>>[1] = a /\ <<b>>[1] = b
    OBVIOUS
<1>6. g \in Seq(S) /\ Len(g) = n + 1 /\ \A i \in 1..(n + 1) : g[i] = IF i <= n THEN f[i] ELSE <<a>>[i - n]
    BY <1>1, <1>3, <1>5, ConcatProperties
<1>7. g[n + 1] = a /\ \A i \in 1..n : g[i] = f[i]
  <2>1. n + 1 - n = 1 /\ ~(n + 1 <= n) /\ n + 1 \in 1..(n + 1) BY <1>1
  <2> QED BY <1>1, <1>5, <1>6, <2>1
<1> HIDE DEF g
<1>8. r = g BY <1>6, ConcatEmptySeq
<1>9. p \in Seq(S) /\ Len(p) = n + 2 /\ \A i \in 1..(n + 2) : p[i] = IF i <= n + 1 THEN g[i] ELSE <<b>>[i - (n + 1)]
    BY <1>1, <1>5, <1>6, ConcatProperties
<1>10. p[n + 2] = b /\ \A i \in 1..(n + 1) : p[i] = g[i]
  <2>1. n + 2 - (n + 1) = 1 /\ ~(n + 2 <= n + 1) /\ n + 2 \in 1..(n + 2) BY <1>1
  <2> QED BY <1>1, <1>5, <1>9, <2>1
<1> HIDE DEF r, p
<1>11. Len(s) = n + 1 /\ Len(s) - 1 = n /\ Len(s) + 1 = n + 2 BY <1>1
<1>12. \A i \in 1..n : r[i] = s[i] /\ p[i] = s[i] BY <1>1, <1>3, <1>7, <1>8, <1>10
<1>13. r \in Seq(S) /\ Len(r) = n + 1 /\ r[n + 1] = a /\ p[n + 1] = a BY <1>1, <1>6, <1>7, <1>8, <1>10
<1> QED BY <1>3, <1>4, <1>9, <1>10, <1>11, <1>12, <1>13 DEF f, g, r, p

LEMMA NothingPrinted ==
    ASSUME Uses, Len(agg) \in Nat, turn = 0, calls = <<>>, printed = {}, out = <<>>
    PROVE  Printed /\ Calls
<1>1. out \in Seq(Ids) /\ Range(out) = {} /\ Len(out) = 0 BY DEF Range
<1>2. Printed BY <1>1 DEF Printed
<1>3. \A u \in used : ~(u <= turn) BY DEF Uses, Ids
<1>4. calls \in Seq(Frames) /\ Len(calls) = 0 OBVIOUS
<1> QED BY <1>2, <1>3, <1>4 DEF Calls

\* The same of the next state.
LEMMA NothingPrintedNext ==
    ASSUME Uses', Len(agg') \in Nat, turn' = 0, calls' = <<>>, printed' = {}, out' = <<>>
    PROVE  Printed' /\ Calls'
<1>1. out' \in Seq(Ids') /\ Range(out') = {} /\ Len(out') = 0 BY DEF Range
<1>2. Printed' BY <1>1 DEF Printed
<1>3. \A u \in used' : ~(u <= turn') BY DEF Uses, Ids
<1>4. calls' \in Seq(Frames) /\ Len(calls') = 0 OBVIOUS
<1> QED BY <1>2, <1>3, <1>4 DEF Calls

LEMMA DeclarationsPrinted ==
    ASSUME Uses, Aggs, Printed, Calls, OutputStructUnionDeclarations
    PROVE  Printed' /\ Calls'
<1>1. /\ turn < Len(agg) /\ turn' = turn + 1 /\ calls = <<>> /\ UNCHANGED <<agg, out, used>>
      /\ printed' = printed \ {turn + 1}
      /\ calls' = IF turn + 1 \in used THEN <<[id |-> turn + 1, at |-> 1]>> ELSE <<>>
    BY DEF OutputStructUnionDeclarations
<1>2. Len(agg) \in Nat /\ turn \in Nat BY DEF Aggs, Printed
<1>3. printed' = printed BY <1>1, <1>2 DEF Printed
<1>4. Printed'
  <2>1. turn' \in 0..Len(agg) /\ printed' \subseteq 1..turn' BY <1>1, <1>2, <1>3 DEF Printed
  <2> QED BY <1>1, <1>3, <2>1 DEF Printed, Ids, FieldsOf, IsAgg
<1>5. \A u \in used : u <= turn => u \in printed BY <1>1 DEF Calls
<1>6. \A u \in used : u <= turn' => u = turn' \/ u \in printed' BY <1>1, <1>2, <1>3, <1>5 DEF Uses, Ids
<1>7. CASE turn' \in used
  <2>0. PICK c : c = [id |-> turn + 1, at |-> 1] OBVIOUS
  <2>1. calls' = <<c>> BY <1>1, <1>7, <2>0
  <2>2. c.id = turn' /\ c.at = 1 /\ c \in Frames BY <1>1, <1>2, <2>0 DEF Frames
  <2>3. c.id \in 1..turn' /\ c.id \notin printed' BY <1>1, <1>2, <1>3, <2>2 DEF Printed
  <2>4. calls' \in Seq(Frames) /\ Len(calls') = 1 /\ calls'[1] = c /\ calls' # <<>> BY <2>1, <2>2
  <2>5. \A ids : Seen(c, ids)' BY <2>2 DEF Seen
  <2>6. /\ \A i \in 1..Len(calls') : calls'[i] = c /\ i = 1
        /\ \A i, j \in 1..Len(calls') : ~(i < j)
      BY <2>4
  <2>7. \A u \in used' : u <= turn' => u \in printed' \/ u = calls'[1].id BY <1>1, <1>6, <2>2, <2>4
  <2> QED BY <1>4, <2>3, <2>4, <2>5, <2>6, <2>7 DEF Calls
<1>8. CASE turn' \notin used
  <2>1. calls' = <<>> /\ Len(calls') = 0 /\ calls' \in Seq(Frames) BY <1>1, <1>8
  <2>2. \A u \in used' : u <= turn' => u \in printed' BY <1>1, <1>6, <1>8
  <2> QED BY <1>4, <2>1, <2>2 DEF Calls
<1> QED BY <1>7, <1>8

LEMMA NotEmpty ==
    ASSUME NEW S, NEW s \in Seq(S), s # <<>>
    PROVE  Len(s) \in Nat \ {0} /\ Len(s) \in 1..Len(s) /\ Last(s) = s[Len(s)] /\ Last(s) \in S
<1>1. Len(s) \in Nat /\ Len(s) # 0 OBVIOUS
<1>2. Len(s) \in 1..Len(s) BY <1>1
<1> QED BY <1>1, <1>2 DEF Last

\* What is known of the last frame, and of the frames that wait for it.
LEMMA Waiting ==
    ASSUME Aggs, Printed, Calls, NEW s, calls = s, s # <<>>, NEW n, n = Len(s)
    PROVE  /\ s \in Seq(Frames) /\ n \in Nat \ {0} /\ s[n] \in Frames /\ Last(s) = s[n]
           /\ s[n].id \in Ids /\ s[n].id \in 1..turn /\ turn \in Nat /\ Seen(s[n], printed)
           /\ \A i \in 1..(n - 1) : /\ s[i].id \in 1..turn /\ s[i].id \notin printed
                                    /\ s[n].id < s[i].id /\ Seen(s[i], printed \cup {s[i+1].id})
           /\ \A i, j \in 1..(n - 1) : i < j => s[j].id < s[i].id
           /\ \A u \in used : u <= turn => u \in printed \/ u = s[1].id
           /\ s[n].id \notin printed
<1>1. s \in Seq(Frames) BY DEF Calls
<1>2. n \in Nat \ {0} /\ n \in 1..n /\ s[n] \in Frames /\ Last(s) = s[n] BY <1>1, NotEmpty
<1>3. s[n].id \in 1..turn /\ s[n].id \notin printed /\ Seen(s[n], printed \cup {})
    BY <1>2, SMTT(30) DEF Calls
<1>4. printed \cup {} = printed OBVIOUS
<1>5. \A i \in 1..(n - 1) : i \in 1..n /\ i < n BY <1>2
<1>6. turn \in 0..Len(agg) /\ Len(agg) \in Nat
  <2>1. turn \in 0..Len(agg) BY DEF Printed
  <2>2. Len(agg) \in Nat BY DEF Aggs
  <2> QED BY <2>1, <2>2
<1>7. s[n].id \in Ids /\ turn \in Nat BY <1>3, <1>6 DEF Ids
<1>8. \A i \in 1..(n - 1) : /\ s[i].id \in 1..turn /\ s[i].id \notin printed
                            /\ s[n].id < s[i].id /\ Seen(s[i], printed \cup {s[i+1].id})
    BY <1>2, <1>5 DEF Calls
<1>9. \A i, j \in 1..(n - 1) : i < j => s[j].id < s[i].id BY <1>5 DEF Calls
<1>10. \A u \in used : u <= turn => u \in printed \/ u = s[1].id BY DEF Calls
<1> QED BY <1>1, <1>2, <1>3, <1>4, <1>7, <1>8, <1>9, <1>10

\* The last frame moves on, and no aggregate is called.
LEMMA FrameMoved ==
    ASSUME Aggs, Printed, Calls, UNCHANGED <<agg, used, turn, printed>>,
           NEW s, calls = s, s # <<>>, NEW n, n = Len(s), NEW r \in Seq(Frames), calls' = r,
           NEW a, a.id = s[n].id, Seen(a, printed),
           Len(r) = n, r[n] = a, \A i \in 1..(n - 1) : r[i] = s[i]
    PROVE  Calls'
<1>1. /\ s \in Seq(Frames) /\ n \in Nat \ {0} /\ s[n].id \in 1..turn /\ s[n].id \notin printed
      /\ \A i \in 1..(n - 1) : /\ s[i].id \in 1..turn /\ s[i].id \notin printed
                               /\ s[n].id < s[i].id /\ Seen(s[i], printed \cup {s[i+1].id})
      /\ \A i, j \in 1..(n - 1) : i < j => s[j].id < s[i].id
      /\ \A u \in used : u <= turn => u \in printed \/ u = s[1].id
    BY Waiting
<1>2. \A x, ids : Seen(x, ids)' <=> Seen(x, ids) BY DEF Seen, IsAgg
<1>3. \A i \in 1..n : r[i].id = s[i].id /\ (i = n \/ (i \in 1..(n - 1) /\ i < n /\ i + 1 \in 1..n))
  <2>1. \A i \in 1..n : i = n \/ (i \in 1..(n - 1) /\ i < n /\ i + 1 \in 1..n) BY <1>1
  <2> QED BY <2>1
<1>4. r[1].id = s[1].id /\ r # <<>>
  <2>1. 1 \in 1..n /\ Len(r) # 0 BY <1>1
  <2> QED BY <1>3, <2>1
<1>5. \A x : Seen(x, printed) => Seen(x, printed \cup {}) BY DEF Seen
<1>6. ASSUME NEW i \in 1..n
      PROVE  /\ r[i].id \in 1..turn /\ r[i].id \notin printed
             /\ Seen(r[i], printed \cup (IF i < n THEN {r[i+1].id} ELSE {}))
  <2>1. CASE i = n
    <3>1. ~(i < n) BY <1>1, <2>1
    <3> QED BY <1>1, <1>5, <2>1, <3>1
  <2>2. CASE i \in 1..(n - 1) /\ i < n /\ i + 1 \in 1..n BY <1>1, <1>3, <2>2
  <2> QED BY <1>3, <2>1, <2>2
<1>7. ASSUME NEW i \in 1..n, NEW j \in 1..n, i < j PROVE r[j].id < r[i].id
  <2>1. i \in 1..(n - 1) BY <1>1, <1>7
  <2>2. s[j].id < s[i].id BY <1>1, <1>3, <1>7, <2>1
  <2> QED BY <1>3, <2>2
<1>8. \A u \in used' : u <= turn' => u \in printed' \/ u = r[1].id BY <1>1, <1>4
<1>9. ASSUME NEW i \in 1..n
      PROVE  Seen(calls[i], printed \cup (IF i < Len(calls) THEN {calls[i+1].id} ELSE {}))'
    BY <1>2, <1>6
<1>10. /\ calls' \in Seq(Frames) /\ Len(calls') = n
       /\ \A i \in 1..n : calls'[i].id \in 1..turn' /\ calls'[i].id \notin printed'
    BY <1>6
<1> QED BY <1>4, <1>7, <1>8, <1>9, <1>10 DEF Calls

\* The last frame moves on, and the aggregate of the field it was at becomes a frame.
LEMMA FrameEntered ==
    ASSUME Aggs, Printed, Calls, UNCHANGED <<agg, used, turn, printed>>,
           NEW s, calls = s, s # <<>>, NEW n, n = Len(s), NEW r \in Seq(Frames), calls' = r,
           NEW a, a.id = s[n].id, NEW b, b.id \in 1..(a.id - 1), b.id \notin printed, b.at = 1,
           Seen(a, printed \cup {b.id}),
           Len(r) = n + 1, r[n] = a, r[n + 1] = b, \A i \in 1..(n - 1) : r[i] = s[i]
    PROVE  Calls'
<1>1. /\ s \in Seq(Frames) /\ n \in Nat \ {0} /\ s[n].id \in 1..turn /\ s[n].id \notin printed
      /\ \A i \in 1..(n - 1) : /\ s[i].id \in 1..turn /\ s[i].id \notin printed
                               /\ s[n].id < s[i].id /\ Seen(s[i], printed \cup {s[i+1].id})
      /\ \A i, j \in 1..(n - 1) : i < j => s[j].id < s[i].id
      /\ \A u \in used : u <= turn => u \in printed \/ u = s[1].id
      /\ turn \in Nat
  <2>1. turn \in Nat BY Waiting
  <2> QED BY <2>1, Waiting
<1>2. \A x, ids : Seen(x, ids)' <=> Seen(x, ids) BY DEF Seen, IsAgg
<1>3. \A i \in 1..n : r[i].id = s[i].id /\ (i = n \/ (i \in 1..(n - 1) /\ i < n /\ i + 1 \in 1..n))
  <2>1. \A i \in 1..n : i = n \/ (i \in 1..(n - 1) /\ i < n /\ i + 1 \in 1..n) BY <1>1
  <2> QED BY <2>1
<1>4. r[1].id = s[1].id /\ r # <<>>
  <2>1. 1 \in 1..n /\ Len(r) # 0 BY <1>1
  <2> QED BY <1>3, <2>1
<1>5. \A ids : Seen(b, ids) BY SMTT(30) DEF Seen
<1>6. b.id \in 1..turn /\ b.id < s[n].id BY <1>1
<1>7. \A i \in 1..(n + 1) : i = n + 1 \/ (i \in 1..n /\ i < n + 1) BY <1>1
<1>8. ASSUME NEW i \in 1..(n + 1)
      PROVE  /\ r[i].id \in 1..turn /\ r[i].id \notin printed
             /\ Seen(r[i], printed \cup (IF i < n + 1 THEN {r[i+1].id} ELSE {}))
  <2>1. CASE i = n + 1 BY <1>5, <1>6, <2>1
  <2>2. CASE i = n
    <3>1. i < n + 1 BY <1>1, <2>2
    <3> QED BY <1>1, <2>2, <3>1
  <2>3. CASE i \in 1..(n - 1) /\ i < n + 1 /\ i + 1 \in 1..n BY <1>1, <1>3, <2>3
  <2> QED BY <1>3, <1>7, <2>1, <2>2, <2>3
<1>9. ASSUME NEW i \in 1..n, NEW j \in 1..n, i < j PROVE r[j].id < r[i].id
  <2>1. i \in 1..(n - 1) BY <1>1, <1>9
  <2>2. s[j].id < s[i].id BY <1>1, <1>3, <1>9, <2>1
  <2> QED BY <1>3, <2>2
<1>10. ASSUME NEW i \in 1..n PROVE b.id < r[i].id
  <2>1. CASE i = n BY <1>3, <1>6, <2>1
  <2>2. CASE i \in 1..(n - 1)
    <3>1. s[n].id < s[i].id BY <1>1, <2>2
    <3>2. s[i].id \in Nat
      <4>1. s[i].id \in 1..turn BY <1>1, <2>2
      <4> QED BY <4>1
    <3>3. s[n].id \in Nat /\ b.id \in Nat BY <1>1, <1>6
    <3> QED BY <1>3, <1>6, <3>1, <3>2, <3>3
  <2> QED BY <1>3, <2>1, <2>2
<1>11. ASSUME NEW i \in 1..(n + 1), NEW j \in 1..(n + 1), i < j PROVE r[j].id < r[i].id
  <2>1. i \in 1..n BY <1>1, <1>11
  <2> QED BY <1>7, <1>9, <1>10, <1>11, <2>1
<1>12. \A u \in used' : u <= turn' => u \in printed' \/ u = r[1].id BY <1>1, <1>4
<1> QED BY <1>2, <1>4, <1>8, <1>11, <1>12 DEF Calls

\* The aggregate is printed: those inside it are, and the frame below goes on.
LEMMA FramePrinted ==
    ASSUME Aggs, Printed, Calls, UNCHANGED <<agg, used, turn>>,
           NEW s, calls = s, s # <<>>, NEW n, n = Len(s), NEW c, c = s[n],
           c.at > Len(agg[c.id].fields), NEW r, calls' = r, r = Front(s),
           printed' = printed \cup {c.id}, out' = Append(out, c.id)
    PROVE  Printed' /\ Calls'
<1>1. /\ s \in Seq(Frames) /\ n \in Nat \ {0} /\ s[n] \in Frames /\ turn \in Nat /\ s[n].id \in Ids
      /\ s[n].id \in 1..turn /\ s[n].id \notin printed /\ Seen(s[n], printed)
    BY Waiting
<1>2. /\ \A i \in 1..(n - 1) : /\ s[i].id \in 1..turn /\ s[i].id \notin printed
                               /\ s[n].id < s[i].id /\ Seen(s[i], printed \cup {s[i+1].id})
      /\ \A i, j \in 1..(n - 1) : i < j => s[j].id < s[i].id
      /\ \A u \in used : u <= turn => u \in printed \/ u = s[1].id
    BY Waiting
<1>3. r \in Seq(Frames) /\ Len(r) = n - 1 /\ \A i \in 1..(n - 1) : r[i] = s[i]
    BY <1>1, Pushed, ZenonT(60)
<1>4. \A x, ids : Seen(x, ids)' <=> Seen(x, ids) BY DEF Seen, IsAgg
<1>5. PICK k : k = c.id OBVIOUS
<1>6. k \in Ids /\ k \in 1..turn /\ k \notin printed /\ agg[k].fields \in Seq(FieldRecs)
  <2>1. agg[k] \in AggRecs BY <1>1, <1>5 DEF Aggs, Ids
  <2> QED BY <1>1, <1>5, <2>1 DEF AggRecs
<1>7. \A f \in FieldsOf(k) : IsAgg(f.type) => f.type.id \in printed
  <2>1. DOMAIN agg[k].fields = 1..Len(agg[k].fields) /\ Len(agg[k].fields) \in Nat BY <1>6
  <2>2. c.at \in Nat BY <1>1 DEF Frames
  <2>3. \A j \in 1..Len(agg[k].fields) : j < c.at BY <1>5, <2>1, <2>2
  <2>4. \A j \in 1..Len(agg[k].fields) :
          IsAgg(agg[k].fields[j].type) => agg[k].fields[j].type.id \in printed
      BY <1>1, <1>5, <2>3 DEF Seen
  <2> QED BY <2>1, <2>4 DEF FieldsOf, Range
<1>8. Printed'
  <2>1. out \in Seq(Ids) /\ printed = Range(out) /\ printed \subseteq 1..turn BY DEF Printed
  <2>2. PICK m : m = Len(out) OBVIOUS
  <2>3. /\ out' \in Seq(Ids) /\ Len(out') = m + 1 /\ m \in Nat
        /\ out'[m + 1] = k /\ \A i \in 1..m : out'[i] = out[i]
      BY <1>5, <1>6, <2>1, <2>2, AppendProperties
  <2>4. DOMAIN out = 1..m /\ DOMAIN out' = 1..(m + 1) BY <2>1, <2>2, <2>3
  <2>5. \A i \in 1..(m + 1) : i = m + 1 \/ i \in 1..m BY <2>3
  <2>6. printed' = Range(out')
    <3>1. \A x \in printed' : x \in Range(out')
      <4>1. m + 1 \in 1..(m + 1) /\ \A i \in 1..m : i \in 1..(m + 1) BY <2>3
      <4>2. k \in Range(out') BY <2>3, <2>4, <4>1 DEF Range
      <4>3. \A x \in Range(out) : x \in Range(out') BY <2>3, <2>4, <4>1 DEF Range
      <4> QED BY <1>5, <2>1, <4>2, <4>3
    <3>2. \A x \in Range(out') : x \in printed'
      <4>1. \A i \in 1..m : out[i] \in printed BY <2>1, <2>4 DEF Range
      <4>2. \A i \in 1..(m + 1) : out'[i] \in printed \/ out'[i] = k BY <2>3, <2>5, <4>1
      <4> QED BY <1>5, <2>4, <4>2 DEF Range
    <3> QED BY <3>1, <3>2
  <2>7. \A i \in 1..m : out[i] # k BY <1>6, <2>1, <2>4 DEF Range
  <2>8. \A i, j \in 1..m : out[i] = out[j] => i = j BY <2>2 DEF Printed
  <2>9. \A i, j \in 1..(m + 1) : out'[i] = out'[j] => i = j BY <2>3, <2>5, <2>7, <2>8
  <2>10. ASSUME NEW f \in FieldsOf(k), IsAgg(f.type)
         PROVE  \E h \in 1..m : out'[h] = f.type.id
    <3>1. f.type.id \in Range(out) BY <1>7, <2>1, <2>10
    <3> QED BY <2>3, <2>4, <3>1 DEF Range
  <2>11. ASSUME NEW i \in 1..m, NEW f \in FieldsOf(out[i]), IsAgg(f.type)
         PROVE  \E h \in 1..(i - 1) : out'[h] = f.type.id
    <3>1. PICK h \in 1..(i - 1) : out[h] = f.type.id BY <2>2, <2>11 DEF Printed
    <3>2. h \in 1..m BY <2>3
    <3> QED BY <2>3, <3>1, <3>2
  <2>12. \A i \in 1..(m + 1) : \A f \in FieldsOf(out'[i]) :
            IsAgg(f.type) => \E h \in 1..(i - 1) : out'[h] = f.type.id
    <3> SUFFICES ASSUME NEW i \in 1..(m + 1), NEW f \in FieldsOf(out'[i]), IsAgg(f.type)
                 PROVE  \E h \in 1..(i - 1) : out'[h] = f.type.id
        OBVIOUS
    <3>1. CASE i = m + 1
      <4>1. i - 1 = m BY <2>3, <3>1
      <4>2. out'[i] = k BY <2>3, <3>1
      <4>3. f \in FieldsOf(k) BY <4>2
      <4> QED BY <2>10, <3>1, <4>1, <4>3
    <3>2. CASE i \in 1..m BY <2>3, <2>11, <3>2
    <3> QED BY <2>5, <3>1, <3>2
  <2>13. turn' \in 0..Len(agg') /\ printed' \subseteq 1..turn'
    <3>1. turn \in 0..Len(agg) BY DEF Printed
    <3> QED BY <1>5, <1>6, <2>1, <3>1
  <2>14. Ids' = Ids /\ \A x : FieldsOf(x)' = FieldsOf(x) BY DEF Ids, FieldsOf
  <2> QED BY <2>3, <2>6, <2>9, <2>12, <2>13, <2>14 DEF Printed, IsAgg
<1>9. \A i \in 1..(n - 1) : /\ (i < n - 1 /\ i + 1 \in 1..(n - 1)) \/ i = n - 1
                           /\ (i < n - 1 => i # n - 1)
    BY <1>1
<1>10. ASSUME NEW i \in 1..(n - 1)
       PROVE  /\ r[i].id \in 1..turn' /\ r[i].id \notin printed'
              /\ Seen(r[i], printed' \cup (IF i < n - 1 THEN {r[i+1].id} ELSE {}))
  <2>1. s[i].id \in 1..turn /\ s[i].id \notin printed /\ s[n].id < s[i].id BY <1>2
  <2>2. s[i].id # k /\ r[i] = s[i] BY <1>1, <1>3, <1>5, <2>1
  <2>3. Seen(s[i], printed \cup {s[i+1].id}) BY <1>2
  <2>4. \A x, ids, jds : Seen(x, ids) /\ ids \subseteq jds => Seen(x, jds) BY DEF Seen
  <2>5. ASSUME i < n - 1, i + 1 \in 1..(n - 1)
        PROVE  Seen(r[i], printed' \cup (IF i < n - 1 THEN {r[i+1].id} ELSE {}))
    <3>1. r[i+1].id = s[i+1].id BY <1>3, <2>5
    <3>2. printed \cup {s[i+1].id} \subseteq printed' \cup {r[i+1].id} BY <3>1
    <3>3. Seen(s[i], printed' \cup {r[i+1].id}) BY <2>3, <2>4, <3>2
    <3> QED BY <2>2, <2>5, <3>3
  <2>6. ASSUME i = n - 1
        PROVE  Seen(r[i], printed' \cup (IF i < n - 1 THEN {r[i+1].id} ELSE {}))
    <3>1. i + 1 = n /\ ~(i < n - 1) BY <1>1, <2>6
    <3>2. Seen(s[i], printed') BY <1>5, <2>3, <3>1
    <3>3. Seen(s[i], printed' \cup {}) BY <2>4, <3>2
    <3> QED BY <2>2, <3>1, <3>3
  <2> QED BY <1>5, <1>9, <2>1, <2>2, <2>5, <2>6
<1>11. \A i, j \in 1..(n - 1) : i < j => r[j].id < r[i].id BY <1>2, <1>3
<1>12. \A u \in used' : u <= turn' => u \in printed' \/ (r # <<>> /\ u = r[1].id)
  <2>1. CASE n = 1 BY <1>2, <1>5, <2>1
  <2>2. CASE n # 1
    <3>1. 1 \in 1..(n - 1) BY <1>1, <2>2
    <3>2. r # <<>>
      <4>1. Len(r) # 0 BY <1>3, <3>1
      <4> QED BY <4>1
    <3> QED BY <1>2, <1>3, <3>1, <3>2
  <2> QED BY <2>1, <2>2
<1>13. ASSUME NEW i \in 1..(n - 1)
       PROVE  Seen(calls[i], printed \cup (IF i < Len(calls) THEN {calls[i+1].id} ELSE {}))'
  <2>1. PICK ids : ids = printed' \cup (IF i < n - 1 THEN {r[i+1].id} ELSE {}) OBVIOUS
  <2>2. Seen(r[i], ids) BY <1>10, <2>1
  <2>3. Seen(r[i], ids)' BY <1>4, <2>2
  <2> QED BY <1>3, <2>1, <2>3
<1>14. Calls' BY <1>3, <1>10, <1>11, <1>12, <1>13 DEF Calls
<1> QED BY <1>8, <1>14

\* The frames s after a turn of the last one, c, over the field f.
Turned(s, c, f) == Front(s) \o <<[c EXCEPT !.at = @ + 1]>> \o CallFor(f.type)

LEMMA FieldPrinted ==
    ASSUME Aggs, Printed, Calls, UNCHANGED <<agg, used, turn, printed, out>>,
           NEW s, calls = s, s # <<>>, NEW n, n = Len(s), NEW c, c = s[n],
           c.at <= Len(agg[c.id].fields), NEW f, f = agg[c.id].fields[c.at],
           NEW r, calls' = r, r = Turned(s, c, f)
    PROVE  Printed' /\ Calls'
<1>1. /\ s \in Seq(Frames) /\ n \in Nat \ {0} /\ c \in Frames
      /\ c.id \in Ids /\ c.id \notin printed /\ Seen(c, printed)
  <2>1. /\ s \in Seq(Frames) /\ n \in Nat \ {0} /\ s[n] \in Frames
        /\ s[n].id \in Ids /\ s[n].id \notin printed /\ Seen(s[n], printed)
      BY Waiting
  <2> QED BY <2>1
<1>2. Printed' BY DEF Printed, Ids, FieldsOf, IsAgg
<1>3. PICK a : a = [c EXCEPT !.at = @ + 1] OBVIOUS
<1>4. a \in Frames /\ a.id = c.id /\ a.at = c.at + 1 /\ c.at \in Nat \ {0} /\ c.id \in Nat
  <2>1. c.at \in Nat \ {0} /\ c.id \in Nat /\ c = [id |-> c.id, at |-> c.at] BY <1>1 DEF Frames
  <2>2. a = [id |-> c.id, at |-> c.at + 1] BY <1>3, <2>1
  <2> QED BY <2>1, <2>2 DEF Frames
<1>5. agg[c.id].fields \in Seq(FieldRecs)
  <2>1. agg[c.id] \in AggRecs BY <1>1 DEF Aggs, Ids
  <2> QED BY <2>1 DEF AggRecs
<1>6. f \in FieldsOf(c.id)
  <2>1. c.at \in 1..Len(agg[c.id].fields) BY <1>4, <1>5
  <2>2. DOMAIN agg[c.id].fields = 1..Len(agg[c.id].fields) BY <1>5, SMTT(30)
  <2> QED BY <2>1, <2>2 DEF FieldsOf, Range
<1>7. ASSUME NEW ids, Seen(c, ids), IsAgg(f.type) => f.type.id \in ids PROVE Seen(a, ids)
  <2> SUFFICES ASSUME NEW j \in 1..Len(agg[c.id].fields), j < a.at, IsAgg(agg[c.id].fields[j].type)
               PROVE  agg[c.id].fields[j].type.id \in ids
      BY <1>4 DEF Seen
  <2>1. CASE j = c.at BY <1>7, <2>1
  <2>2. CASE j < c.at BY <1>7, <2>2 DEF Seen
  <2>3. j \in Int /\ j < c.at + 1 BY <1>4, SMTT(30)
  <2>4. j = c.at \/ j < c.at BY <1>4, <2>3, SMTT(30)
  <2> QED BY <2>1, <2>2, <2>4
<1>8. CASE ~IsAgg(f.type) \/ f.type.id \in printed
  <2>1. r = Front(s) \o <<a>> \o <<>> BY <1>3, <1>8 DEF CallFor, Turned
  <2>0. LET x == Front(s) \o <<a>> \o <<>>
        IN  /\ x \in Seq(Frames) /\ Len(x) = Len(s) /\ x[Len(s)] = a
            /\ \A i \in 1..(Len(s) - 1) : x[i] = s[i]
      BY <1>1, <1>4, Pushed, SMTT(30)
  <2>2. r \in Seq(Frames) /\ Len(r) = n /\ r[n] = a /\ \A i \in 1..(n - 1) : r[i] = s[i]
      BY <2>0, <2>1
  <2>3. Seen(a, printed) BY <1>1, <1>7, <1>8
  <2>4. a.id = s[n].id BY <1>4
  <2>5. Calls' BY <2>2, <2>3, <2>4, FrameMoved, ZenonT(60)
  <2> QED BY <1>2, <2>5
<1>9. CASE IsAgg(f.type) /\ f.type.id \notin printed
  <2>1. PICK k : k = f.type.id OBVIOUS
  <2>2. k \in 1..(c.id - 1) BY <1>1, <1>6, <1>9, <2>1, OlderFields
  <2>3. k \in Nat BY <1>4, <2>2
  <2>4. PICK b : b = [id |-> k, at |-> 1] OBVIOUS
  <2>5. b \in Frames /\ b.id = k /\ b.at = 1 BY <2>3, <2>4, SMTT(30) DEF Frames
  <2>6. r = Front(s) \o <<a>> \o <<b>> BY <1>3, <1>9, <2>1, <2>4 DEF CallFor, Turned
  <2>7. /\ r \in Seq(Frames) /\ Len(r) = n + 1 /\ r[n] = a /\ r[n + 1] = b
        /\ \A i \in 1..(n - 1) : r[i] = s[i]
    <3>1. LET x == Front(s) \o <<a>> \o <<b>>
          IN  /\ x \in Seq(Frames) /\ Len(x) = Len(s) + 1 /\ x[Len(s)] = a /\ x[Len(s) + 1] = b
              /\ \A i \in 1..(Len(s) - 1) : x[i] = s[i]
        BY <1>1, <1>4, <2>5, Pushed, SMTT(30)
    <3> QED BY <2>6, <3>1
  <2>8. Seen(a, printed \cup {b.id})
    <3>1. Seen(c, printed \cup {k}) BY <1>1 DEF Seen
    <3> QED BY <1>7, <2>1, <2>5, <3>1
  <2>9. a.id = s[n].id /\ b.id \notin printed /\ b.id \in 1..(a.id - 1)
      BY <1>4, <1>9, <2>1, <2>2, <2>5
  <2>10. Calls' BY <2>5, <2>7, <2>8, <2>9, FrameEntered, ZenonT(60)
  <2> QED BY <1>2, <2>10
<1> QED BY <1>8, <1>9

LEMMA StructPrinted ==
    ASSUME Aggs, Printed, Calls, OutputStructUnion PROVE Printed' /\ Calls'
<1>1. PICK s : s = calls OBVIOUS
<1>2. PICK n : n = Len(s) OBVIOUS
<1>3. PICK c : c = s[n] OBVIOUS
<1>4. PICK f : f = agg[c.id].fields[c.at] OBVIOUS
<1>5. s # <<>> /\ UNCHANGED <<agg, used, turn>> BY <1>1 DEF OutputStructUnion
<1>6. Last(calls) = c BY <1>1, <1>2, <1>3, <1>5, Waiting
<1>7. \/ /\ c.at <= Len(agg[c.id].fields) /\ calls' = Turned(s, c, f) /\ UNCHANGED <<printed, out>>
      \/ /\ c.at > Len(agg[c.id].fields) /\ calls' = Front(s)
         /\ printed' = printed \cup {c.id} /\ out' = Append(out, c.id)
    BY <1>1, <1>4, <1>6 DEF OutputStructUnion, Turned
<1> QED BY <1>1, <1>2, <1>3, <1>4, <1>5, <1>7, FieldPrinted, FramePrinted

LEMMA PrintedNext ==
    Shape /\ Aggs /\ Aggs' /\ Uses /\ Uses' /\ Printed /\ Calls /\ [Next]_tvars => Printed' /\ Calls'
<1> SUFFICES ASSUME Shape, Aggs, Aggs', Uses, Uses', Printed, Calls, [Next]_tvars
             PROVE  Printed' /\ Calls'
    OBVIOUS
<1>1. Shape' BY ShapeNext
<1>2. ASSUME ~Printing' PROVE Printed' /\ Calls'
  <2>1. turn' = 0 /\ calls' = <<>> /\ printed' = {} /\ out' = <<>> BY <1>1, <1>2 DEF Shape
  <2>2. Len(agg') \in Nat BY DEF Aggs
  <2> QED BY <2>1, <2>2, NothingPrintedNext
<1>3. CASE MakeTypes BY <1>2, <1>3, MakeStep DEF Printing
<1>4. CASE UseTypes BY <1>2, <1>4, UseStep DEF Printing
<1>5. CASE UNCHANGED <<agg, used, turn, calls, printed, out>>
    BY <1>5 DEF Printed, Calls, Seen, Ids, FieldsOf, IsAgg
<1>6. CASE PrintTypes
  <2>1. CASE Output BY <1>5, <2>1 DEF Output, paper
  <2>2. CASE OutputStructUnionDeclarations BY <2>2, DeclarationsPrinted
  <2>3. CASE OutputStructUnion BY <2>3, StructPrinted
  <2>4. CASE EndOutput BY <1>5, <2>4 DEF EndOutput, paper
  <2> QED BY <1>6, <2>1, <2>2, <2>3, <2>4 DEF PrintTypes
<1>7. CASE UNCHANGED tvars BY <1>5, <1>7 DEF tvars
<1> QED BY <1>3, <1>4, <1>6, <1>7, NextSteps

\* All that is invariant of a program's types.
TypesInv == Shape /\ Prog /\ Aggs /\ Uses /\ Printed /\ Calls

LEMMA TypesInvariant == Spec => []TypesInv
<1>1. Init => TypesInv
  <2> SUFFICES ASSUME Init PROVE TypesInv OBVIOUS
  <2>1. Shape /\ Aggs BY ShapeInit, AggsInit
  <2>2. Prog BY DEF Init, Prog
  <2>3. Uses
    <3>1. Range(pend) = {} BY DEF Init, Range
    <3> QED BY <3>1 DEF Init, Uses
  <2>4. Printed /\ Calls
    <3>1. Len(agg) \in Nat BY <2>1 DEF Aggs
    <3> QED BY <2>3, <3>1, NothingPrinted DEF Init
  <2> QED BY <2>1, <2>2, <2>3, <2>4 DEF TypesInv
<1>2. TypesInv /\ [Next]_tvars => TypesInv'
  <2> SUFFICES ASSUME TypesInv, [Next]_tvars PROVE TypesInv' OBVIOUS
  <2>1. Shape /\ Prog /\ Aggs /\ Uses /\ Printed /\ Calls BY DEF TypesInv
  <2>2. Shape' /\ Prog' /\ Aggs' /\ Uses' BY <2>1, ShapeNext, ProgNext, AggsNext, UsesNext
  <2>3. Printed' /\ Calls' BY <2>1, <2>2, PrintedNext
  <2> QED BY <2>2, <2>3 DEF TypesInv
<1> QED BY <1>1, <1>2, PTL DEF Spec

\* A variable's type is one of an aggregate that is used, when it is of one.
LEMMA BaseUsed ==
    ASSUME Uses, NEW t \in TypesOver(used), IsAgg(get_base_type(t))
    PROVE  get_base_type(t).id \in used
<1>1. t.stars \in Nat /\ t.stars \in 0..t.stars BY DEF TypesOver
<1>2. get_base_type(t) = Below(t, t.stars) BY DEF get_base_type, get_indirect_level
<1>3. get_base_type(t).id = t.id /\ get_base_type(t).kind = t.kind BY DEF get_base_type, Below
<1> QED BY <1>3 DEF IsAgg, TypesOver

\* The aggregates are printed once each, in an order in which every one comes after those
\* inside it at any depth, and no declaration's aggregate is left out
\* (OutputStructUnionDeclarations, OutputStructUnion).
THEOREM DeclarationOrder == Spec => []DeclaredBeforeUse
<1>1. TypesInv => DeclaredBeforeUse
  <2> SUFFICES ASSUME Shape, Aggs, Uses, Printed, Calls, phase = "printed" PROVE DeclaredBeforeUse
      BY DEF TypesInv, DeclaredBeforeUse
  <2>1. PICK n : n = Len(out) OBVIOUS
  <2>2. /\ out \in Seq(Ids) /\ n \in Nat /\ DOMAIN out = 1..n /\ printed = Range(out)
        /\ \A i \in 1..n : out[i] \in Ids
      BY <2>1 DEF Printed
  <2>3. ASSUME NEW i \in 1..n, NEW j \in Nested(out[i]) \ {out[i]}
        PROVE  \E h \in 1..(i - 1) : out[h] = j
    <3>1. PICK k : k = out[i] OBVIOUS
    <3>2. k \in Ids /\ k \in 1..k /\ Len(agg) \in Nat BY <2>2, <3>1 DEF Ids, Aggs
    <3>3. PICK S : S = {m \in 1..k : \E h \in 1..i : out[h] = m} OBVIOUS
    <3>4. S \in SUBSET (1..k) /\ k \in S
      <4>1. i \in 1..i BY <2>2
      <4> QED BY <3>1, <3>2, <3>3, <4>1
    <3>5. ASSUME NEW m \in S, NEW f \in FieldsOf(m), IsAgg(f.type) PROVE f.type.id \in S
      <4>1. PICK h \in 1..i : out[h] = m BY <3>3
      <4>2. h \in 1..n BY <2>2
      <4>3. PICK g \in 1..(h - 1) : out[g] = f.type.id BY <2>1, <3>5, <4>1, <4>2 DEF Printed
      <4>4. g \in 1..i BY <2>2, <4>1
      <4>5. m \in Ids /\ m \in 1..k BY <2>2, <3>3, <4>1, <4>2
      <4>6. f.type.id \in 1..(m - 1) BY <3>5, <4>5, OlderFields
      <4>7. f.type.id \in 1..k BY <3>2, <4>5, <4>6
      <4> QED BY <3>3, <4>3, <4>4, <4>7
    <3>6. Nested(k) \subseteq S BY <3>2, <3>4, <3>5, NestedClosed
    <3>7. PICK h \in 1..i : out[h] = j BY <3>1, <3>3, <3>6
    <3>8. h # i BY <3>1, <3>7
    <3>9. h \in 1..(i - 1) BY <2>2, <3>8
    <3> QED BY <3>7, <3>9
  <2>4. \A i, j \in 1..n : out[i] = out[j] => i = j BY <2>1 DEF Printed
  <2>5. used \subseteq Range(out)
    <3>1. calls = <<>> /\ turn = Len(agg) /\ Len(agg) \in Nat BY DEF Shape, Aggs
    <3>2. \A u \in used : u <= turn BY <3>1 DEF Uses, Ids
    <3> QED BY <2>2, <3>1, <3>2 DEF Calls
  <2>6. ASSUME NEW v \in vars, IsAgg(get_base_type(v.type))
        PROVE  get_base_type(v.type).id \in Range(out)
    <3>1. v.type \in TypesOver(used) BY DEF Uses
    <3> QED BY <2>5, <2>6, <3>1, BaseUsed
  <2> QED BY <2>1, <2>3, <2>4, <2>6 DEF DeclaredBeforeUse
<1> QED BY <1>1, TypesInvariant, PTL

LEMMA Typed ==
    ASSUME TypesInv PROVE TypeOK
<1>1. Shape /\ Prog /\ Aggs /\ Uses /\ Printed BY DEF TypesInv
<1>2. used \subseteq Ids /\ phase \in {"structs", "unions", "program", "printing", "printed"}
    BY <1>1 DEF Shape, Uses
<1>3. Range(out) \subseteq Ids
  <2>1. out \in Seq(Ids) BY <1>1 DEF Printed
  <2> QED BY <2>1 DEF Range
<1>4. ASSUME NEW k \in Ids, NEW f \in FieldsOf(k), IsAgg(f.type) PROVE f.type.id < k
  <2>1. f.type.id \in 1..(k - 1) BY <1>1, <1>4, OlderFields
  <2>2. k \in Nat BY <1>1 DEF Aggs, Ids
  <2> QED BY <2>1, <2>2
<1>5. ASSUME NEW v \in vars \cup Range(pend)
      PROVE  /\ Len(v.q) = get_indirect_level(v.type) + 1
             /\ IsAgg(get_base_type(v.type)) => get_base_type(v.type).id \in Ids
  <2>1. v.type \in TypesOver(used) BY <1>1 DEF Uses
  <2>2. IsAgg(get_base_type(v.type)) => get_base_type(v.type).id \in Ids BY <1>1, <1>2, <2>1, BaseUsed
  <2>3. v.q \in Quals(opt, OkAggs, v.type)
    <3>1. v \in vars \/ v \in PendRecs(opt, Ids, OkAggs) BY <1>1 DEF Prog, Range
    <3> QED BY <1>1, <3>1 DEF Prog, VarRecs, PendRecs
  <2>4. v.type.stars + 1 \in Nat BY <2>1 DEF TypesOver
  <2>5. Len(v.q) = v.type.stars + 1 BY <2>3, <2>4, VectorSeq DEF Quals
  <2> QED BY <2>2, <2>5 DEF get_indirect_level
<1>6. ASSUME NEW v \in AllVars
      PROVE  /\ Len(v.q) = get_indirect_level(v.type) + 1
             /\ IsAgg(get_base_type(v.type)) => get_base_type(v.type).id \in Ids
  <2>1. PICK w \in vars \cup Range(pend) : w.q = v.q /\ w.type = v.type BY DEF AllVars, Declared
  <2> QED BY <1>5, <2>1
<1> QED BY <1>2, <1>3, <1>4, <1>6 DEF TypeOK

\* The table of types is one an implementation accepts: no bit-field and no operator inside a
\* union at any depth (make_one_union_field), a named member first and no two unnamed ones in
\* a row (make_one_bitfield), the volatile operators for every object that is declared, or
\* pointed to, as volatile, and for the members inside it (is_volatile_ok_on_one_level,
\* ChooseRandomTypeFilter).
THEOREM Aggregates == Spec => []AggregatesFit
<1>1. TypesInv => AggregatesFit
  <2> SUFFICES ASSUME TypesInv PROVE AggregatesFit OBVIOUS
  <2>1. TypeOK BY Typed
  <2>2. UnionsPortable /\ VolatileAssignable BY UnionsFit, VolatileFits DEF TypesInv
  <2>3. NamedMembers
    <3>1. \A k \in Ids : Named(agg[k].fields) BY DEF TypesInv, Aggs, AggFit
    <3> QED BY <3>1 DEF NamedMembers, Named
  <2> QED BY <2>1, <2>2, <2>3 DEF AggregatesFit
<1> QED BY <1>1, TypesInvariant, PTL

=============================================================================
