------------------------------ MODULE Qualifiers ------------------------------
(***************************************************************************)
(* The qualifiers of a declaration (CVQualifiers.cpp): one pair of flags   *)
(* for every level of indirection, the base type first and the declared    *)
(* object last, so that "const int * volatile p" is                        *)
(* <<[c, ~v], [~c, v]>>.  The empty sequence is the wildcard, which every  *)
(* qualifier matches.  An operator whose code draws random numbers is the  *)
(* set of its results; o is the record of the command line's options.      *)
(***************************************************************************)
EXTENDS Integers, Sequences, SequencesExt

Flags == [c : BOOLEAN, v : BOOLEAN]
Plain == [c |-> FALSE, v |-> FALSE]
Wildcard == <<>>

\* Every qualifier of n levels.
Vectors(n) == [1..n -> Flags]

\* The levels of a vector of n that two more stars follow: the C rules allow
\* no conversion there.
Deep(n) == 1..(n - 2)

\* A slip: stricter_than without the rule for the levels two stars follow.
stricter_than_NoDeep(a, b) ==
  LET n == Len(a)
  IN  /\ Len(b) = n
      /\ \A i \in 1..n : (b[i].c => a[i].c) /\ (b[i].v => a[i].v)
      /\ n > 1 => a[1].v = b[1].v

\* A slip: stricter_than without the rule for the storage.
stricter_than_NoStorage(a, b) ==
  LET n == Len(a)
  IN  /\ Len(b) = n
      /\ \A i \in 1..n : (b[i].c => a[i].c) /\ (b[i].v => a[i].v)
      /\ \A i \in Deep(n) : a[i] = b[i]

stricter_than(a, b) ==
  LET n == Len(a)
  IN  /\ Len(b) = n
      /\ \A i \in 1..n : (b[i].c => a[i].c) /\ (b[i].v => a[i].v)
      /\ \A i \in Deep(n) : a[i] = b[i]
      /\ n > 1 => a[1].v = b[1].v

match(o, want, stricter, q) ==
  \/ want = Wildcard
  \/ IF o.exact THEN want = q
     ELSE \/ Len(want) = 1 /\ Len(q) = 1
          \/ IF stricter THEN stricter_than(q, want) ELSE stricter_than(want, q)

\* Taking the address adds a plain level, dereferencing removes levels.
indirect_qualifiers(q, level) ==
  IF q = Wildcard \/ level = 0 THEN q
  ELSE IF level < 0 THEN Append(q, Plain)
  ELSE SubSeq(q, 1, Len(q) - level)

match_indirect(o, want, stricter, q) ==
  \/ want = Wildcard
  \/ /\ Len(q) - Len(want) >= -1
     /\ match(o, want, stricter, indirect_qualifiers(q, Len(q) - Len(want)))

set_top(q, flag, to) ==
  IF q = Wildcard THEN q ELSE [q EXCEPT ![Len(q)][flag] = to]

\* A slip: volatile is kept whatever the context has done.
restrict_KeepVolatile(q, write, free) == IF write THEN set_top(q, "c", FALSE) ELSE q

\* What a declaration may keep of its qualifiers in this context.
restrict(q, write, free) ==
  LET unconst == IF write THEN set_top(q, "c", FALSE) ELSE q
  IN  IF free THEN unconst ELSE set_top(unconst, "v", FALSE)

\* Pointers lose the flags the options do not give to pointers.
make_scalar(o, q) ==
  [i \in 1..Len(q) |->
     IF i = 1 THEN q[1]
     ELSE [c |-> q[i].c /\ o.const_pointers,
           v |-> q[i].v /\ o.volatile_pointers /\ o.global_variables]]

\* The vectors random_looser_consts and random_looser_volatiles can give.
random_looser(o, q) ==
  LET n == Len(q)
  IN  IF o.exact THEN {q}
      ELSE {r \in Vectors(n) :
              /\ \A i \in 1..n : (r[i].c => q[i].c) /\ (r[i].v => q[i].v)
              /\ \A i \in Deep(n) : r[i] = q[i]
              /\ n > 1 => r[1].v = q[1].v}

\* The looser qualifiers an initialiser is given.
random_loose_qualifiers(o, q, no_volatile, write, free) ==
  IF q = Wildcard THEN {q}
  ELSE {restrict(make_scalar(o, IF no_volatile
                                  THEN [i \in 1..Len(q) |-> [r[i] EXCEPT !.v = FALSE]]
                                  ELSE r), write, free)
          : r \in random_looser(o, q)}

\* The member random_qualifiers as its one caller uses it: never volatile,
\* and looser, since accept_stricter is only set on the left of assignments.
random_qualifiers_of(o, q, write) ==
  random_loose_qualifiers(o, q, TRUE, write, TRUE)

\* A slip: the qualifiers of the pointee are used for the pointer.
random_add_qualifiers_None(o, q, no_volatile) == {q}

random_add_qualifiers(o, q, no_volatile) ==
  IF o.exact THEN {Append(q, Plain)}
  ELSE {Append(q, f) : f \in {g \in Flags :
          /\ g.c => o.const_pointers /\ o.consts
          /\ g.v => o.volatile_pointers /\ o.volatiles /\ ~no_volatile}}

\* C's rule for "dst = src" of pointers with n - 1 stars: the pointed-to level
\* may gain qualifiers, the levels below it must agree.
Converts(dst, src) ==
  LET n == Len(dst)
  IN  /\ Len(src) = n
      /\ \A i \in Deep(n) : dst[i] = src[i]
      /\ n > 1 => (src[n - 1].c => dst[n - 1].c) /\ (src[n - 1].v => dst[n - 1].v)
===============================================================================
