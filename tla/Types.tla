-------------------------------- MODULE Types ---------------------------------
(***************************************************************************)
(* The type table of a program (Type.cpp) and the qualified declarations   *)
(* that are made from it (VariableSelector.cpp, StatementAssign.cpp,       *)
(* Lhs.cpp).  GenerateAllTypes first makes the structs, then the unions;   *)
(* the generator then asks for types, declares variables with initialisers *)
(* and assigns to them, and the types it used are printed at the end.      *)
(*                                                                         *)
(* A type is [kind, id, stars]: a simple type or the id-th aggregate of    *)
(* agg, behind so many stars.  A variable is [type, q, glob].              *)
(* The effect context is the flag free of the step: whether it is          *)
(* side-effect free.  Fields are not selected as variables of their own,   *)
(* and one function with one block stands for the scopes.                  *)
(***************************************************************************)
EXTENDS Qualifiers, FiniteSets, FiniteSetsExt

CONSTANTS
  Options,     \* the command lines: records of options, with the bounds
               \* "aggs" and "vars" on aggregates and declared variables
  BitLengths   \* the lengths a bit-field may draw

ASSUME BitLengthsAssumption == BitLengths \subseteq Nat /\ 0 \in BitLengths

ASSUME OptionsAssumption ==
  Options \subseteq
    [cpp : BOOLEAN, use_struct : BOOLEAN, use_union : BOOLEAN, bitfields : BOOLEAN,
     ccomp : BOOLEAN, packed_struct : BOOLEAN, fixed_struct_fields : BOOLEAN,
     max_struct_fields : Nat, max_union_fields : Nat, max_nested_struct_level : Nat,
     return_structs : BOOLEAN, arg_structs : BOOLEAN, arg_unions : BOOLEAN, longlong : BOOLEAN,
     const_fields : BOOLEAN, vol_fields : BOOLEAN, consts : BOOLEAN, volatiles : BOOLEAN,
     const_pointers : BOOLEAN, volatile_pointers : BOOLEAN, allow_const_volatile : BOOLEAN,
     global_variables : BOOLEAN, strict_volatile_rule : BOOLEAN, max_indirect_level : Nat,
     exact : BOOLEAN, aggs : Nat, vars : Nat]

VARIABLES
  opt,     \* the options of this run
  phase,   \* "structs", "unions", "program", "printing", "printed"
  agg,     \* AllTypes beyond the simple types, in order of creation
  cur,     \* the struct or union whose fields are being made, or None
  used,    \* the aggregates whose flag "used" is set
  ptrs,    \* derived_types
  vars,    \* the declared variables: the kinds of them, since two that agree
           \* in type, qualifiers and scope are chosen alike
  pend,    \* declarations that wait for their initialiser, innermost last
  job,     \* the assignment whose right-hand side is made, or None
  flow,    \* the last conversion of one declaration's value to another's
  turn,    \* the type the loop over all types is at when they are printed
  calls,   \* the calls of OutputStructUnion, innermost last: [id, at], the
           \* aggregate and the field it is at
  printed, \* the aggregates whose flag "printed" is set
  out      \* the order in which the aggregates are printed

tvars == <<opt, phase, agg, cur, used, ptrs, vars, pend, job, flow, turn, calls, printed, out>>
paper == <<turn, calls, printed, out>>

None == [none |-> TRUE]
Simple(n) == [kind |-> "simple", id |-> n, stars |-> 0]
Agg(k) == [kind |-> "agg", id |-> k, stars |-> 0]
Ptr(t) == [t EXCEPT !.stars = @ + 1]
eInt == Simple(2)
eLongLong == Simple(5)

IsPtr(t) == t.stars > 0
IsAgg(t) == t.kind = "agg" /\ t.stars = 0
IsSimple(t) == t.kind = "simple" /\ t.stars = 0

\* The simple types the probabilities leave.
SimpleTypes == {eInt} \cup (IF opt.longlong THEN {eLongLong} ELSE {})
Ids == 1..Len(agg)
IsStruct(t) == IsAgg(t) /\ ~agg[t.id].union
IsUnion(t) == IsAgg(t) /\ agg[t.id].union
FieldsOf(k) == Range(agg[k].fields)

\* The type n dereferences below t.
Below(t, n) == [t EXCEPT !.stars = @ - n]

get_indirect_level(t) == t.stars

get_base_type(t) == Below(t, get_indirect_level(t))

(***************************************************************************)
(* Questions about an aggregate.                                           *)
(***************************************************************************)
\* An aggregate and the aggregates inside it, at any depth: the least set with
\* k and the aggregates among the fields of its members.
Nested(k) ==
  {i \in 1..k : \A S \in SUBSET (1..k) :
     (k \in S /\ \A j \in S : \A f \in FieldsOf(j) : IsAgg(f.type) => f.type.id \in S) => i \in S}

\* The same through structs only.
NestedStructs(k) ==
  {i \in 1..k : \A S \in SUBSET (1..k) :
     (k \in S /\ \A j \in S : \A f \in FieldsOf(j) : IsStruct(f.type) => f.type.id \in S) => i \in S}

is_const_struct_union(t) ==
  IsAgg(t) /\ \E k \in Nested(t.id) : \E f \in FieldsOf(k) : f.c

is_volatile_struct_union(t) ==
  IsAgg(t) /\ \E k \in Nested(t.id) : \E f \in FieldsOf(k) : f.v

\* A slip: only the bit-fields of the aggregate itself.
has_bitfields_Own(k) == \E f \in FieldsOf(k) : f.len >= 0

\* Bit-fields of a struct and of the structs in it; not of a union in it.
has_bitfields(k) == \E i \in NestedStructs(k) : \E f \in FieldsOf(i) : f.len >= 0

contain_pointer_field(k) ==
  \E i \in Nested(k) : \E f \in FieldsOf(i) : IsPtr(f.type)

get_struct_depth(k) ==
  LET D[i \in 1..k] ==
        IF agg[i].union THEN 0
        ELSE 1 + Max({0} \cup {D[f.type.id] : f \in {g \in FieldsOf(i) : IsAgg(g.type)}})
  IN  D[k]

\* A slip: no rule for the structs in a union.
is_volatile_ok_NoUnion(t) ==
  ~opt.cpp \/ ~IsAgg(t) \/ agg[t.id].ops

\* C++ cannot assign a volatile object whose class has no volatile operator=,
\* nor a struct inside a volatile union.
is_volatile_ok_on_one_level(t) ==
  ~opt.cpp \/ ~IsAgg(t) \/
  (agg[t.id].ops /\ (IsUnion(t) => \A f \in FieldsOf(t.id) : ~IsAgg(f.type)))

checkImplicitNontrivialAssignOps(fields) ==
  opt.cpp /\ \E f \in Range(fields) : IsAgg(f.type) /\ agg[f.type.id].nontrivial

(***************************************************************************)
(* Random qualifiers for a type, and for a field.                          *)
(***************************************************************************)
random_qualifiers(t, write, free, no_volatile) ==
  LET n == get_indirect_level(t) + 1
      ok(q) == \A i \in 1..n :
        /\ q[i].v => /\ opt.volatiles /\ ~no_volatile
                     /\ is_volatile_ok_on_one_level(Below(t, n - i))
                     /\ i = n => free
        /\ q[i].c => opt.consts /\ (i = n => ~write)
        /\ q[i].c /\ q[i].v => opt.allow_const_volatile
  IN  {make_scalar(opt, q) : q \in {r \in Vectors(n) : ok(r)}}

FieldFlags(t) ==
  {f \in Flags : /\ f.c => opt.const_fields
                 /\ f.v => opt.vol_fields /\ is_volatile_ok_on_one_level(t)
                 /\ f.c /\ f.v => opt.allow_const_volatile}

Field(t, f, len) == [type |-> t, c |-> f.c, v |-> f.v, len |-> len]

(***************************************************************************)
(* Making the structs and the unions.                                      *)
(***************************************************************************)
\* A slip: the first field may have length zero.
make_one_bitfield_AnyFirst(fields) ==
  LET no_zero_len == fields # <<>> /\ Last(fields).len = 0
      lengths == IF no_zero_len THEN BitLengths \ {0} ELSE BitLengths
  IN  UNION {{Field(eInt, f, len) : f \in FieldFlags(eInt)} : len \in lengths}

\* A bit-field of length zero never comes first, nor after another one.
make_one_bitfield(fields) ==
  LET no_zero_len == fields = <<>> \/ Last(fields).len = 0
      lengths == IF no_zero_len THEN BitLengths \ {0} ELSE BitLengths
  IN  UNION {{Field(eInt, f, len) : f \in FieldFlags(eInt)} : len \in lengths}

\* ChooseRandomTypeFilter for a field of a struct with, or without, operators.
FieldTypes(ops) ==
  SimpleTypes \cup
  {Agg(k) : k \in {i \in Ids : /\ agg[i].union \/ opt.return_structs
                               /\ ops => agg[i].ops
                               /\ get_struct_depth(i) < opt.max_nested_struct_level}}

make_one_struct_field(ops) ==
  UNION {{Field(t, f, -1) : f \in FieldFlags(t)} : t \in FieldTypes(ops)}

make_one_union_field ==
  LET types == SimpleTypes \cup
        {Agg(k) : k \in {i \in Ids : /\ ~contain_pointer_field(i)
                                     /\ ~has_bitfields(i)
                                     /\ ~agg[i].nontrivial
                                     /\ ~agg[i].union}}
  IN  UNION {{Field(t, f, -1) : f \in FieldFlags(t)} : t \in types}

StartAggregate(union) ==
  /\ cur = None /\ Len(agg) < opt.aggs
  /\ \E n \in (IF union THEN 1..opt.max_union_fields
               ELSE IF opt.fixed_struct_fields THEN {opt.max_struct_fields}
               ELSE 1..opt.max_struct_fields),
        ops \in IF opt.cpp THEN BOOLEAN ELSE {FALSE} :
       cur' = [n |-> n, ops |-> ops, union |-> union, fields |-> <<>>]
  /\ UNCHANGED <<opt, phase, agg, used, ptrs, vars, pend, job, flow, paper>>

StartStruct == phase = "structs" /\ opt.use_struct /\ StartAggregate(FALSE)
StartUnion == phase = "unions" /\ opt.use_union /\ StartAggregate(TRUE)

\* One turn of make_normal_struct_fields, of make_full_bitfields_struct_fields
\* or of make_random_union_type.
AddField ==
  /\ cur # None /\ Len(cur.fields) < cur.n
  /\ \E f \in (IF cur.union THEN make_one_union_field ELSE make_one_struct_field(cur.ops))
              \cup (IF opt.bitfields /\ (cur.union => ~opt.ccomp)
                      THEN make_one_bitfield(cur.fields) ELSE {}) :
       cur' = [cur EXCEPT !.fields = Append(@, f)]
  /\ UNCHANGED <<opt, phase, agg, used, ptrs, vars, pend, job, flow, paper>>

\* The end of make_random_struct_type and of make_random_union_type.
FinishAggregate ==
  /\ cur # None /\ Len(cur.fields) = cur.n
  /\ LET mayPack == /\ ~cur.union /\ opt.packed_struct
                    /\ opt.ccomp => \A f \in Range(cur.fields) :
                                      IsSimple(f.type) /\ f.type # eLongLong
     IN  \E packed \in (IF mayPack THEN BOOLEAN ELSE {FALSE}) :
           agg' = Append(agg, [union |-> cur.union, fields |-> cur.fields, packed |-> packed,
                               ops |-> cur.ops,
                               nontrivial |-> \/ cur.ops
                                              \/ checkImplicitNontrivialAssignOps(cur.fields)])
  /\ cur' = None
  /\ UNCHANGED <<opt, phase, used, ptrs, vars, pend, job, flow, paper>>

\* GenerateAllTypes leaves its first and then its second loop.
NextKind ==
  /\ cur = None /\ phase \in {"structs", "unions"}
  /\ phase' = IF phase = "structs" THEN "unions" ELSE "program"
  /\ UNCHANGED <<opt, agg, cur, used, ptrs, vars, pend, job, flow, paper>>

(***************************************************************************)
(* Choosing a type.  The choice marks an aggregate as used.                *)
(***************************************************************************)
choose_random ==
  SimpleTypes \cup {Agg(k) : k \in {i \in Ids : agg[i].union \/ opt.return_structs}}
choose_random_nonvoid == SimpleTypes \cup {Agg(k) : k \in Ids}
choose_random_nonvoid_nonvolatile ==
  SimpleTypes \cup
  {Agg(k) : k \in {i \in Ids : /\ ~is_volatile_struct_union(Agg(i))
                               /\ IF agg[i].union THEN opt.arg_unions ELSE opt.arg_structs}}

make_random_pointer_type ==
  {Ptr(t) : t \in {p \in ptrs : get_indirect_level(p) < opt.max_indirect_level}} \cup
  {Ptr(IF IsSimple(t) THEN eInt ELSE t) : t \in choose_random}

\* SelectLType for a simple assignment: a pointer, a struct or an integer.
SelectLType(no_volatile) ==
  {eInt} \cup make_random_pointer_type \cup
  {t \in {Agg(k) : k \in Ids} : /\ IsStruct(t) /\ ~is_const_struct_union(t)
                                /\ no_volatile => ~is_volatile_struct_union(t)}

MarkUsed(t) == used \cup (IF IsAgg(get_base_type(t)) THEN {get_base_type(t).id} ELSE {})
AddPointer(t) == ptrs \cup (IF IsPtr(t) THEN {t} ELSE {})

(***************************************************************************)
(* Selecting and declaring variables.                                      *)
(***************************************************************************)
\* Type::match, for the levels of indirection an expression may take.
MatchType(t, vt, mt) ==
  LET below == \E n \in 1..get_indirect_level(vt) : Below(vt, n) = t
      same == t = vt \/ (IsSimple(t) /\ IsSimple(vt))
  IN  CASE mt = "exact" -> t = vt
        [] mt = "dereference" -> below
        [] mt = "deref_exact" -> t = vt \/ below
        [] mt = "flexible" -> same \/ below \/ t = Ptr(vt)

\* A slip: the const of the pointer is asked for, not that of what it points to.
is_eligible_var_Const(v, deref, write, free) ==
  LET n == Len(v.q)
      top == v.q[n]
      at == IF deref < 0 THEN Plain ELSE v.q[n - deref]
      type == IF deref < 0 THEN eInt ELSE Below(v.type, deref)
  IN  /\ deref > 0 /\ ~at.v => ~is_volatile_struct_union(type)
      /\ (at.v \/ is_volatile_struct_union(type) \/ top.v \/ is_volatile_struct_union(v.type)) => free
      /\ write => ~top.c

is_eligible_var(v, deref, write, free) ==
  LET n == Len(v.q)
      top == v.q[n]
      at == IF deref < 0 THEN Plain ELSE v.q[n - deref]
      type == IF deref < 0 THEN eInt ELSE Below(v.type, deref)
  IN  /\ deref > 0 /\ ~at.v => ~is_volatile_struct_union(type)
      /\ (at.v \/ is_volatile_struct_union(type) \/ top.v \/ is_volatile_struct_union(v.type)) => free
      /\ write => ~at.c /\ ~is_const_struct_union(type)

Deref(v, t) == get_indirect_level(v.type) - get_indirect_level(t)

\* choose_var: the eligible ones, pointers to dereference first, then
\* variables whose address is taken.
choose_var(from, write, free, t, o, want, stricter, mt) ==
  LET okay == {v \in from : /\ MatchType(t, v.type, mt)
                            /\ match_indirect(o, want, stricter, v.q)
                            /\ is_eligible_var(v, Deref(v, t), write, free)}
      derefs == {v \in okay : Deref(v, t) > 0}
      addressed == {v \in okay : Deref(v, t) < 0}
  IN  IF Cardinality(okay) <= 1 THEN okay
      ELSE IF derefs # {} THEN derefs
      ELSE IF addressed # {} THEN addressed ELSE okay

Visible(glob) == {v \in vars : glob => v.glob}

\* GenerateNewGlobal and GenerateNewParentLocal up to the initialiser.
NewVariables(o, t, glob, write, free, given) ==
  LET asGlobal == glob \/ is_volatile_struct_union(t)
      quals == IF given = Wildcard THEN random_qualifiers(t, write, free, ~asGlobal) ELSE {given}
  IN  {[type |-> t, glob |-> asGlobal, write |-> write, free |-> free, exact |-> o.exact, done |-> FALSE,
        q |-> IF asGlobal THEN q ELSE restrict(q, write, free)] : q \in quals}

Declared(v) == [type |-> v.type, q |-> v.q, glob |-> v.glob]

\* The value of the declaration src, dereferenced deref times, becomes a value
\* of type t with qualifiers dst.
Flow(t, dst, src, deref, write, free) ==
  [type |-> t, dst |-> dst, src |-> indirect_qualifiers(src.q, deref), write |-> write,
   free |-> free, var |-> src.q, varType |-> src.type]

\* A variable is wanted for an expression: VariableSelector::select draws a
\* type and declares one.  Loop controls and assignments declare to write.
Declare ==
  /\ phase = "program" /\ pend = <<>> /\ job = None /\ Cardinality(vars) < opt.vars
  /\ \E free, write, glob \in BOOLEAN :
       /\ glob => opt.global_variables
       /\ \E t \in (IF write THEN SelectLType(~free)
                    ELSE make_random_pointer_type \cup
                         (IF free THEN choose_random_nonvoid ELSE choose_random_nonvoid_nonvolatile)) :
            /\ \E v \in NewVariables(opt, t, glob, write, free, Wildcard) : pend' = <<v>>
            /\ used' = MarkUsed(t)
            /\ ptrs' = AddPointer(t)
  /\ flow' = None
  /\ UNCHANGED <<opt, phase, agg, cur, vars, job, paper>>

\* make_init_value for the innermost declaration: a constant, or the address
\* of the variable InitNew declared for it, ...
InitDone ==
  /\ pend # <<>>
  /\ vars' = vars \cup {Declared(Last(pend))} /\ pend' = Front(pend)
  /\ flow' = None
  /\ UNCHANGED <<opt, phase, agg, cur, used, ptrs, job, paper>>

WithExact(exact) == [opt EXCEPT !.exact = exact]
Addressable(p) ==
  choose_var(Visible(p.glob), p.write, p.free, Below(p.type, 1), WithExact(p.exact), p.q, FALSE, "exact")

\* ... the address of a variable it can see, ...
InitAddress ==
  /\ pend # <<>> /\ ~Last(pend).done /\ IsPtr(Last(pend).type)
  /\ LET p == Last(pend)
     IN  \E v \in Addressable(p) :
           /\ flow' = Flow(p.type, p.q, v, -1, FALSE, p.free)
           /\ vars' = vars \cup {Declared(p)} /\ pend' = Front(pend)
  /\ UNCHANGED <<opt, phase, agg, cur, used, ptrs, job, paper>>

\* ... or, when there is none, that of a new variable with looser qualifiers.
InitNew ==
  /\ pend # <<>> /\ ~Last(pend).done /\ IsPtr(Last(pend).type)
  /\ Addressable(Last(pend)) = {}
  /\ LET p == Last(pend)
         t == Below(p.type, 1)
         o == WithExact(p.exact)
     IN  \E loose \in random_loose_qualifiers(o, p.q, opt.strict_volatile_rule /\ ~p.free,
                                              p.write, p.free) :
           LET q == Front(loose)
               local == ~opt.global_variables \/ (~p.glob /\ IsPtr(t) /\ ~Last(q).v)
           IN  \E v \in NewVariables(o, t, ~local, FALSE, p.free, q) :
                 /\ pend' = Front(pend) \o <<[p EXCEPT !.done = TRUE], v>>
                 /\ flow' = Flow(p.type, p.q, v, -1, FALSE, TRUE)
  /\ UNCHANGED <<opt, phase, agg, cur, used, ptrs, vars, job, paper>>

(***************************************************************************)
(* Assignments: the right-hand side first, then a left-hand side for its   *)
(* qualifiers.                                                             *)
(***************************************************************************)
Idle == phase = "program" /\ pend = <<>> /\ job = None

\* The assignments a value of qualifiers src leads to.  want: what
\* Lhs::make_random is asked for, never volatile for a compound assignment;
\* free: its context, spoilt when the value touches a volatile.
Jobs(t, want, src, stricter, exact, free) ==
  LET calm == set_top(want, "v", FALSE)
      wants == IF opt.strict_volatile_rule THEN {calm}
               ELSE IF IsSimple(t) THEN {want, calm} ELSE {want}
  IN  UNION {{[type |-> t, src |-> src, stricter |-> stricter, exact |-> exact, free |-> f,
               want |-> w] : w \in wants} : f \in {free, FALSE}}

\* StatementAssign::make_random without qualifiers: those of the value decide,
\* which is a constant, a variable or a call.
AssignStatement ==
  /\ Idle
  /\ \E free \in BOOLEAN : \E t \in SelectLType(~free) :
       /\ opt.strict_volatile_rule => ~is_volatile_struct_union(t)
       /\ used' = MarkUsed(t) /\ ptrs' = AddPointer(t)
       /\ \/ /\ ~IsAgg(t)
             /\ job' \in Jobs(t, Wildcard, Wildcard, TRUE, opt.exact, free) /\ flow' = None
          \/ \E glob \in BOOLEAN :
             \E v \in choose_var({w \in vars : w.glob = glob}, FALSE, free, t, opt,
                                 Wildcard, FALSE, "flexible") :
               LET q == indirect_qualifiers(v.q, Deref(v, t))
               IN  /\ job' \in Jobs(t, q, q, TRUE, opt.exact, free)
                   /\ flow' = Flow(t, q, v, Deref(v, t), FALSE, free)
          \/ \E q \in random_qualifiers(t, FALSE, free, TRUE) :
               job' \in Jobs(t, q, q, TRUE, opt.exact, free) /\ flow' = None
  /\ UNCHANGED <<opt, phase, agg, cur, vars, pend, paper>>

\* The right-hand side of an assignment made as an expression, for the qualifiers
\* qf: a variable, a constant or a call, or a new variable.
ExpressionValue(t, qf, free) ==
  \/ \E glob \in BOOLEAN :
     \E v \in choose_var({w \in vars : w.glob = glob}, FALSE, free, t, opt, qf, FALSE, "flexible") :
       /\ job' \in Jobs(t, qf, indirect_qualifiers(v.q, Deref(v, t)), FALSE, TRUE, free)
       /\ flow' = Flow(t, qf, v, Deref(v, t), FALSE, free) /\ pend' = pend
  \/ /\ \E q \in random_qualifiers_of(opt, qf, FALSE) : job' \in Jobs(t, qf, q, FALSE, TRUE, free)
     /\ flow' = None /\ pend' = pend
  \/ /\ Cardinality(vars) < opt.vars
     /\ \E glob \in BOOLEAN : \E v \in NewVariables(opt, t, glob, FALSE, free, qf) :
          pend' = <<v>> /\ job' \in Jobs(t, qf, v.q, FALSE, TRUE, free)
     /\ flow' = None

\* The qualifiers an assignment is made for: its own, drawn to write, or those of the
\* parameter it is an argument for.  GenerateParameterVariable draws these to read
\* and without volatile; they may be const.
AssignQualifiers(t, free) ==
  random_qualifiers(t, TRUE, free, TRUE) \cup
  (IF t \in ptrs \cup choose_random_nonvoid_nonvolatile
     THEN random_qualifiers(t, FALSE, TRUE, TRUE) ELSE {})

\* ExpressionAssign::make_random: the qualifiers come first, and both sides have
\* to fit them, the left one exactly.
AssignExpression ==
  /\ Idle
  /\ \E free \in BOOLEAN :
     \E t \in ptrs \cup (IF free THEN choose_random_nonvoid ELSE choose_random_nonvoid_nonvolatile) :
       /\ ~is_const_struct_union(t) /\ ~is_volatile_struct_union(t)
       /\ used' = MarkUsed(t)
       /\ \E qf \in AssignQualifiers(t, free) : ExpressionValue(t, qf, free)
  /\ UNCHANGED <<opt, phase, agg, cur, ptrs, vars, paper>>

\* The value of the job is written through v.
Written(v) ==
  [Flow(job.type, indirect_qualifiers(v.q, Deref(v, job.type)), v, 0, TRUE, job.free)
     EXCEPT !.src = job.src]

Dereferenceable ==
  choose_var({v \in vars : v.glob => ~Last(v.q).v}, TRUE, job.free, job.type,
             WithExact(job.exact), job.want, job.stricter, "dereference")

\* Lhs::make_random takes an existing variable: a pointer to dereference, or
\* what select finds for the restricted qualifiers.
LhsExisting ==
  /\ job # None /\ pend = <<>>
  /\ \E v \in Dereferenceable \cup UNION
       {choose_var({w \in vars : w.glob = glob}, TRUE, job.free, job.type, WithExact(job.exact),
                   restrict(job.want, TRUE, job.free), job.stricter, "deref_exact") : glob \in BOOLEAN} :
       flow' = Written(v)
  /\ job' = None
  /\ UNCHANGED <<opt, phase, agg, cur, used, ptrs, vars, pend, paper>>

\* select_deref_pointer declares a pointer to write through.
LhsNewPointer ==
  /\ job # None /\ pend = <<>> /\ Cardinality(vars) < opt.vars
  /\ Dereferenceable = {} /\ get_indirect_level(job.type) < opt.max_indirect_level
  /\ LET t == Ptr(job.type)
         o == WithExact(job.exact)
         quals == IF job.want = Wildcard \/ ~opt.global_variables
                    THEN random_qualifiers(t, TRUE, job.free, TRUE)
                    ELSE random_add_qualifiers(o, job.want, ~job.free)
     IN  /\ \E q \in quals :
              LET pq == [q EXCEPT ![Len(q) - 1].c = FALSE]
              IN  \E v \in NewVariables(o, t, Last(pq).v, TRUE, job.free, pq) :
                    /\ pend' = <<v>>
                    \* Lhs::visit_facts refuses to write what the pointer shows as volatile
                    /\ IF ~job.free /\ (Last(Front(v.q)).v \/ is_volatile_struct_union(job.type))
                         THEN job' = job /\ flow' = None
                         ELSE job' = None /\ flow' = Written(v)
         /\ ptrs' = AddPointer(t)
  /\ UNCHANGED <<opt, phase, agg, cur, used, vars, paper>>

\* select declares a variable for the restricted qualifiers.
LhsNewVariable ==
  /\ job # None /\ pend = <<>> /\ Cardinality(vars) < opt.vars
  /\ \E glob \in BOOLEAN :
     \E v \in NewVariables(WithExact(job.exact), job.type, glob, TRUE, job.free,
                           restrict(job.want, TRUE, job.free)) :
       /\ glob => opt.global_variables
       /\ pend' = <<v>> /\ flow' = Written(v)
  /\ job' = None
  /\ UNCHANGED <<opt, phase, agg, cur, used, ptrs, vars, paper>>

\* No variable can be added within the bound: the assignment is given up.
GiveUp ==
  /\ job # None /\ pend = <<>> /\ Cardinality(vars) >= opt.vars
  /\ job' = None /\ flow' = None
  /\ UNCHANGED <<opt, phase, agg, cur, used, ptrs, vars, pend, paper>>

(***************************************************************************)
(* Printing: the loop over all types, and under it one frame for every     *)
(* call of OutputStructUnion.                                              *)
(***************************************************************************)
Output ==
  /\ Idle
  /\ phase' = "printing" /\ flow' = None
  /\ UNCHANGED <<opt, agg, cur, used, ptrs, vars, pend, job, paper>>

\* A turn of OutputStructUnionDeclarations: the flag is reset, and a used
\* aggregate printed.
OutputStructUnionDeclarations ==
  /\ phase = "printing" /\ calls = <<>> /\ turn < Len(agg)
  /\ turn' = turn + 1
  /\ printed' = printed \ {turn + 1}
  /\ calls' = IF turn + 1 \in used THEN <<[id |-> turn + 1, at |-> 1]>> ELSE <<>>
  /\ UNCHANGED <<opt, phase, agg, cur, used, ptrs, vars, pend, job, flow, out>>

\* A slip: the aggregates inside one are left to the loop over all types.
CallFor_None(t) == <<>>

\* OutputStructUnion, called for a field, returns at once from what is printed.
CallFor(t) == IF IsAgg(t) /\ t.id \notin printed THEN <<[id |-> t.id, at |-> 1]>> ELSE <<>>

\* A turn of OutputStructUnion's loop, or its end, where it prints the aggregate.
OutputStructUnion ==
  /\ calls # <<>>
  /\ LET c == Last(calls)
         fields == agg[c.id].fields
     IN  \/ /\ c.at <= Len(fields)
            /\ calls' = Front(calls) \o <<[c EXCEPT !.at = @ + 1]>> \o CallFor(fields[c.at].type)
            /\ UNCHANGED <<printed, out>>
         \/ /\ c.at > Len(fields)
            /\ calls' = Front(calls)
            /\ printed' = printed \cup {c.id} /\ out' = Append(out, c.id)
  /\ UNCHANGED <<opt, phase, agg, cur, used, ptrs, vars, pend, job, flow, turn>>

EndOutput ==
  /\ phase = "printing" /\ calls = <<>> /\ turn = Len(agg)
  /\ phase' = "printed"
  /\ UNCHANGED <<opt, agg, cur, used, ptrs, vars, pend, job, flow, paper>>

Finished == phase = "printed" /\ UNCHANGED tvars

Init ==
  /\ opt \in Options
  /\ phase = "structs" /\ agg = <<>> /\ cur = None
  /\ used = {} /\ ptrs = {} /\ vars = {} /\ pend = <<>>
  /\ job = None /\ flow = None
  /\ turn = 0 /\ calls = <<>> /\ printed = {} /\ out = <<>>

Next ==
  \/ StartStruct \/ StartUnion \/ AddField \/ FinishAggregate \/ NextKind
  \/ Declare \/ InitDone \/ InitAddress \/ InitNew
  \/ AssignStatement \/ AssignExpression
  \/ LhsExisting \/ LhsNewPointer \/ LhsNewVariable \/ GiveUp
  \/ Output \/ OutputStructUnionDeclarations \/ OutputStructUnion \/ EndOutput \/ Finished

Spec == Init /\ [][Next]_tvars

(***************************************************************************)
(* Properties.                                                             *)
(***************************************************************************)
AllVars == vars \cup {Declared(p) : p \in Range(pend)}

\* Every declaration has one pair of flags per level of its type, and only
\* aggregates of the table are named: CVQualifiers::sanity_check.
TypeOK ==
  /\ phase \in {"structs", "unions", "program", "printing", "printed"}
  /\ used \subseteq Ids /\ Range(out) \subseteq Ids
  /\ \A k \in Ids : \A f \in FieldsOf(k) : IsAgg(f.type) => f.type.id < k
  /\ \A v \in AllVars : /\ Len(v.q) = get_indirect_level(v.type) + 1
                        /\ IsAgg(get_base_type(v.type)) => get_base_type(v.type).id \in Ids

\* make_one_union_field: nothing inside a union, at any depth, has a layout the
\* implementation chooses (bit-fields) or, in C++, an assignment that is not
\* trivial.  has_bitfields does not look into unions; that structs are made
\* before unions is what makes it enough.
UnionsPortable ==
  \A k \in Ids : agg[k].union =>
    \A j \in Nested(k) \ {k} : ~agg[j].nontrivial /\ \A f \in FieldsOf(j) : f.len < 0

\* make_one_bitfield: an aggregate begins with a named member, the one an
\* initialiser and a union's facts count from, and no two unnamed members
\* follow one another.
NamedMembers ==
  \A k \in Ids : LET fs == agg[k].fields
                 IN  (fs # <<>> => fs[1].len # 0) /\ \A i \in 2..Len(fs) : fs[i].len = 0 => fs[i-1].len # 0

\* is_volatile_ok_on_one_level and ChooseRandomTypeFilter: in C++ every object
\* declared volatile, or pointed to as volatile, can be assigned: its class
\* has the volatile operators, and so have the classes of its members.
VolatileAssignable ==
  opt.cpp => \A v \in AllVars : \A i \in 1..Len(v.q) :
    LET t == Below(v.type, Len(v.q) - i)
    IN  v.q[i].v /\ IsAgg(t) =>
          \A k \in Nested(t.id) : /\ agg[k].ops
                                  /\ agg[k].union => \A f \in FieldsOf(k) : ~IsAgg(f.type)

\* stricter_than: every initialiser and every assignment of a pointer converts
\* by C's rules, whichever of the variables was declared for the other.
FlowLegal ==
  flow # None => (IsPtr(flow.type) /\ flow.src # Wildcard => Converts(flow.dst, flow.src))

\* stricter_than's rule for the storage: a pointer shows the variable at the end
\* of its chain as volatile exactly when it is, which the checks of accesses
\* through pointers (CGContext::read_pointed, write_pointed) rely on.
StorageAgrees ==
  flow # None => (IsPtr(flow.type) /\ flow.src # Wildcard => flow.dst[1].v = flow.src[1].v)

\* Lhs::make_random asserts it: nothing const is written, neither a level of
\* indirection nor an aggregate with a const member at any depth.
NoConstWrite ==
  flow # None => (flow.write => ~Last(flow.dst).c /\ ~is_const_struct_union(flow.type))

\* VariableSelector::select asserts it: in a context that has touched a volatile
\* no variable declared volatile is selected or declared, and none is written
\* through a pointer.  (Structs with a volatile member are not covered: one
\* chosen for an assignment before its value touched a volatile is declared
\* all the same.)
VolatileOnlyWhenFree ==
  flow # None => (~flow.free => ~Last(flow.var).v /\ (flow.write => ~Last(flow.dst).v))

\* OutputStructUnionDeclarations: an aggregate is printed once, after those
\* inside it, and every declaration's aggregate is printed.
DeclaredBeforeUse ==
  phase = "printed" =>
    /\ \A i \in 1..Len(out) : \A j \in Nested(out[i]) \ {out[i]} : \E h \in 1..(i - 1) : out[h] = j
    /\ \A i, j \in 1..Len(out) : out[i] = out[j] => i = j
    /\ \A v \in vars : IsAgg(get_base_type(v.type)) => get_base_type(v.type).id \in Range(out)

\* The aggregates can be declared and copied: no layout of the implementation's choice
\* inside a union, a named member first, volatile operators where an object needs them.
AggregatesFit == TypeOK /\ UnionsPortable /\ NamedMembers /\ VolatileAssignable

\* The options under which what a pointer shows keeps its qualifiers: with the strict
\* rule for volatiles an initialiser may drop every volatile of its pointer, and
\* without global variables the pointer made for an assignment has random ones.
KeepsQualifiers == opt.global_variables /\ ~opt.strict_volatile_rule

\* Every conversion between declarations is one of C's, and keeps the storage's
\* volatility visible.
ConversionsLegal == KeepsQualifiers => FlowLegal /\ StorageAgrees

\* Nothing const is written, nothing volatile touched where the context forbids it.
AccessesAllowed == NoConstWrite /\ VolatileOnlyWhenFree

===============================================================================
