------------------------------- MODULE Facts -------------------------------
(***************************************************************************)
(* The facts of the data-flow analysis (Fact.cpp, FactPointTo.cpp,         *)
(* FactUnion.cpp) and the operations of FactMgr.cpp on sets of facts.  A   *)
(* FactVec is a function: for a pointer it gives the set of variables it   *)
(* may point to, for a union the field that was written last, or BOTTOM.   *)
(* Memory, and what an assignment does to it, is what the facts are about. *)
(***************************************************************************)
EXTENDS Integers, FiniteSets

CONSTANTS
    Vars,       \* the variables of a function and the globals it uses
    Level       \* how often a variable can be dereferenced; -1 for a union

null_ptr == "null"
garbage_ptr == "garbage"
SpecialPtrs == {null_ptr, garbage_ptr}
BOTTOM == -1

ASSUME FactsAssumption ==
    /\ IsFiniteSet(Vars)
    /\ Level \in [Vars -> -1..2]
    /\ SpecialPtrs \cap Vars = {}

Pointers == {v \in Vars : Level[v] > 0}
Unions == {v \in Vars : Level[v] = -1}

\* A use of a variable: dereferenced ind times, or its address (ind = -1).
Uses == {u \in [var: Vars \cup {null_ptr}, ind: -1..2] :
            u.var = null_ptr => u.ind = -1}
UseLevel(u) == IF u.var = null_ptr THEN 1 ELSE Level[u.var] - u.ind

EmptyFacts == [v \in {} |-> {}]

-----------------------------------------------------------------------------
\* The lattice.

\* FactPointTo::join, FactUnion::join
join(v, a, b) ==
    IF v \in Unions THEN (IF a = b THEN a ELSE BOTTOM) ELSE a \cup b

\* FactPointTo::imply, FactUnion::imply: a covers b.
imply(v, a, b) ==
    IF v \in Unions THEN a = BOTTOM \/ a = b ELSE b \subseteq a

merge_fact(facts, v, a) ==
    [u \in DOMAIN facts \cup {v} |->
        IF u # v THEN facts[u]
        ELSE IF v \in DOMAIN facts THEN join(v, facts[v], a) ELSE a]

renew_fact(facts, v, a) ==
    [u \in DOMAIN facts \cup {v} |-> IF u = v THEN a ELSE facts[u]]

merge_facts(facts, more) ==
    [u \in DOMAIN facts \cup DOMAIN more |->
        IF u \notin DOMAIN more THEN facts[u]
        ELSE IF u \notin DOMAIN facts THEN more[u]
        ELSE join(u, facts[u], more[u])]

\* The worst that may be said of a variable.
Unknown(v) == IF v \in Unions THEN BOTTOM ELSE {garbage_ptr}

\* FactMgr::merge_jump_facts: what the jump does not know is unknown.
merge_jump_facts(facts, jump) ==
    [u \in DOMAIN facts |->
        join(u, facts[u], IF u \in DOMAIN jump THEN jump[u] ELSE Unknown(u))]

subset_facts(f1, f2) ==
    DOMAIN f1 = DOMAIN f2 /\ \A v \in DOMAIN f1 : imply(v, f2[v], f1[v])

\* FactMgr::makeup_new_var_facts, add_new_var_fact
makeup_new_var_facts(old, vs, init) ==
    [u \in DOMAIN old \cup vs |-> IF u \in DOMAIN old THEN old[u] ELSE init[u]]

\* Mutant of mark_dead_var: the dead variable is only forgotten.
mark_dead_var_Forget(a, dead) == a \ dead

\* FactPointTo::mark_dead_var, mark_func_end
mark_dead_var(a, dead) ==
    IF a \cap dead = {} THEN a ELSE (a \ dead) \cup {garbage_ptr}

\* FactMgr::update_facts_for_oos_vars: the variables leave their scope.
update_facts_for_oos_vars(dead, facts) ==
    [u \in DOMAIN facts \ dead |->
        IF u \in Unions THEN facts[u] ELSE mark_dead_var(facts[u], dead)]

-----------------------------------------------------------------------------
\* Dereferencing.

merge_pointees_of_pointers(ptrs, facts) ==
    UNION {facts[p] : p \in (ptrs \ SpecialPtrs) \cap DOMAIN facts}

merge_pointees_of_pointer(v, n, facts) ==
    LET one == merge_pointees_of_pointers({v}, facts)
        two == merge_pointees_of_pointers(one, facts)
    IN  CASE n = 0 -> {v}
          [] n = 1 -> one
          [] n = 2 -> two
          [] OTHER -> merge_pointees_of_pointers(two, facts)

is_valid_ptr(v, facts) ==
    v \in DOMAIN facts /\ facts[v] \cap SpecialPtrs = {}

is_dangling_ptr(v, facts) == v \in DOMAIN facts /\ garbage_ptr \in facts[v]

\* CGContext::check_read_var, as far as facts go.
check_read_var(v, facts) == ~(v \in Pointers /\ is_dangling_ptr(v, facts))

\* CGContext::read_pointed and write_pointed; the variable written last is
\* not read.
CanFollow(v, n, facts, writes) ==
    \A k \in 1..n :
        LET vs == merge_pointees_of_pointer(v, k, facts)
        IN  /\ vs # {} /\ vs \cap SpecialPtrs = {}
            /\ (k < n \/ ~writes) => \A w \in vs : check_read_var(w, facts)

\* ExpressionVariable::visit_facts (with opportunistic_validate)
RhsOk(u, facts) ==
    \/ u.ind = -1
    \/ /\ u.ind > 0 => is_valid_ptr(u.var, facts)
       /\ check_read_var(u.var, facts)
       /\ CanFollow(u.var, u.ind, facts, FALSE)

\* Lhs::visit_facts
LhsOk(u, facts) ==
    \/ u.ind = 0
    \/ /\ is_valid_ptr(u.var, facts)
       /\ check_read_var(u.var, facts)
       /\ CanFollow(u.var, u.ind, facts, TRUE)

\* FactPointTo::rhs_to_lhs_transfer
rhs_to_lhs_transfer(u, facts) ==
    IF u.ind = -1 THEN {u.var}
    ELSE merge_pointees_of_pointer(u.var, u.ind + 1, facts)

\* FactMgr::update_fact_for_assign, FactPointTo::abstract_fact_for_assign: a
\* certain target is overwritten, an uncertain one may keep its value.
update_fact_for_assign(facts, lhs, rhs) ==
    LET lvars == merge_pointees_of_pointer(lhs.var, lhs.ind, facts)
        a == rhs_to_lhs_transfer(rhs, facts)
    IN  IF UseLevel(lhs) = 0 THEN facts
        ELSE [u \in DOMAIN facts \cup (lvars \ SpecialPtrs) |->
                 IF u \notin lvars THEN facts[u]
                 ELSE IF Cardinality(lvars) = 1 \/ u \notin DOMAIN facts THEN a
                 ELSE join(u, facts[u], a)]

\* FactUnion::abstract_fact_for_assign, for a field of a union variable.
update_fact_for_field(facts, v, fid) == renew_fact(facts, v, fid)

\* FactUnion::is_nonreadable_field
is_nonreadable_field(v, fid, facts) == v \notin DOMAIN facts \/ facts[v] # fid

-----------------------------------------------------------------------------
\* What the facts are about: memory gives each pointer its target and each
\* union the field written last.

\* The variable that a use names.
Target(mem, u) ==
    CASE u.ind = 0 -> u.var
      [] u.ind = 1 -> mem[u.var]
      [] OTHER -> mem[mem[u.var]]

\* Following the pointers of a use meets no null and no dead pointer.
Defined(mem, u) ==
    /\ u.ind >= 1 => mem[u.var] \notin SpecialPtrs
    /\ u.ind = 2 => mem[mem[u.var]] \notin SpecialPtrs

\* The value of a use of pointer type.
Value(mem, u) == IF u.ind = -1 THEN u.var ELSE mem[Target(mem, u)]

\* An assignment of a pointer.
Store(mem, lhs, rhs) == [mem EXCEPT ![Target(mem, lhs)] = Value(mem, rhs)]

\* The variables die: pointers to them dangle.
Kill(mem, dead) ==
    [v \in DOMAIN mem |->
        IF v \in Unions THEN IF v \in dead THEN BOTTOM ELSE mem[v]
        ELSE IF v \in dead \/ mem[v] \in dead THEN garbage_ptr ELSE mem[v]]

\* What a pointer may hold: the address of a variable one level below, or none.
PointsTo(p) == {w \in Vars : Level[w] = Level[p] - 1} \cup SpecialPtrs

MemFit(mem) ==
    DOMAIN mem = Pointers \cup Unions /\ \A p \in Pointers : mem[p] \in PointsTo(p)

\* Facts are kept for pointers and unions; those of a pointer are never empty (the
\* class invariant of FactPointTo) and lead to pointers that have facts, too.
FactsFit(facts) ==
    /\ DOMAIN facts \subseteq Pointers \cup Unions
    /\ \A p \in DOMAIN facts \cap Pointers :
          /\ facts[p] # {} /\ facts[p] \subseteq PointsTo(p)
          /\ facts[p] \cap Pointers \subseteq DOMAIN facts

\* The variable of a use has facts, if it is a pointer: it is in scope.
Knows(facts, u) == u.var \in Pointers => u.var \in DOMAIN facts

\* Facts describe memory.
Describes(facts, mem) ==
    \A v \in DOMAIN facts :
        IF v \in Unions THEN facts[v] \in {BOTTOM, mem[v]} ELSE mem[v] \in facts[v]
=============================================================================
