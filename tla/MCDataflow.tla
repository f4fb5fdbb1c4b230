----------------------------- MODULE MCDataflow -----------------------------
(* Two pointers, a target and a local of an inner block for Dataflow. *)
EXTENDS Dataflow

Var(v) == [var |-> v, ind |-> 0]
Deref(v) == [var |-> v, ind |-> 1]
Addr(v) == [var |-> v, ind |-> -1]
Set(l, r) == [lhs |-> l, rhs |-> r]

MCVars == {"p", "q", "x", "l", "u"}
MCLevel == [v \in MCVars |-> CASE v \in {"p", "q"} -> 1 [] v = "u" -> -1 [] OTHER -> 0]
MCLocals == {"l"}
MCGlobalInit == [p |-> {"x"}, q |-> {null_ptr}, u |-> 0]
MCAssigns == {Set(Deref("p"), Var("x")), Set(Var("p"), Var("q")), Set(Var("q"), Addr("l"))}
MCFieldUses == {[var |-> "u", fid |-> 0, write |-> FALSE], [var |-> "u", fid |-> 1, write |-> TRUE]}
MCEntries == {[p |-> {"x"}, q |-> {"x"}, u |-> 1]}

InnerVars == {"p", "q", "x"}
InnerLevel == [v \in InnerVars |-> IF v = "x" THEN 0 ELSE 1]
InnerInit == [p |-> {"x"}, q |-> {"x"}]
InnerAssigns == {Set(Deref("p"), Var("x")), Set(Var("p"), Var("q")), Set(Var("q"), Addr(null_ptr))}
=============================================================================
