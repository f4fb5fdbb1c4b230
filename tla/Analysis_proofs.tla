--------------------------- MODULE Analysis_proofs ---------------------------
(***************************************************************************)
(* Proofs about what the generator knows of the accesses of the code it    *)
(* makes: the effects of expressions (EffectContext) and the facts about   *)
(* pointers and unions (Facts).                                            *)
(*                                                                         *)
(* The effects, for every set of variables, every depth and every number   *)
(* of operators, whatever HIP expressions are on: without managed          *)
(* variables csmith's operators keep their operands apart.  The inductive  *)
(* invariant says, frame by frame, what the running context and the        *)
(* accumulator cover, and how a frame's context and accumulator relate to  *)
(* those of the frame below, whose next operand it becomes.                *)
(*                                                                         *)
(* The facts, for every set of variables, all facts and every memory: what *)
(* describes memory before a merge, a change of scope, an assignment or an *)
(* access describes it afterwards.                                         *)
(***************************************************************************)
EXTENDS EffectContext, Facts, SequenceTheorems, FiniteSetTheorems, TLAPS

-----------------------------------------------------------------------------
(* The effects of expressions.                                             *)

\* No __managed__ variables (Effect::add_external_effect does not know them as globals).
NoManaged == Managed = {}

\* Effect e records at least what f does.
Covers(e, f) ==
    /\ f.read \subseteq e.read
    /\ f.write \subseteq e.write
    /\ f.lhs_write \subseteq e.lhs_write

\* Nothing that a accesses is forbidden in context ctx.
Allowed(ctx, a) ==
    /\ a.r \cap ctx.write = {}
    /\ (a.w \cup a.at) \cap (ctx.read \cup ctx.write) = {}

\* The running context of operators that keep all their operands apart.
Accumulates(op) == op \in {"binary", "new", "old", "compound"}

OutsOK(fr) ==
    \A k \in 1..Len(fr.outs) :
        /\ fr.outs[k].dw \subseteq fr.outs[k].w
        /\ fr.outs[k].r \subseteq fr.accum.read
        /\ fr.outs[k].w \subseteq fr.accum.write
        /\ fr.op \notin Calls => fr.outs[k].dw \subseteq fr.accum.lhs_write
        /\ Allowed(fr.ctx, fr.outs[k])

RunOK(fr) ==
    /\ fr.ctx.read \subseteq fr.run.read /\ fr.ctx.write \subseteq fr.run.write
    /\ \A k \in 1..Len(fr.outs) :
          /\ Accumulates(fr.op) => /\ fr.outs[k].r \subseteq fr.run.read
                                   /\ fr.outs[k].w \subseteq fr.run.write
          /\ fr.op \in Assigns => fr.outs[k].dw \subseteq fr.run.write

ApartOK(fr) ==
    Len(fr.outs) = 2 =>
        /\ fr.op \in {"binary"} \cup Calls => ~Interfere(fr.outs[1], fr.outs[2])
        /\ fr.op \in Assigns => StoresApart(fr.outs[1], fr.outs[2])

FrameOK(fr) ==
    /\ fr \in Frame
    /\ fr.op = "atomic" => fr.target \cap (fr.ctx.read \cup fr.ctx.write) = {}
    /\ Len(fr.outs) <= Arity(fr.op)
    /\ OutsOK(fr) /\ RunOK(fr) /\ ApartOK(fr)
    /\ fr.op \in Assigns /\ Len(fr.outs) = 1 => fr.outs[1].w \subseteq fr.kept.write

\* Frame nx generates the next operand of fr.
LinkOK(fr, nx) ==
    /\ Len(fr.outs) < Arity(fr.op)
    /\ fr.op \in Assigns => fr.outs = << >>
    /\ nx.op # "stm"
    /\ nx.ctx.read = OperandContext(fr).read /\ nx.ctx.write = OperandContext(fr).write
    /\ Covers(nx.accum, OperandAccum(fr))
    /\ nx.op \in Calls => Covers(nx.kept, OperandAccum(fr))

CalleeOK ==
    /\ callee \in Functions
    /\ callee.known =>
          /\ callee.body \in Named
          /\ callee.body.r \subseteq callee.feffect.read
          /\ callee.body.w \subseteq callee.feffect.write

CallFrameOK(fr) ==
    /\ fr.op = "new" => ~callee.known
    /\ fr.op = "old" => /\ callee.known
                        /\ ~callee.ptr => Allowed(fr.ctx, callee.body)

StackOK(fs) ==
    /\ fs \in Seq(Frame)
    /\ fs # << >> => fs[1].op = "stm"
    /\ \A i \in 1..Len(fs) : FrameOK(fs[i])
    /\ \A i \in 1..Len(fs) - 1 : LinkOK(fs[i], fs[i + 1])

CallsOK(fs) ==
    /\ \A i \in 1..Len(fs) : CallFrameOK(fs[i])
    /\ \A i, j \in 1..Len(fs) : fs[i].op = "new" /\ fs[j].op = "new" => i = j

IInv == StackOK(stack) /\ CallsOK(stack) /\ CalleeOK

\* What the accumulator and the access of a new operand of fr must satisfy.
OperandOK(fr, a, out) ==
    /\ a \in Effect /\ out \in Access
    /\ Covers(a, OperandAccum(fr))
    /\ out.dw \subseteq out.w
    /\ out.r \subseteq a.read /\ out.w \subseteq a.write /\ out.dw \subseteq a.lhs_write
    /\ Allowed(OperandContext(fr), out)

\* WithOperand's new top frame.
Extended(fr, a, out) ==
    [fr EXCEPT !.outs = Append(@, out), !.run = NextRun(fr, a),
               !.accum = Merged(fr, a),
               !.kept = IF fr.op \in Assigns THEN Copied(a) ELSE @]

-----------------------------------------------------------------------------
(* The running context and the accumulator after an operand.               *)

LEMMA ContextTypes ==
    ASSUME NEW fr \in Frame
    PROVE  OperandContext(fr) \in Effect /\ OperandAccum(fr) \in Effect
BY DEF Frame, Effect, OperandContext, OperandAccum, NoEffect

\* NextRun keeps the running context, adds all of the operand's effect for the
\* operators that keep operands apart, and its assignments for an assignment.
LEMMA NextRunCovers ==
    ASSUME NEW fr \in Frame, NEW a \in Effect
    PROVE  /\ NextRun(fr, a) \in Effect
           /\ fr.run.read \subseteq NextRun(fr, a).read
           /\ fr.run.write \subseteq NextRun(fr, a).write
           /\ Accumulates(fr.op) => /\ a.read \subseteq NextRun(fr, a).read
                                    /\ a.write \subseteq NextRun(fr, a).write
           /\ fr.op \in Assigns => a.lhs_write \subseteq NextRun(fr, a).write
<1>0. fr.run \in Effect BY DEF Frame
<1>1. CASE fr.op \in {"binary", "new", "old"}
    <2>1. NextRun(fr, a) = [AddEffect(fr.run, a, TRUE) EXCEPT !.write = @ \cup {}]
        BY <1>1 DEF NextRun
    <2> QED BY <1>0, <1>1, <2>1 DEF AddEffect, Effect, Accumulates, Assigns
<1>2. CASE fr.op = "compound"
    <2>1. NextRun(fr, a) = [AddEffect(fr.run, a, TRUE) EXCEPT !.write = @ \cup a.lhs_write]
        BY <1>2 DEF NextRun
    <2> QED BY <1>0, <1>2, <2>1 DEF AddEffect, Effect, Accumulates, Assigns
<1>3. CASE fr.op = "assign"
    <2>1. NextRun(fr, a) = [fr.run EXCEPT !.write = @ \cup a.lhs_write]
        BY <1>3 DEF NextRun
    <2> QED BY <1>0, <1>3, <2>1 DEF Effect, Accumulates, Assigns
<1>4. CASE fr.op \notin {"binary", "new", "old", "compound", "assign"}
    <2>1. NextRun(fr, a) = fr.run
        BY <1>4 DEF NextRun
    <2> QED BY <1>0, <1>4, <2>1 DEF Effect, Accumulates, Assigns
<1> QED BY <1>1, <1>2, <1>3, <1>4

\* Merged loses nothing and has the operand's effect.
LEMMA MergedCovers ==
    ASSUME NEW fr \in Frame, NEW a \in Effect, Covers(a, OperandAccum(fr))
    PROVE  /\ Merged(fr, a) \in Effect
           /\ Covers(Merged(fr, a), fr.accum)
           /\ a.read \subseteq Merged(fr, a).read
           /\ a.write \subseteq Merged(fr, a).write
           /\ fr.op \notin Calls => a.lhs_write \subseteq Merged(fr, a).lhs_write
<1>0. fr.accum \in Effect BY DEF Frame
<1>1. CASE Shared(fr)
    BY <1>0, <1>1 DEF Merged, OperandAccum, Covers
<1>2. CASE ~Shared(fr)
    BY <1>0, <1>2 DEF Merged, AddEffect, Covers, Effect
<1> QED BY <1>1, <1>2

-----------------------------------------------------------------------------
(* A frame stays in order when it gets an operand.                         *)

\* The fields of the extended frame.
LEMMA ExtendedFields ==
    ASSUME NEW fr \in Frame, NEW a \in Effect, NEW out \in Access,
           Covers(a, OperandAccum(fr))
    PROVE  LET n == Extended(fr, a, out) IN
           /\ n \in Frame /\ n.op = fr.op /\ n.ctx = fr.ctx /\ n.target = fr.target
           /\ n.run = NextRun(fr, a) /\ n.accum = Merged(fr, a)
           /\ n.outs = Append(fr.outs, out)
           /\ n.outs \in Seq(Access) /\ Len(n.outs) = Len(fr.outs) + 1
           /\ n.outs[Len(fr.outs) + 1] = out
           /\ \A k \in 1..Len(fr.outs) : n.outs[k] = fr.outs[k]
           /\ fr.op \in Assigns => n.kept.write = a.write
<1>1. fr.outs \in Seq(Access) /\ fr.kept \in Effect BY DEF Frame
<1>2. NextRun(fr, a) \in Effect BY NextRunCovers
<1>3. Merged(fr, a) \in Effect BY MergedCovers
<1>4. Copied(a) \in Effect /\ Copied(a).write = a.write BY DEF Copied, Effect
<1>5. Append(fr.outs, out) \in Seq(Access) BY <1>1
<1>6. Extended(fr, a, out) \in Frame
    BY <1>1, <1>2, <1>3, <1>4, <1>5 DEF Extended, Frame
<1>7. Extended(fr, a, out).outs = Append(fr.outs, out)
    BY DEF Extended, Frame
<1>8. /\ Extended(fr, a, out).op = fr.op
      /\ Extended(fr, a, out).ctx = fr.ctx
      /\ Extended(fr, a, out).target = fr.target
      /\ Extended(fr, a, out).run = NextRun(fr, a)
      /\ Extended(fr, a, out).accum = Merged(fr, a)
      /\ fr.op \in Assigns => Extended(fr, a, out).kept = Copied(a)
    BY DEF Extended, Frame
<1> QED BY <1>1, <1>4, <1>5, <1>6, <1>7, <1>8

\* Whatever the operator, an allowed operand keeps what does not relate two operands.
LEMMA ExtendOutsRun ==
    ASSUME NEW fr, NEW a, NEW out, FrameOK(fr), OperandOK(fr, a, out)
    PROVE  OutsOK(Extended(fr, a, out)) /\ RunOK(Extended(fr, a, out))
<1> DEFINE n == Extended(fr, a, out)
           K == Len(fr.outs)
<1>0. /\ fr \in Frame /\ a \in Effect /\ out \in Access
      /\ Covers(a, OperandAccum(fr)) /\ OutsOK(fr) /\ RunOK(fr)
    BY DEF FrameOK, OperandOK
<1>1. /\ n \in Frame /\ n.op = fr.op /\ n.ctx = fr.ctx
      /\ n.run = NextRun(fr, a) /\ n.accum = Merged(fr, a)
      /\ n.outs \in Seq(Access) /\ Len(n.outs) = K + 1 /\ n.outs[K + 1] = out
      /\ \A k \in 1..K : n.outs[k] = fr.outs[k]
    BY <1>0, ExtendedFields
<1>2. K \in Nat BY <1>0 DEF Frame
<1>3. /\ Covers(n.accum, fr.accum)
      /\ a.read \subseteq n.accum.read /\ a.write \subseteq n.accum.write
      /\ fr.op \notin Calls => a.lhs_write \subseteq n.accum.lhs_write
    BY <1>0, <1>1, MergedCovers
<1>4. /\ fr.run.read \subseteq n.run.read /\ fr.run.write \subseteq n.run.write
      /\ Accumulates(fr.op) => a.read \subseteq n.run.read /\ a.write \subseteq n.run.write
      /\ fr.op \in Assigns => a.lhs_write \subseteq n.run.write
    BY <1>0, <1>1, NextRunCovers
<1>5. Allowed(fr.ctx, out)
    <2>1. Allowed(OperandContext(fr), out) BY DEF OperandOK
    <2>2. /\ fr.ctx.read \subseteq OperandContext(fr).read
          /\ fr.ctx.write \subseteq OperandContext(fr).write
        BY <1>0 DEF RunOK, OperandContext
    <2> QED BY <2>1, <2>2 DEF Allowed
<1>6. /\ out.dw \subseteq out.w /\ out.r \subseteq a.read /\ out.w \subseteq a.write
      /\ out.dw \subseteq a.lhs_write
    BY DEF OperandOK
<1> HIDE DEF n, K
<1>7. \A k \in 1..Len(n.outs) : k \in 1..K \/ k = K + 1
    BY <1>1, <1>2
<1>8. OutsOK(n)
    <2>1. SUFFICES ASSUME NEW k \in 1..Len(n.outs)
                   PROVE  /\ n.outs[k].dw \subseteq n.outs[k].w
                          /\ n.outs[k].r \subseteq n.accum.read
                          /\ n.outs[k].w \subseteq n.accum.write
                          /\ n.op \notin Calls => n.outs[k].dw \subseteq n.accum.lhs_write
                          /\ Allowed(n.ctx, n.outs[k])
        BY DEF OutsOK
    <2>2. CASE k = K + 1
        BY <1>1, <1>3, <1>5, <1>6, <2>2
    <2>3. CASE k \in 1..K
        <3>1. /\ n.outs[k] = fr.outs[k]
              /\ fr.outs[k].dw \subseteq fr.outs[k].w
              /\ fr.outs[k].r \subseteq fr.accum.read
              /\ fr.outs[k].w \subseteq fr.accum.write
              /\ fr.op \notin Calls => fr.outs[k].dw \subseteq fr.accum.lhs_write
              /\ Allowed(fr.ctx, fr.outs[k])
            BY <1>0, <1>1, <2>3 DEF OutsOK, K
        <3> QED BY <1>1, <1>3, <3>1 DEF Covers
    <2> QED BY <1>7, <2>2, <2>3
<1>9. RunOK(n)
    <2>1. n.ctx.read \subseteq n.run.read /\ n.ctx.write \subseteq n.run.write
        BY <1>0, <1>1, <1>4 DEF RunOK
    <2>2. ASSUME NEW k \in 1..Len(n.outs)
          PROVE  /\ Accumulates(n.op) => /\ n.outs[k].r \subseteq n.run.read
                                         /\ n.outs[k].w \subseteq n.run.write
                 /\ n.op \in Assigns => n.outs[k].dw \subseteq n.run.write
        <3>1. CASE k = K + 1
            BY <1>1, <1>4, <1>6, <3>1
        <3>2. CASE k \in 1..K
            <4>1. /\ n.outs[k] = fr.outs[k]
                  /\ Accumulates(fr.op) => /\ fr.outs[k].r \subseteq fr.run.read
                                           /\ fr.outs[k].w \subseteq fr.run.write
                  /\ fr.op \in Assigns => fr.outs[k].dw \subseteq fr.run.write
                BY <1>0, <1>1, <3>2 DEF RunOK, K
            <4> QED BY <1>1, <1>4, <4>1
        <3> QED BY <1>7, <2>2, <3>1, <3>2
    <2> QED BY <2>1, <2>2 DEF RunOK
<1> QED BY <1>8, <1>9 DEF n

\* An expression generated in the operand's context.
LEMMA ExtendFrame ==
    ASSUME NEW fr, NEW a, NEW out, FrameOK(fr), OperandOK(fr, a, out),
           Len(fr.outs) < Arity(fr.op), ~(fr.op \in Assigns /\ fr.outs # << >>)
    PROVE  FrameOK(Extended(fr, a, out))
<1> DEFINE n == Extended(fr, a, out)
           K == Len(fr.outs)
<1>0. /\ fr \in Frame /\ a \in Effect /\ out \in Access
      /\ Covers(a, OperandAccum(fr)) /\ RunOK(fr)
    BY DEF FrameOK, OperandOK
<1>1. /\ n \in Frame /\ n.op = fr.op
      /\ n.outs \in Seq(Access) /\ Len(n.outs) = K + 1 /\ n.outs[K + 1] = out
      /\ \A k \in 1..K : n.outs[k] = fr.outs[k]
      /\ fr.op \in Assigns => n.kept.write = a.write
      /\ n.ctx = fr.ctx /\ n.target = fr.target
    BY <1>0, ExtendedFields
<1>2. K \in Nat /\ fr.outs \in Seq(Access) /\ Arity(fr.op) \in {1, 2} BY <1>0 DEF Frame, Arity
<1>3. OutsOK(n) /\ RunOK(n) BY ExtendOutsRun
<1>4. Len(n.outs) <= Arity(n.op) BY <1>1, <1>2
<1>5. fr.op \in Assigns => K = 0 BY <1>2
<1>6. n.op \in Assigns /\ Len(n.outs) = 1 => n.outs[1].w \subseteq n.kept.write
    BY <1>1, <1>5 DEF OperandOK
<1>7. ApartOK(n)
    <2>1. SUFFICES ASSUME Len(n.outs) = 2
                   PROVE  n.op \in {"binary"} \cup Calls => ~Interfere(n.outs[1], n.outs[2])
        BY <1>1, <1>2, <1>5 DEF ApartOK
    <2>2. SUFFICES ASSUME n.op \in {"binary"} \cup Calls PROVE ~Interfere(n.outs[1], n.outs[2])
        OBVIOUS
    <2>9. K = 1
        <3> HIDE DEF n, K
        <3>1. Len(n.outs) = 2 BY <2>1
        <3>2. Len(n.outs) = K + 1 BY <1>1
        <3> QED BY SMTT(30), <1>2, <3>1, <3>2
    <2> HIDE DEF n, K
    <2>3. n.outs[2] = out /\ n.outs[1] = fr.outs[1] BY <1>1, <2>9
    <2>4. fr.op \in {"binary", "new", "old"} BY <1>0, <1>1, <2>2 DEF Calls
    <2>5. OperandContext(fr) = fr.run BY <2>4 DEF OperandContext, Shared
    <2>6. fr.outs[1].r \subseteq fr.run.read /\ fr.outs[1].w \subseteq fr.run.write
        BY <1>0, <2>9, <2>4 DEF RunOK, Accumulates, K
    <2>7. Allowed(fr.run, out) BY <2>5 DEF OperandOK
    <2> QED BY <2>3, <2>6, <2>7 DEF Allowed, Interfere
<1>8. n.op = "atomic" => n.target \cap (n.ctx.read \cup n.ctx.write) = {}
    BY <1>1 DEF FrameOK
<1> QED BY <1>0, <1>1, <1>3, <1>4, <1>6, <1>7, <1>8 DEF FrameOK

LEMMA SecondElement ==
    ASSUME NEW S, NEW s \in Seq(S), NEW e \in S, Len(s) = 1
    PROVE  Len(Append(s, e)) = 2 /\ Append(s, e)[2] = e /\ Append(s, e)[1] = s[1]
BY SMTT(30)

\* The left side of an assignment: it goes through pointers that the right side does
\* not write, and stores where the right side's assignments do not.
LEMMA ExtendAssign ==
    ASSUME NEW fr, NEW a, NEW out, FrameOK(fr), OperandOK(fr, a, out),
           fr.op \in Assigns, Len(fr.outs) = 1,
           out.r \cap fr.outs[1].w = {}, out.w \cap fr.outs[1].dw = {}
    PROVE  FrameOK(Extended(fr, a, out))
<1> DEFINE n == Extended(fr, a, out)
<1>0. /\ fr \in Frame /\ a \in Effect /\ out \in Access
      /\ Covers(a, OperandAccum(fr))
    BY DEF FrameOK, OperandOK
<1>1. /\ n \in Frame /\ n.op = fr.op
      /\ Len(n.outs) = 2 /\ n.outs[2] = out /\ n.outs[1] = fr.outs[1]
    <2>1. n \in Frame /\ n.op = fr.op /\ n.outs = Append(fr.outs, out)
        BY <1>0, ExtendedFields
    <2>2. fr.outs \in Seq(Access) BY <1>0 DEF Frame
    <2>3. /\ Len(Append(fr.outs, out)) = 2 /\ Append(fr.outs, out)[2] = out
          /\ Append(fr.outs, out)[1] = fr.outs[1]
        BY <1>0, <2>2, SecondElement
    <2> QED BY <2>1, <2>3, Zenon
<1>2. OutsOK(n) /\ RunOK(n) BY ExtendOutsRun
<1>3. ApartOK(n) BY <1>1 DEF ApartOK, StoresApart, Calls, Assigns
<1>4. Arity(n.op) = 2 BY <1>1 DEF Assigns, Arity
<1> QED BY <1>0, <1>1, <1>2, <1>3, <1>4 DEF FrameOK, Assigns

\* A finished frame is a good operand of the frame below it; T are targets of atomics.
LEMMA FinishedOperand ==
    ASSUME NEW fr, NEW nx, FrameOK(fr), FrameOK(nx), LinkOK(fr, nx),
           nx.op \notin Calls, NEW D \in SUBSET Var, D \subseteq AllOf(nx.outs).dw,
           NEW T \in SUBSET Var, T \cap (nx.ctx.read \cup nx.ctx.write) = {}
    PROVE  OperandOK(fr, nx.accum, [AllOf(nx.outs) EXCEPT !.at = @ \cup T, !.dw = D])
<1> DEFINE all == AllOf(nx.outs)
<1>1. nx \in Frame /\ OutsOK(nx) BY DEF FrameOK
<1>2. nx.outs \in Seq(Access) /\ nx.accum \in Effect BY <1>1 DEF Frame
<1>3. \A k \in 1..Len(nx.outs) : nx.outs[k] \in Access BY <1>2
<1>4. all \in Access BY <1>3 DEF AllOf, Access
<1>6. all.r \subseteq nx.accum.read /\ all.w \subseteq nx.accum.write
    BY <1>1 DEF OutsOK, AllOf
<1>7. all.dw \subseteq all.w /\ all.dw \subseteq nx.accum.lhs_write
    BY <1>1 DEF OutsOK, AllOf
<1>8. Allowed(nx.ctx, all)
    BY <1>1 DEF OutsOK, AllOf, Allowed
<1>9. /\ Allowed(OperandContext(fr), all)
      /\ T \cap (OperandContext(fr).read \cup OperandContext(fr).write) = {}
    BY <1>8 DEF LinkOK, Allowed
<1>10. Covers(nx.accum, OperandAccum(fr)) BY DEF LinkOK
<1> HIDE DEF all
<1>5. [all EXCEPT !.at = @ \cup T, !.dw = D]
          = [r |-> all.r, w |-> all.w, dw |-> D, at |-> all.at \cup T]
    <2> DEFINE one == [all EXCEPT !.at = all.at \cup T]
    <2>1. one = [r |-> all.r, w |-> all.w, dw |-> all.dw, at |-> all.at \cup T]
        BY SMTT(30), <1>4 DEF Access
    <2>2. [all EXCEPT !.at = @ \cup T, !.dw = D] = [one EXCEPT !.dw = D] OBVIOUS
    <2> HIDE DEF one
    <2> QED BY <2>1, <2>2
<1>11. [r |-> all.r, w |-> all.w, dw |-> D, at |-> all.at \cup T] \in Access
    BY <1>4 DEF Access
<1>13. Allowed(OperandContext(fr), [r |-> all.r, w |-> all.w, dw |-> D, at |-> all.at \cup T])
    BY <1>9 DEF Allowed
<1>12. OperandOK(fr, nx.accum, [r |-> all.r, w |-> all.w, dw |-> D, at |-> all.at \cup T])
    BY <1>2, <1>6, <1>7, <1>10, <1>11, <1>13 DEF OperandOK, all
<1> QED BY <1>5, <1>12 DEF all

-----------------------------------------------------------------------------
(* The stack stays in order.                                               *)

\* The top frame of a stack gets an operand.
LEMMA GrowTop ==
    ASSUME NEW fs, StackOK(fs), fs # << >>, NEW a, NEW out,
           OperandOK(fs[Len(fs)], a, out), FrameOK(Extended(fs[Len(fs)], a, out))
    PROVE  LET gs == WithOperand(fs, a, out) IN
           /\ StackOK(gs) /\ Len(gs) = Len(fs) /\ gs # << >>
           /\ \A i \in 1..Len(fs) : gs[i].op = fs[i].op /\ gs[i].ctx = fs[i].ctx
<1> DEFINE L == Len(fs)
           fr == fs[L]
           n == Extended(fr, a, out)
           gs == WithOperand(fs, a, out)
<1>0. fs \in Seq(Frame) BY DEF StackOK
<1>1. L \in Nat /\ L > 0 /\ L \in 1..L /\ fr \in Frame BY <1>0
<1>2. gs = [fs EXCEPT ![L] = n] BY DEF WithOperand, Extended
<1>3. n \in Frame BY DEF FrameOK
<1>4. /\ a \in Effect /\ out \in Access /\ Covers(a, OperandAccum(fr))
    BY <1>1 DEF OperandOK, StackOK, FrameOK
<1>5. n.op = fr.op /\ n.ctx = fr.ctx /\ n.accum = Merged(fr, a)
    BY <1>1, <1>4, ExtendedFields
<1>6. Covers(n.accum, fr.accum) BY <1>1, <1>4, <1>5, MergedCovers
<1>7. fr.op \in Calls => n.kept = fr.kept
    BY <1>1 DEF Extended, Frame, Calls, Assigns
<1> HIDE DEF n
<1>8. /\ gs \in Seq(Frame) /\ Len(gs) = L /\ gs[L] = n
      /\ \A i \in 1..L : i # L => gs[i] = fs[i]
    BY <1>0, <1>1, <1>2, <1>3
<1> HIDE DEF gs
<1>9. \A i \in 1..L : gs[i].op = fs[i].op /\ gs[i].ctx = fs[i].ctx
    BY <1>5, <1>8
<1>10. \A i \in 1..L : FrameOK(gs[i])
    BY <1>8 DEF StackOK, n
<1>11. ASSUME NEW i \in 1..L - 1 PROVE LinkOK(gs[i], gs[i + 1])
    <2>1. LinkOK(fs[i], fs[i + 1]) /\ i \in 1..L /\ i # L /\ i + 1 \in 1..L
        BY <1>1 DEF StackOK
    <2>2. gs[i] = fs[i] BY <1>8, <2>1
    <2>3. CASE i + 1 # L BY <1>8, <2>1, <2>2, <2>3
    <2>4. CASE i + 1 = L
        <3>1. LinkOK(fs[i], fr) BY <2>1, <2>4
        <3>2. LinkOK(fs[i], n)
            BY <1>5, <1>6, <1>7, <3>1 DEF LinkOK, Covers
        <3> QED BY <1>8, <2>2, <2>4, <3>2
    <2> QED BY <2>3, <2>4
<1>12. gs # << >> /\ gs[1].op = "stm"
    <2>1. fs[1].op = "stm" /\ 1 \in 1..L BY <1>1 DEF StackOK
    <2> QED BY <1>1, <1>8, <1>9, <2>1
<1> QED BY <1>8, <1>9, <1>10, <1>11, <1>12 DEF StackOK, gs

\* The stack without its top frame.
LEMMA DropTop ==
    ASSUME NEW fs, StackOK(fs), fs # << >>, fs[Len(fs)].op # "stm"
    PROVE  LET gs == SubSeq(fs, 1, Len(fs) - 1) IN
           /\ StackOK(gs) /\ Len(gs) = Len(fs) - 1 /\ gs # << >>
           /\ \A i \in 1..Len(gs) : gs[i] = fs[i]
           /\ LinkOK(gs[Len(gs)], fs[Len(fs)])
<1> DEFINE L == Len(fs)
           gs == SubSeq(fs, 1, Len(fs) - 1)
<1>0. fs \in Seq(Frame) BY DEF StackOK
<1>1. L \in Nat /\ L > 0 BY <1>0
<1>2. L # 1 BY DEF StackOK
<1>3. L - 1 \in Nat /\ L - 1 > 0 BY <1>1, <1>2
<1>4. gs \in Seq(Frame) /\ Len(gs) = L - 1 /\ \A i \in 1..L - 1 : gs[i] = fs[i]
    BY <1>0, <1>1, <1>3
<1> HIDE DEF gs
<1>5. gs # << >> BY <1>3, <1>4
<1>6. 1 \in 1..L - 1 /\ L - 1 \in 1..L - 1 BY <1>1, <1>3
<1>7. gs[1].op = "stm" BY <1>0, <1>1, <1>4, <1>6 DEF StackOK
<1>8. \A i \in 1..L - 1 : FrameOK(gs[i]) BY <1>1, <1>4 DEF StackOK
<1>9. \A i \in 1..(L - 1) - 1 : LinkOK(gs[i], gs[i + 1])
    <2>1. TAKE i \in 1..(L - 1) - 1
    <2>2. i \in 1..L - 1 /\ i + 1 \in 1..L - 1 BY <1>1
    <2>3. LinkOK(fs[i], fs[i + 1]) BY <2>2 DEF StackOK
    <2> QED BY <1>4, <2>2, <2>3
<1>10. LinkOK(gs[L - 1], fs[L])
    <2>1. LinkOK(fs[L - 1], fs[(L - 1) + 1]) BY <1>6 DEF StackOK
    <2>2. (L - 1) + 1 = L BY <1>1
    <2> QED BY <1>4, <1>6, <2>1, <2>2
<1> QED BY <1>4, <1>5, <1>7, <1>8, <1>9, <1>10 DEF StackOK, gs

\* A frame is put on the stack.
LEMMA PushTop ==
    ASSUME NEW fs, StackOK(fs), fs # << >>, NEW nx, FrameOK(nx), LinkOK(fs[Len(fs)], nx)
    PROVE  LET gs == Append(fs, nx) IN
           /\ StackOK(gs) /\ Len(gs) = Len(fs) + 1 /\ gs[Len(fs) + 1] = nx
           /\ \A i \in 1..Len(fs) : gs[i] = fs[i]
<1> DEFINE L == Len(fs)
           gs == Append(fs, nx)
<1>0. fs \in Seq(Frame) /\ nx \in Frame BY DEF StackOK, FrameOK
<1>1. L \in Nat /\ L > 0 BY <1>0
<1>2. gs \in Seq(Frame) /\ Len(gs) = L + 1 /\ gs[L + 1] = nx /\ \A i \in 1..L : gs[i] = fs[i]
    BY <1>0
<1> HIDE DEF gs
<1>3. 1 \in 1..L /\ fs[1].op = "stm" BY <1>1 DEF StackOK
<1>4. \A i \in 1..L + 1 : FrameOK(gs[i])
    <2>1. TAKE i \in 1..L + 1
    <2>2. CASE i = L + 1 BY <1>2, <2>2
    <2>3. CASE i \in 1..L BY <1>2, <2>3 DEF StackOK
    <2> QED BY <1>1, <2>2, <2>3
<1>5. \A i \in 1..(L + 1) - 1 : LinkOK(gs[i], gs[i + 1])
    <2>1. TAKE i \in 1..(L + 1) - 1
    <2>2. i \in 1..L BY <1>1
    <2>3. CASE i = L BY <1>2, <2>2, <2>3
    <2>4. CASE i # L
        <3>1. i \in 1..L - 1 /\ i + 1 \in 1..L BY <1>1, <2>2, <2>4
        <3>2. LinkOK(fs[i], fs[i + 1]) BY <3>1 DEF StackOK
        <3> QED BY <1>2, <2>2, <3>1, <3>2
    <2> QED BY <2>3, <2>4
<1> QED BY <1>1, <1>2, <1>3, <1>4, <1>5 DEF StackOK, gs

-----------------------------------------------------------------------------
(* What the actions put together.                                          *)

\* The effects of other functions are recorded: all of them when the caller's
\* locals are on the call chain, else those on globals.
LEMMA ExternalCovers ==
    ASSUME NoManaged, NEW c \in Effect, NEW e \in Effect, NEW chain \in SUBSET Var
    PROVE  LET s == AddExternalEffect(c, e, chain) IN
           /\ s \in Effect /\ Covers(s, c)
           /\ e.read \cap Globals \subseteq s.read /\ e.write \cap Globals \subseteq s.write
           /\ chain = Locals => e.read \subseteq s.read /\ e.write \subseteq s.write
BY DEF NoManaged, Effect, AddExternalEffect, is_global, Covers, Var

\* The same access seen as an effect.
LEMMA EffectOfFields ==
    ASSUME NEW a, a.r \in SUBSET Var, a.w \in SUBSET Var
    PROVE  EffectOf(a) \in Effect /\ EffectOf(a).read = a.r /\ EffectOf(a).write = a.w
BY DEF EffectOf, NoEffect, Effect

\* The value of a call.
LEMMA FinishedCall ==
    ASSUME NEW fr, NEW nx, FrameOK(fr), FrameOK(nx), LinkOK(fr, nx),
           NEW b, b.r \in SUBSET Var, b.w \in SUBSET Var, b.at = {}, Allowed(nx.ctx, b),
           NEW a \in Effect, Covers(a, nx.accum), b.r \subseteq a.read, b.w \subseteq a.write
    PROVE  OperandOK(fr, a, Both(AllOf(nx.outs), b))
<1> DEFINE all == AllOf(nx.outs)
<1>1. nx \in Frame /\ OutsOK(nx) BY DEF FrameOK
<1>2. nx.outs \in Seq(Access) BY <1>1 DEF Frame
<1>3. \A k \in 1..Len(nx.outs) : nx.outs[k] \in Access BY <1>2
<1>4. all \in Access BY <1>3 DEF AllOf, Access
<1>5. all.r \subseteq nx.accum.read /\ all.w \subseteq nx.accum.write
    BY <1>1 DEF OutsOK, AllOf
<1>6. Allowed(nx.ctx, all) BY <1>1 DEF OutsOK, AllOf, Allowed
<1> HIDE DEF all
<1>7. Both(all, b) = [r |-> all.r \cup b.r, w |-> all.w \cup b.w, dw |-> {},
                       at |-> all.at \cup b.at] BY DEF Both
<1>8. Both(all, b) \in Access BY <1>4, <1>7 DEF Access
<1>9. Allowed(OperandContext(fr), Both(all, b))
    BY <1>6, <1>7 DEF LinkOK, Allowed
<1>10. Covers(a, OperandAccum(fr)) BY DEF LinkOK, Covers
<1>11. Both(all, b).r \subseteq a.read /\ Both(all, b).w \subseteq a.write /\ Both(all, b).dw = {}
    BY <1>5, <1>7 DEF Covers
<1> QED BY <1>8, <1>9, <1>10, <1>11 DEF OperandOK, all

\* The calls in progress are the same as long as operators and contexts are.
LEMMA SameCalls ==
    ASSUME NEW fs, NEW gs, CallsOK(fs), Len(gs) \in Nat, Len(fs) \in Nat, Len(gs) <= Len(fs),
           \A i \in 1..Len(gs) : gs[i].op = fs[i].op /\ gs[i].ctx = fs[i].ctx
    PROVE  CallsOK(gs)
<1>1. \A i \in 1..Len(gs) : i \in 1..Len(fs) OBVIOUS
<1>2. ASSUME NEW i \in 1..Len(gs) PROVE CallFrameOK(gs[i])
    <2>1. CallFrameOK(fs[i]) BY <1>1 DEF CallsOK
    <2> QED BY <2>1 DEF CallFrameOK
<1>3. ASSUME NEW i \in 1..Len(gs), NEW j \in 1..Len(gs), gs[i].op = "new", gs[j].op = "new"
      PROVE  i = j
    BY <1>1, <1>3 DEF CallsOK
<1> QED BY <1>2, <1>3 DEF CallsOK

\* The top frame gets an expression.
LEMMA GiveExpression ==
    ASSUME StackOK(stack), CallsOK(stack), ExpressionWanted, NEW a, NEW out,
           OperandOK(Top, a, out)
    PROVE  StackOK(WithOperand(stack, a, out)) /\ CallsOK(WithOperand(stack, a, out))
<1> DEFINE L == Len(stack)
           gs == WithOperand(stack, a, out)
<1>1. stack # << >> /\ stack \in Seq(Frame) BY DEF ExpressionWanted, Generating, StackOK
<1>2. L \in Nat /\ L \in 1..L BY <1>1
<1>3. FrameOK(stack[L]) BY <1>2 DEF StackOK
<1>4. FrameOK(Extended(stack[L], a, out))
    BY <1>3, ExtendFrame DEF ExpressionWanted, Generating, Top
<1>5. /\ StackOK(gs) /\ Len(gs) = L
      /\ \A i \in 1..L : gs[i].op = stack[i].op /\ gs[i].ctx = stack[i].ctx
    BY <1>1, <1>4, GrowTop DEF Top
<1> HIDE DEF gs
<1>6. CallsOK(gs) BY <1>2, <1>5, SameCalls
<1> QED BY <1>5, <1>6 DEF gs

\* The top frame becomes an operand of the one below.
LEMMA GiveBelow ==
    ASSUME StackOK(stack), stack # << >>, Top.op # "stm"
    PROVE  /\ FrameOK(Below[Len(Below)]) /\ FrameOK(Top) /\ LinkOK(Below[Len(Below)], Top)
           /\ \A a, out : OperandOK(Below[Len(Below)], a, out) =>
                 LET gs == WithOperand(Below, a, out) IN
                 /\ StackOK(gs) /\ Len(gs) = Len(stack) - 1
                 /\ \A i \in 1..Len(gs) : gs[i].op = stack[i].op /\ gs[i].ctx = stack[i].ctx
<1> DEFINE L == Len(stack)
           fs == SubSeq(stack, 1, Len(stack) - 1)
<1>1. stack \in Seq(Frame) BY DEF StackOK
<1>2. L \in Nat /\ L \in 1..L BY <1>1
<1>3. /\ StackOK(fs) /\ Len(fs) = L - 1 /\ fs # << >>
      /\ \A i \in 1..Len(fs) : fs[i] = stack[i]
      /\ LinkOK(fs[Len(fs)], stack[L])
    BY DropTop DEF Top
<1>4. FrameOK(stack[L]) BY <1>2 DEF StackOK
<1> HIDE DEF fs
<1>5. FrameOK(fs[Len(fs)])
    <2>1. fs \in Seq(Frame) BY <1>3 DEF StackOK
    <2>2. Len(fs) \in 1..Len(fs) BY <1>3, <2>1
    <2> QED BY <1>3, <2>2 DEF StackOK
<1>6. ASSUME NEW a, NEW out, OperandOK(fs[Len(fs)], a, out)
      PROVE  LET gs == WithOperand(fs, a, out) IN
             /\ StackOK(gs) /\ Len(gs) = L - 1
             /\ \A i \in 1..Len(gs) : gs[i].op = stack[i].op /\ gs[i].ctx = stack[i].ctx
    <2> DEFINE gs == WithOperand(fs, a, out)
    <2>1. fs[Len(fs)].op \in Assigns => fs[Len(fs)].outs = << >> BY <1>3 DEF LinkOK
    <2>2. Len(fs[Len(fs)].outs) < Arity(fs[Len(fs)].op) BY <1>3 DEF LinkOK
    <2>3. FrameOK(Extended(fs[Len(fs)], a, out)) BY <1>5, <1>6, <2>1, <2>2, ExtendFrame
    <2>4. /\ StackOK(gs) /\ Len(gs) = Len(fs)
          /\ \A i \in 1..Len(fs) : gs[i].op = fs[i].op /\ gs[i].ctx = fs[i].ctx
        BY <1>3, <1>6, <2>3, GrowTop
    <2> HIDE DEF gs
    <2>5. /\ StackOK(gs) /\ Len(gs) = L - 1
          /\ \A i \in 1..Len(gs) : gs[i].op = stack[i].op /\ gs[i].ctx = stack[i].ctx
        BY <1>3, <2>4
    <2> QED BY <2>5 DEF gs
<1> QED BY <1>3, <1>4, <1>5, <1>6 DEF fs, Below, Top

-----------------------------------------------------------------------------
(* One lemma per action.                                                   *)

LEMMA TopFrame ==
    ASSUME StackOK(stack), stack # << >>
    PROVE  /\ FrameOK(Top) /\ Top \in Frame /\ Len(stack) \in 1..Len(stack)
           /\ OperandContext(Top) \in Effect /\ OperandAccum(Top) \in Effect
           /\ Top.ctx \in Effect /\ Top.run \in Effect /\ Top.accum \in Effect
           /\ Top.kept \in Effect /\ Top.outs \in Seq(Access)
<1>1. stack \in Seq(Frame) BY DEF StackOK
<1>2. Len(stack) \in 1..Len(stack) BY <1>1
<1>3. FrameOK(Top) BY <1>2 DEF StackOK, Top
<1>4. Top \in Frame BY <1>3 DEF FrameOK
<1>5. OperandContext(Top) \in Effect /\ OperandAccum(Top) \in Effect BY <1>4, ContextTypes
<1> QED BY <1>2, <1>3, <1>4, <1>5 DEF Frame

LEMMA StartStatementInv ==
    ASSUME IInv, StartStatement PROVE IInv'
<1> DEFINE fr == [op |-> "stm", ctx |-> NoEffect, accum |-> NoEffect, run |-> NoEffect,
                  kept |-> NoEffect, outs |-> << >>, target |-> {}]
<1>1. stack' = << fr >> /\ callee' = callee BY DEF StartStatement
<1>2. NoEffect \in Effect /\ << >> \in Seq(Access) BY DEF NoEffect, Effect
<1>3. fr \in Frame BY <1>2 DEF Frame, Ops
<1>4. FrameOK(fr)
    BY <1>3 DEF FrameOK, Arity, OutsOK, RunOK, ApartOK, Assigns
<1>5. fr.op = "stm" OBVIOUS
<1> HIDE DEF fr
<1>6. /\ << fr >> \in Seq(Frame) /\ Len(<< fr >>) = 1
      /\ \A i \in 1..1 : << fr >>[i] = fr
    BY <1>3
<1>7. StackOK(<< fr >>) BY <1>4, <1>5, <1>6 DEF StackOK
<1>8. CallsOK(<< fr >>) BY <1>5, <1>6 DEF CallsOK, CallFrameOK
<1>9. StackOK(stack') /\ CallsOK(stack') BY <1>1, <1>7, <1>8
<1> QED BY <1>1, <1>9 DEF IInv, CallsOK, CallFrameOK, CalleeOK

LEMMA MakeConstantInv ==
    ASSUME IInv, MakeConstant PROVE IInv'
<1> DEFINE a == OperandAccum(Top)
<1>1. stack # << >> /\ StackOK(stack) /\ CallsOK(stack) /\ CalleeOK
    BY DEF MakeConstant, ExpressionWanted, Generating, IInv
<1>2. OperandOK(Top, a, NoAccess)
    BY <1>1, TopFrame DEF OperandOK, NoAccess, Access, Covers, Allowed
<1>3. StackOK(WithOperand(stack, a, NoAccess)) /\ CallsOK(WithOperand(stack, a, NoAccess))
    BY <1>1, <1>2, GiveExpression DEF MakeConstant
<1>4. stack' = WithOperand(stack, a, NoAccess) /\ callee' = callee BY DEF MakeConstant
<1> HIDE DEF a
<1>5. StackOK(stack') /\ CallsOK(stack') BY <1>3, <1>4
<1> QED BY <1>1, <1>4, <1>5 DEF IInv, CallsOK, CallFrameOK, CalleeOK

LEMMA MakeVariableInv ==
    ASSUME IInv, MakeVariable PROVE IInv'
<1>1. stack # << >> /\ StackOK(stack) /\ CallsOK(stack) /\ CalleeOK
    BY DEF MakeVariable, ExpressionWanted, Generating, IInv
<1>2. PICK v \in Var, p \in Var :
          /\ MayRead(OperandContext(Top), v) /\ MayRead(OperandContext(Top), p)
          /\ stack' = WithOperand(stack,
                          [OperandAccum(Top) EXCEPT !.read = @ \cup {v, p}],
                          [NoAccess EXCEPT !.r = {v, p}])
    BY DEF MakeVariable
<1> DEFINE a == [OperandAccum(Top) EXCEPT !.read = @ \cup {v, p}]
           out == [NoAccess EXCEPT !.r = {v, p}]
<1>3. OperandAccum(Top) \in Effect BY <1>1, TopFrame
<1>4. a \in Effect /\ Covers(a, OperandAccum(Top)) /\ {v, p} \subseteq a.read
    BY <1>3 DEF Effect, Covers
<1>5. out = [r |-> {v, p}, w |-> {}, dw |-> {}, at |-> {}] BY DEF NoAccess
<1>6. OperandOK(Top, a, out)
    <2> HIDE DEF a
    <2>1. out \in Access BY <1>5 DEF Access
    <2>2. Allowed(OperandContext(Top), out) BY <1>2, <1>5 DEF Allowed, MayRead
    <2> QED BY <1>4, <1>5, <2>1, <2>2 DEF OperandOK
<1>7. stack' = WithOperand(stack, a, out) /\ callee' = callee BY <1>2 DEF MakeVariable
<1> HIDE DEF a, out
<1>8. StackOK(WithOperand(stack, a, out)) /\ CallsOK(WithOperand(stack, a, out))
    BY <1>1, <1>6, GiveExpression DEF MakeVariable
<1>9. StackOK(stack') /\ CallsOK(stack') BY <1>7, <1>8
<1> QED BY <1>1, <1>7, <1>9 DEF IInv, CallsOK, CallFrameOK, CalleeOK

\* The left side: a fresh variable, or one that the guards let through.
LEMMA MakeLhsInv ==
    ASSUME IInv, MakeLhs PROVE IInv'
<1>1. stack # << >> /\ StackOK(stack) /\ CallsOK(stack) /\ CalleeOK /\ callee' = callee
    BY DEF MakeLhs, Generating, IInv
<1>2. FrameOK(Top) /\ Top \in Frame /\ Top.run \in Effect /\ Top.outs \in Seq(Access)
    BY <1>1, TopFrame
<1>3. Top.op \in Assigns /\ Len(Top.outs) = 1
    <2>1. Top.op \in Assigns /\ Top.outs # << >> /\ Len(Top.outs) < Arity(Top.op)
        BY DEF MakeLhs, Generating
    <2>2. Arity(Top.op) = 2 BY <2>1 DEF Arity, Assigns
    <2>3. \A s \in Seq(Access) : s # << >> /\ Len(s) < 2 => Len(s) = 1
        <3>1. \A s \in Seq(Access) : s # << >> => Len(s) \in Nat \ {0} BY EmptySeq
        <3>2. \A k \in Nat \ {0} : k < 2 => k = 1 OBVIOUS
        <3> QED BY <3>1, <3>2
    <2> QED BY <1>2, <2>1, <2>2, <2>3
<1>4. OperandContext(Top) = Top.run /\ OperandAccum(Top) = NoEffect
    BY <1>3 DEF OperandContext, OperandAccum, Shared, Assigns
<1>5. Top.outs[1].w \subseteq Top.kept.write /\ Top.outs[1].dw \subseteq Top.run.write
    BY <1>2, <1>3 DEF FrameOK, RunOK
<1>6. Top.op = "compound" => Top.outs[1].w \subseteq Top.run.write
    BY <1>2, <1>3 DEF FrameOK, RunOK, Accumulates
<1>7. ASSUME NEW a, NEW out, OperandOK(Top, a, out), stack' = WithOperand(stack, a, out),
             out.r \cap Top.outs[1].w = {}, out.w \cap Top.outs[1].dw = {}
      PROVE  IInv'
    <2>1. FrameOK(Extended(Top, a, out)) BY <1>2, <1>3, <1>7, ExtendAssign
    <2> DEFINE gs == WithOperand(stack, a, out)
    <2>2. /\ StackOK(gs) /\ Len(gs) = Len(stack)
          /\ \A i \in 1..Len(stack) : gs[i].op = stack[i].op /\ gs[i].ctx = stack[i].ctx
        BY <1>1, <1>7, <2>1, GrowTop DEF Top
    <2>3. Len(stack) \in Nat BY <1>1, TopFrame
    <2> HIDE DEF gs
    <2>4. CallsOK(gs) BY <1>1, <2>2, <2>3, SameCalls
    <2>5. StackOK(stack') /\ CallsOK(stack') BY <1>7, <2>2, <2>4 DEF gs
    <2> QED BY <1>1, <2>5 DEF IInv, CallsOK, CallFrameOK, CalleeOK
<1>8. CASE stack' = WithOperand(stack, NoEffect, NoAccess)
    <2>1. OperandOK(Top, NoEffect, NoAccess)
        BY <1>4 DEF OperandOK, NoEffect, NoAccess, Effect, Access, Covers, Allowed
    <2>2. NoAccess.r = {} /\ NoAccess.w = {} BY DEF NoAccess
    <2> QED BY <1>7, <1>8, <2>1, <2>2
<1>9. ASSUME NEW v \in Var, NEW P \in SUBSET Var, v \notin P,
             (IF P = {} THEN {v} ELSE P) \cap Top.kept.write = {},
             \A x \in P \cup (IF Top.op = "compound" THEN {v} ELSE {}) : MayRead(Top.run, x),
             MayWrite(Top.run, v),
             stack' = WithOperand(stack,
                          [read |-> P \cup (IF Top.op = "compound" THEN {v} ELSE {}),
                           write |-> {v}, lhs_write |-> {v}],
                          [r |-> P \cup (IF Top.op = "compound" THEN {v} ELSE {}),
                           w |-> {v}, dw |-> {v}, at |-> {}])
      PROVE  IInv'
    <2> DEFINE rs == P \cup (IF Top.op = "compound" THEN {v} ELSE {})
               a == [read |-> rs, write |-> {v}, lhs_write |-> {v}]
               out == [r |-> rs, w |-> {v}, dw |-> {v}, at |-> {}]
    <2>1. rs \in SUBSET Var OBVIOUS
    <2>2. \A x \in rs : x \notin Top.run.write BY <1>9 DEF MayRead
    <2>3. v \notin Top.run.write /\ v \notin Top.run.read BY <1>9 DEF MayWrite
    <2>4. rs \cap Top.outs[1].w = {}
        <3>1. P \cap Top.outs[1].w = {} BY <1>5, <1>9
        <3>2. CASE Top.op = "compound" BY <1>6, <2>2, <3>2
        <3>3. CASE Top.op # "compound" BY <3>1, <3>3
        <3> QED BY <3>2, <3>3
    <2> HIDE DEF rs
    <2>5. OperandOK(Top, a, out)
        BY <1>4, <2>1, <2>2, <2>3
        DEF OperandOK, NoEffect, Effect, Access, Covers, Allowed
    <2>6. out.r \cap Top.outs[1].w = {} /\ out.w \cap Top.outs[1].dw = {}
        BY <1>5, <2>3, <2>4
    <2>7. stack' = WithOperand(stack, a, out) BY <1>9 DEF rs
    <2> HIDE DEF a, out
    <2> QED BY <1>7, <2>5, <2>6, <2>7
<1> QED BY <1>8, <1>9 DEF MakeLhs

\* A frame just entered.
LEMMA EnterInv ==
    ASSUME IInv, NEW op \in Ops, op # "stm", NEW target \in SUBSET Var, Enter(op, target),
           op = "atomic" =>
               target \cap (OperandContext(Top).read \cup OperandContext(Top).write) = {},
           op = "new" => ~callee.known /\ \A i \in 1..Len(stack) : stack[i].op # "new",
           op = "old" => /\ callee.known
                         /\ ~callee.ptr => Allowed(OperandContext(Top), callee.body)
    PROVE  IInv'
<1> DEFINE ctx == Copied(OperandContext(Top))
           nx == [op |-> op, ctx |-> ctx, accum |-> OperandAccum(Top), run |-> ctx,
                  outs |-> << >>, target |-> target,
                  kept |-> IF op \in Calls THEN OperandAccum(Top) ELSE NoEffect]
           L == Len(stack)
           gs == Append(stack, nx)
<1>1. /\ stack # << >> /\ StackOK(stack) /\ CallsOK(stack) /\ CalleeOK
      /\ callee' = callee /\ ExpressionWanted
    BY DEF Enter, ExpressionWanted, Generating, IInv
<1>2. stack' = gs BY DEF Enter
<1>3. OperandContext(Top) \in Effect /\ OperandAccum(Top) \in Effect BY <1>1, TopFrame
<1>4. /\ ctx \in Effect /\ ctx.read = OperandContext(Top).read
      /\ ctx.write = OperandContext(Top).write
    BY <1>3 DEF Copied, Effect
<1> HIDE DEF ctx
<1>5. NoEffect \in Effect /\ << >> \in Seq(Access) BY DEF NoEffect, Effect
<1>6. nx \in Frame BY <1>3, <1>4, <1>5 DEF Frame
<1>7. /\ nx.op = op /\ nx.ctx = ctx /\ nx.run = ctx /\ nx.outs = << >>
      /\ nx.target = target
      /\ nx.accum = OperandAccum(Top)
      /\ op \in Calls => nx.kept = OperandAccum(Top)
    OBVIOUS
<1> HIDE DEF nx
<1>8. FrameOK(nx)
    <2>1. Len(nx.outs) = 0 /\ 1..Len(nx.outs) = {} /\ Arity(op) \in {1, 2} BY <1>7 DEF Arity
    <2> QED BY <1>4, <1>6, <1>7, <2>1 DEF FrameOK, OutsOK, RunOK, ApartOK
<1>9. LinkOK(stack[L], nx)
    BY <1>1, <1>4, <1>7 DEF LinkOK, Covers, ExpressionWanted, Generating, Top
<1>10. /\ StackOK(gs) /\ Len(gs) = L + 1 /\ gs[L + 1] = nx
       /\ \A i \in 1..L : gs[i] = stack[i]
    BY <1>1, <1>8, <1>9, PushTop
<1>11. L \in Nat BY <1>1, TopFrame
<1> HIDE DEF gs, L
<1>12. CallFrameOK(nx)
    BY <1>4, <1>7 DEF CallFrameOK, Allowed
<1>13. \A i \in 1..L + 1 : i \in 1..L \/ i = L + 1 BY <1>11
<1>14. CallsOK(gs)
    <2>1. \A i \in 1..L : CallFrameOK(gs[i]) BY <1>1, <1>10 DEF CallsOK, L
    <2>2. \A i \in 1..Len(gs) : CallFrameOK(gs[i]) BY <1>10, <1>12, <1>13, <2>1
    <2>3. ASSUME NEW i \in 1..Len(gs), NEW j \in 1..Len(gs), gs[i].op = "new", gs[j].op = "new"
          PROVE  i = j
        <3>1. CASE op = "new"
            <4>1. \A k \in 1..L : gs[k].op # "new" BY <1>10, <3>1 DEF L
            <4> QED BY <1>10, <1>13, <2>3, <4>1
        <3>2. CASE op # "new"
            <4>1. i \in 1..L /\ j \in 1..L BY <1>7, <1>10, <1>13, <2>3, <3>2
            <4>2. stack[i].op = "new" /\ stack[j].op = "new" BY <1>10, <2>3, <4>1
            <4> QED BY <1>1, <4>1, <4>2 DEF CallsOK, L
        <3> QED BY <3>1, <3>2
    <2> QED BY <2>2, <2>3 DEF CallsOK
<1>15. StackOK(stack') /\ CallsOK(stack') BY <1>2, <1>10, <1>14
<1> QED BY <1>1, <1>15 DEF IInv, CallsOK, CallFrameOK, CalleeOK

LEMMA EnterOperatorInv ==
    ASSUME IInv, EnterOperator PROVE IInv'
<1>1. PICK op \in {"binary", "ordered", "comma"} \cup Assigns : Enter(op, {})
    BY DEF EnterOperator
<1>2. op \in Ops /\ op # "stm" /\ op # "new" /\ op # "old" /\ op # "atomic"
    BY DEF Ops, Assigns, Unordered
<1> QED BY <1>1, <1>2, EnterInv

LEMMA EnterIntrinsicInv ==
    ASSUME IInv, EnterIntrinsic PROVE IInv'
<1>1. PICK op \in {"shuffle", "vector"} : Enter(op, {}) BY DEF EnterIntrinsic
<1>2. op \in Ops /\ op # "stm" /\ op # "new" /\ op # "old" /\ op # "atomic"
    BY DEF Ops, Unordered
<1> QED BY <1>1, <1>2, EnterInv

\* VariableSelector::select has checked that the target may be written.
LEMMA EnterAtomicInv ==
    ASSUME IInv, EnterAtomic PROVE IInv'
<1>1. PICK v \in Var : MayWrite(OperandContext(Top), v) /\ Enter("atomic", {v})
    BY DEF EnterAtomic
<1>2. {v} \cap (OperandContext(Top).read \cup OperandContext(Top).write) = {}
    BY <1>1 DEF MayWrite
<1>3. "atomic" \in Ops BY DEF Ops
<1> QED BY <1>1, <1>2, <1>3, EnterInv

\* choose_func's check of the known effect covers the body of a function that uses no
\* pointers.
LEMMA EnterCallInv ==
    ASSUME IInv, EnterCall PROVE IInv'
<1>1. CASE ~callee.known /\ (\A i \in 1..Len(stack) : stack[i].op # "new") /\ Enter("new", {})
    <2>1. "new" \in Ops /\ {} \in SUBSET Var BY DEF Ops, Unordered
    <2> QED BY <1>1, <2>1, EnterInv
<1>2. CASE /\ callee.known /\ ExpressionWanted
           /\ ~in_conflict(OperandContext(Top), callee.feffect)
           /\ Enter("old", {})
    <2>1. "old" \in Ops /\ {} \in SUBSET Var BY DEF Ops, Unordered
    <2>2. /\ callee.body.r \subseteq callee.feffect.read
          /\ callee.body.w \subseteq callee.feffect.write
          /\ callee.body.at = {}
        BY <1>2 DEF IInv, CalleeOK, Named
    <2>3. Allowed(OperandContext(Top), callee.body)
        BY <1>2, <2>2 DEF in_conflict, MayRead, MayWrite, Allowed
    <2> QED BY <1>2, <2>1, <2>3, EnterInv
<1> QED BY <1>1, <1>2 DEF EnterCall

-----------------------------------------------------------------------------

\* The top frame is left; the callee may change.
LEMMA LeaveStack ==
    ASSUME IInv, stack # << >>, Top.op # "stm", NEW a, NEW out,
           OperandOK(Below[Len(Below)], a, out), Leave(a, out)
    PROVE  /\ StackOK(stack') /\ CallsOK(stack)
           /\ Len(stack) \in Nat /\ Len(stack') = Len(stack) - 1
           /\ \A i \in 1..Len(stack') : /\ i \in 1..Len(stack) /\ i # Len(stack)
                                        /\ stack'[i].op = stack[i].op
                                        /\ stack'[i].ctx = stack[i].ctx
<1> DEFINE gs == WithOperand(Below, a, out)
<1>1. StackOK(stack) /\ CallsOK(stack) BY DEF IInv
<1>2. /\ StackOK(gs) /\ Len(gs) = Len(stack) - 1
      /\ \A i \in 1..Len(gs) : gs[i].op = stack[i].op /\ gs[i].ctx = stack[i].ctx
    BY <1>1, GiveBelow
<1>3. stack' = gs BY DEF Leave
<1>4. Len(stack) \in Nat BY <1>1, TopFrame
<1> HIDE DEF gs
<1>5. \A i \in 1..Len(stack) - 1 : i \in 1..Len(stack) /\ i # Len(stack) BY <1>4
<1> QED BY <1>1, <1>2, <1>3, <1>4, <1>5

\* ... and when it does not, the invariant is kept.
LEMMA LeaveSame ==
    ASSUME IInv, stack # << >>, Top.op # "stm", NEW a, NEW out, callee' = callee,
           OperandOK(Below[Len(Below)], a, out), Leave(a, out)
    PROVE  IInv'
<1>1. /\ StackOK(stack') /\ CallsOK(stack)
      /\ Len(stack) \in Nat /\ Len(stack') = Len(stack) - 1
      /\ \A i \in 1..Len(stack') : stack'[i].op = stack[i].op /\ stack'[i].ctx = stack[i].ctx
    BY LeaveStack
<1>2. Len(stack') \in Nat BY <1>1 DEF StackOK
<1>3. CallsOK(stack') BY <1>1, <1>2, SameCalls
<1> QED BY <1>1, <1>3 DEF IInv, CallsOK, CallFrameOK, CalleeOK

LEMMA LeaveOperatorInv ==
    ASSUME IInv, LeaveOperator PROVE IInv'
<1> DEFINE all == AllOf(Top.outs)
           fr == Below[Len(Below)]
           D == CASE Top.op \in {"ordered", "comma"} -> Top.outs[2].dw
                  [] Top.op \in {"shuffle", "vector"} -> {}
                  [] OTHER -> all.dw
<1>1. /\ stack # << >> /\ StackOK(stack) /\ callee' = callee /\ Complete
      /\ Top.op \in {"binary", "ordered", "comma", "shuffle", "vector"} \cup Assigns
    BY DEF LeaveOperator, Complete, IInv
<1>2. Top.op # "stm" /\ Top.op \notin Calls BY <1>1 DEF Assigns, Calls
<1>3. FrameOK(fr) /\ FrameOK(Top) /\ LinkOK(fr, Top) BY <1>1, <1>2, GiveBelow
<1>4. Top.outs \in Seq(Access) BY <1>1, TopFrame
<1>5. \A k \in 1..Len(Top.outs) : Top.outs[k] \in Access BY <1>4
<1>6. all \in Access BY <1>5 DEF AllOf, Access
<1>7. Top.op \notin {"stm", "atomic"} => Len(Top.outs) = 2
    BY <1>1 DEF Complete, Arity
<1>8. \A k \in 1..Len(Top.outs) : Top.outs[k].dw \subseteq all.dw BY DEF AllOf
<1>9. D \in SUBSET Var /\ D \subseteq all.dw
    <2>1. CASE Top.op \in {"ordered", "comma"}
        <3>1. D = Top.outs[2].dw BY <2>1
        <3>2. 2 \in 1..Len(Top.outs) BY <1>7, <2>1
        <3> QED BY <1>5, <1>8, <3>1, <3>2 DEF Access
    <2>2. CASE Top.op \in {"shuffle", "vector"}
        BY <2>2
    <2>3. CASE Top.op \notin {"ordered", "comma", "shuffle", "vector"}
        <3>1. D = all.dw BY <2>3
        <3> HIDE DEF D, all
        <3> QED BY <1>6, <3>1 DEF Access
    <2> QED BY <2>1, <2>2, <2>3
<1>10. OperandOK(fr, Top.accum, [all EXCEPT !.dw = D])
    <2> HIDE DEF D
    <2>1. OperandOK(fr, Top.accum, [all EXCEPT !.at = @ \cup {}, !.dw = D])
        BY <1>2, <1>3, <1>9, FinishedOperand
    <2> HIDE DEF all
    <2>2. [all EXCEPT !.at = @ \cup {}, !.dw = D] = [all EXCEPT !.dw = D]
        BY <1>6 DEF Access
    <2> QED BY <2>1, <2>2
<1>11. Leave(Top.accum, [all EXCEPT !.dw = D])
    <2>1. all = [all EXCEPT !.dw = all.dw]
        <3> HIDE DEF all
        <3> QED BY <1>6 DEF Access
    <2>2. Leave(Top.accum,
                CASE Top.op \in {"ordered", "comma"} -> [all EXCEPT !.dw = Top.outs[2].dw]
                  [] Top.op \in {"shuffle", "vector"} -> [all EXCEPT !.dw = {}]
                  [] OTHER -> all)
        BY DEF LeaveOperator
    <2> HIDE DEF all
    <2>3. CASE Top.op \in {"ordered", "comma"} BY <2>2, <2>3
    <2>4. CASE Top.op \in {"shuffle", "vector"} BY <2>2, <2>4
    <2>5. CASE Top.op \notin {"ordered", "comma", "shuffle", "vector"} BY <2>1, <2>2, <2>5
    <2> QED BY <2>3, <2>4, <2>5
<1> HIDE DEF all, D, fr
<1> QED BY <1>1, <1>2, <1>10, <1>11, LeaveSame DEF fr

\* The target of an atomic is one more access that the operator's context allows.
LEMMA LeaveAtomicInv ==
    ASSUME IInv, LeaveAtomic PROVE IInv'
<1> DEFINE fr == Below[Len(Below)]
           out == [AllOf(Top.outs) EXCEPT !.at = @ \cup Top.target, !.dw = {}]
<1>1. /\ stack # << >> /\ StackOK(stack) /\ callee' = callee
      /\ Top.op = "atomic" /\ Top.op # "stm" /\ Top.op \notin Calls
    BY DEF LeaveAtomic, Complete, IInv, Calls
<1>2. FrameOK(fr) /\ FrameOK(Top) /\ LinkOK(fr, Top) BY <1>1, GiveBelow
<1>3. /\ Top.target \in SUBSET Var
      /\ Top.target \cap (Top.ctx.read \cup Top.ctx.write) = {}
    BY <1>1, <1>2 DEF FrameOK, Frame
<1>4. OperandOK(fr, Top.accum, out)
    BY <1>1, <1>2, <1>3, FinishedOperand
<1>5. Leave(Top.accum, out) BY DEF LeaveAtomic
<1> HIDE DEF out, fr
<1> QED BY <1>1, <1>4, <1>5, LeaveSame DEF fr

\* Accesses of a body, by name and through pointers.
LEMMA BodyAccess ==
    ASSUME NEW body \in Named, NEW far \in Pointed, NEW ctx \in Effect,
           Admits(ctx, Both(body, far)) \/ (Admits(ctx, body) /\ Admits(ctx, far))
    PROVE  /\ Both(body, far).r = body.r \cup far.r /\ Both(body, far).w = body.w \cup far.w
           /\ Both(body, far).r \in SUBSET Var /\ Both(body, far).w \in SUBSET Var
           /\ Both(body, far).at = {} /\ Allowed(ctx, Both(body, far))
<1>1. Both(body, far).r = body.r \cup far.r /\ Both(body, far).w = body.w \cup far.w
    BY DEF Both
<1>2. body.r \in SUBSET Var /\ body.w \in SUBSET Var /\ body.at = {} BY DEF Named, Var
<1>3. far.r \in SUBSET Var /\ far.w \in SUBSET Var /\ far.at = {}
    <2>1. CASE far = NoAccess BY <2>1 DEF NoAccess
    <2>2. ASSUME NEW v \in Var, far = [NoAccess EXCEPT !.r = {v}]
          PROVE  far.r \in SUBSET Var /\ far.w \in SUBSET Var /\ far.at = {}
        <3>1. far = [r |-> {v}, w |-> {}, dw |-> {}, at |-> {}] BY <2>2 DEF NoAccess
        <3> QED BY <3>1
    <2>3. ASSUME NEW v \in Var, far = [NoAccess EXCEPT !.r = {v}, !.w = {v}]
          PROVE  far.r \in SUBSET Var /\ far.w \in SUBSET Var /\ far.at = {}
        <3>1. far = [r |-> {v}, w |-> {v}, dw |-> {}, at |-> {}] BY <2>3 DEF NoAccess
        <3> QED BY <3>1
    <2> QED BY <2>1, <2>2, <2>3 DEF Pointed
<1>4. \A x \in Both(body, far).r : x \notin ctx.write
    BY <1>1 DEF Admits, MayRead
<1>5. \A x \in Both(body, far).w : x \notin ctx.write /\ x \notin ctx.read
    BY <1>1 DEF Admits, MayWrite
<1>6. Both(body, far).at = {} BY <1>2, <1>3 DEF Both
<1> QED BY <1>1, <1>2, <1>3, <1>4, <1>5, <1>6 DEF Allowed

\* The first call of a function: it is created, and known from then on.
LEMMA LeaveNewCallInv ==
    ASSUME NoManaged, IInv, LeaveNewCall PROVE IInv'
<1> DEFINE fr == Below[Len(Below)]
<1>1. stack # << >> /\ StackOK(stack) /\ CallsOK(stack) /\ Top.op = "new" /\ Top.op # "stm"
    BY DEF LeaveNewCall, Complete, IInv
<1>2. FrameOK(fr) /\ FrameOK(Top) /\ LinkOK(fr, Top) BY <1>1, GiveBelow
<1>3. Top.ctx \in Effect /\ Top.accum \in Effect /\ Len(stack) \in 1..Len(stack)
    BY <1>1, TopFrame
<1>4. PICK body \in Named, ptr \in BOOLEAN, far \in Pointed :
          /\ Admits(Top.ctx, body) /\ Admits(Top.ctx, far)
          /\ Leave(AddExternalEffect(Top.accum, EffectOf(Both(body, far)), Locals),
                   CallAccess(Both(body, far)))
          /\ callee' = [known |-> TRUE, body |-> body, ptr |-> ptr,
                        feffect |-> AddExternalEffect(NoEffect, EffectOf(Both(body, far)), {}),
                        seen |-> AddExternalEffect(NoEffect, Top.ctx, {})]
    BY DEF LeaveNewCall
<1> DEFINE b == Both(body, far)
           e == EffectOf(b)
           a == AddExternalEffect(Top.accum, e, Locals)
           f == AddExternalEffect(NoEffect, e, {})
           s == AddExternalEffect(NoEffect, Top.ctx, {})
<1>5. /\ b.r = body.r \cup far.r /\ b.w = body.w \cup far.w
      /\ b.r \in SUBSET Var /\ b.w \in SUBSET Var /\ b.at = {} /\ Allowed(Top.ctx, b)
    BY <1>3, <1>4, BodyAccess
<1> HIDE DEF b
<1>6. e \in Effect /\ e.read = b.r /\ e.write = b.w BY <1>5, EffectOfFields
<1> HIDE DEF e
<1>7. NoEffect \in Effect /\ {} \in SUBSET Var /\ Locals \in SUBSET Var
    BY DEF NoEffect, Effect, Var
<1>8. a \in Effect /\ Covers(a, Top.accum) /\ b.r \subseteq a.read /\ b.w \subseteq a.write
    BY <1>3, <1>6, <1>7, ExternalCovers
<1>9. /\ f \in Effect /\ s \in Effect
      /\ e.read \cap Globals \subseteq f.read /\ e.write \cap Globals \subseteq f.write
    BY <1>3, <1>6, <1>7, ExternalCovers
<1> HIDE DEF a, f, s
<1>10. OperandOK(fr, a, Both(AllOf(Top.outs), b))
    BY <1>2, <1>5, <1>8, FinishedCall
<1>11. Leave(a, Both(AllOf(Top.outs), b))
    BY <1>4 DEF a, e, b, CallAccess
<1>12. callee' = [known |-> TRUE, body |-> body, ptr |-> ptr, feffect |-> f, seen |-> s]
    BY <1>4 DEF f, s, e, b
<1> HIDE DEF fr
<1>13. /\ StackOK(stack')
       /\ \A i \in 1..Len(stack') : /\ i \in 1..Len(stack) /\ i # Len(stack)
                                    /\ stack'[i].op = stack[i].op
    BY <1>1, <1>10, <1>11, LeaveStack DEF fr
<1>14. CalleeOK'
    <2>1. body.r \subseteq Globals /\ body.w \subseteq Globals BY DEF Named, NoManaged
    <2>2. body.r \subseteq f.read /\ body.w \subseteq f.write BY <1>5, <1>6, <1>9, <2>1
    <2>3. body \in Access BY DEF Named, Access, Var
    <2>4. callee' \in Functions BY <1>9, <1>12, <2>3 DEF Functions
    <2> QED BY <1>12, <2>2, <2>4 DEF CalleeOK
<1>15. ASSUME NEW i \in 1..Len(stack')
       PROVE  stack'[i].op # "new" /\ stack'[i].op # "old"
    <2>1. i \in 1..Len(stack) /\ i # Len(stack) /\ stack'[i].op = stack[i].op BY <1>13
    <2>2. stack[Len(stack)].op = "new" BY <1>1 DEF Top
    <2>3. ~callee.known BY <1>1, <1>3, <2>2 DEF CallsOK, CallFrameOK
    <2>4. stack[i].op # "old" BY <1>1, <2>1, <2>3 DEF CallsOK, CallFrameOK
    <2>5. stack[i].op # "new" BY <1>1, <1>3, <2>1, <2>2 DEF CallsOK
    <2> QED BY <2>1, <2>4, <2>5
<1>16. CallsOK(stack)' BY <1>15 DEF CallsOK, CallFrameOK
<1> QED BY <1>13, <1>14, <1>16 DEF IInv

\* A callee without pointers has a known effect; one with pointers is visited again,
\* and its body and kind stay as they are.
LEMMA LeaveOldCallInv ==
    ASSUME NoManaged, IInv, LeaveOldCall PROVE IInv'
<1> DEFINE fr == Below[Len(Below)]
<1>1. /\ stack # << >> /\ StackOK(stack) /\ CallsOK(stack) /\ CalleeOK
      /\ Top.op = "old" /\ Top.op # "stm"
    BY DEF LeaveOldCall, Complete, IInv
<1>2. FrameOK(fr) /\ FrameOK(Top) /\ LinkOK(fr, Top) BY <1>1, GiveBelow
<1>3. Top.ctx \in Effect /\ Top.accum \in Effect /\ Len(stack) \in 1..Len(stack)
    BY <1>1, TopFrame
<1>4. CallFrameOK(Top) BY <1>1, <1>3 DEF CallsOK, Top
<1>5. callee.known /\ (~callee.ptr => Allowed(Top.ctx, callee.body))
    BY <1>1, <1>4 DEF CallFrameOK
<1>6. /\ callee \in Functions /\ callee.body \in Named
      /\ callee.body.r \subseteq callee.feffect.read
      /\ callee.body.w \subseteq callee.feffect.write
      /\ callee.feffect \in Effect /\ callee.seen \in Effect
    BY <1>1, <1>5 DEF CalleeOK, Functions
<1>7. NoEffect \in Effect /\ {} \in SUBSET Var /\ Locals \in SUBSET Var
    BY DEF NoEffect, Effect, Var
<1>8. CASE ~callee.ptr
    <2> DEFINE b == callee.body
               a == AddExternalEffect(Top.accum, callee.feffect, {})
    <2>1. b.r \subseteq Globals /\ b.w \subseteq Globals BY <1>6 DEF Named, NoManaged
    <2>2. /\ a \in Effect /\ Covers(a, Top.accum)
          /\ callee.feffect.read \cap Globals \subseteq a.read
          /\ callee.feffect.write \cap Globals \subseteq a.write
        BY <1>3, <1>6, <1>7, ExternalCovers
    <2>3. Leave(a, Both(AllOf(Top.outs), b)) /\ callee' = callee
        BY <1>8 DEF LeaveOldCall, CallAccess
    <2>4. b.r \in SUBSET Var /\ b.w \in SUBSET Var /\ b.at = {} BY <1>6, <2>1 DEF Named, Var
    <2> HIDE DEF a
    <2>5. OperandOK(fr, a, Both(AllOf(Top.outs), b))
        BY <1>2, <1>5, <1>6, <1>8, <2>1, <2>2, <2>4, FinishedCall
    <2> QED BY <1>1, <2>3, <2>5, LeaveSame
<1>9. CASE callee.ptr
    <2>1. PICK far \in Pointed :
              /\ Admits(VisitContext, Both(callee.body, far))
              /\ Leave(AddExternalEffect(Top.accum, EffectOf(Both(callee.body, far)), Locals),
                       CallAccess(Both(callee.body, far)))
              /\ callee' = [callee EXCEPT
                     !.feffect = AddExternalEffect(@, EffectOf(Both(callee.body, far)), {}),
                     !.seen = AddExternalEffect(@, VisitContext, {})]
        BY <1>9 DEF LeaveOldCall
    <2> DEFINE b == Both(callee.body, far)
               e == EffectOf(b)
               a == AddExternalEffect(Top.accum, e, Locals)
               f == AddExternalEffect(callee.feffect, e, {})
               s == AddExternalEffect(callee.seen, VisitContext, {})
    <2>2. /\ VisitContext \in Effect /\ Top.ctx.read \subseteq VisitContext.read
          /\ Top.ctx.write \subseteq VisitContext.write
        BY <1>3, <1>6 DEF VisitContext, AddEffect, Effect
    <2>3. b.r \in SUBSET Var /\ b.w \in SUBSET Var /\ b.at = {} /\ Allowed(VisitContext, b)
        BY <1>6, <2>1, <2>2, BodyAccess
    <2> HIDE DEF b
    <2>4. Allowed(Top.ctx, b) BY <2>2, <2>3 DEF Allowed
    <2>5. e \in Effect /\ e.read = b.r /\ e.write = b.w BY <2>3, EffectOfFields
    <2> HIDE DEF e
    <2>6. a \in Effect /\ Covers(a, Top.accum) /\ b.r \subseteq a.read /\ b.w \subseteq a.write
        BY <1>3, <1>7, <2>5, ExternalCovers
    <2>7. f \in Effect /\ Covers(f, callee.feffect) BY <1>6, <1>7, <2>5, ExternalCovers
    <2>8. s \in Effect BY <1>6, <1>7, <2>2, ExternalCovers
    <2> HIDE DEF a, f, s
    <2>9. OperandOK(fr, a, Both(AllOf(Top.outs), b)) BY <1>2, <2>3, <2>4, <2>6, FinishedCall
    <2>10. Leave(a, Both(AllOf(Top.outs), b)) BY <2>1 DEF a, e, b, CallAccess
    <2>11. callee' = [callee EXCEPT !.feffect = f, !.seen = s] BY <2>1 DEF f, s, e, b
    <2>12. /\ callee' \in Functions /\ callee'.known = callee.known /\ callee'.ptr = callee.ptr
           /\ callee'.body = callee.body /\ callee'.feffect = f
        BY <1>6, <2>7, <2>8, <2>11 DEF Functions
    <2> HIDE DEF fr
    <2>13. /\ StackOK(stack') /\ Len(stack) \in Nat /\ Len(stack') = Len(stack) - 1
           /\ \A i \in 1..Len(stack') : /\ stack'[i].op = stack[i].op
                                        /\ stack'[i].ctx = stack[i].ctx
        BY <1>1, <2>9, <2>10, LeaveStack DEF fr
    <2>14. Len(stack') \in Nat BY <2>13 DEF StackOK
    <2>15. CallsOK(stack') BY <1>1, <2>13, <2>14, SameCalls
    <2>16. CallsOK(stack)' BY <2>12, <2>15 DEF CallsOK, CallFrameOK
    <2>17. CalleeOK' BY <1>6, <2>7, <2>12 DEF CalleeOK, Covers
    <2> QED BY <2>13, <2>16, <2>17 DEF IInv
<1> QED BY <1>8, <1>9

\* A call given up leaves the accumulator it found and one variable read.
LEMMA FailOldCallInv ==
    ASSUME IInv, FailOldCall PROVE IInv'
<1> DEFINE fr == Below[Len(Below)]
<1>1. /\ stack # << >> /\ StackOK(stack) /\ Top.op = "old" /\ Top.op # "stm"
      /\ callee' = callee
    BY DEF FailOldCall, Complete, IInv
<1>2. FrameOK(fr) /\ LinkOK(fr, Top) BY <1>1, GiveBelow
<1>3. Top.kept \in Effect /\ Top.ctx \in Effect BY <1>1, TopFrame
<1>4. PICK R \in {{}} \cup {{v} : v \in Var} :
          /\ \A v \in R : MayRead(Top.ctx, v)
          /\ Leave([Top.kept EXCEPT !.read = @ \cup R], [NoAccess EXCEPT !.r = R])
    BY DEF FailOldCall
<1> DEFINE a == [Top.kept EXCEPT !.read = @ \cup R]
           out == [NoAccess EXCEPT !.r = R]
<1>5. R \in SUBSET Var OBVIOUS
<1>6. a \in Effect /\ Covers(a, Top.kept) /\ R \subseteq a.read
    BY <1>3, <1>5 DEF Effect, Covers
<1>7. out = [r |-> R, w |-> {}, dw |-> {}, at |-> {}] BY DEF NoAccess
<1>8. Covers(Top.kept, OperandAccum(fr)) BY <1>1, <1>2 DEF LinkOK, Calls
<1>9. Leave(a, out) BY <1>4
<1> HIDE DEF a, out
<1>10. out \in Access BY <1>5, <1>7 DEF Access
<1>11. Allowed(OperandContext(fr), out)
    BY <1>2, <1>4, <1>7 DEF LinkOK, Allowed, MayRead
<1>12. Covers(a, OperandAccum(fr)) BY <1>6, <1>8 DEF Covers
<1>13. OperandOK(fr, a, out) BY <1>6, <1>7, <1>10, <1>11, <1>12 DEF OperandOK
<1> QED BY <1>1, <1>9, <1>13, LeaveSame

-----------------------------------------------------------------------------

LEMMA InitInv == Init => IInv
<1>1. SUFFICES ASSUME Init PROVE IInv OBVIOUS
<1>2. stack = << >> /\ callee = NotMade BY <1>1 DEF Init
<1>3. NotMade \in Functions /\ ~NotMade.known
    BY DEF NotMade, Functions, NoAccess, NoEffect, Access, Effect
<1>4. StackOK(<< >>) /\ CallsOK(<< >>) BY DEF StackOK, CallsOK
<1> QED BY <1>2, <1>3, <1>4 DEF IInv, CalleeOK

LEMMA EmptyStack ==
    ASSUME IInv, EndStatement PROVE IInv'
<1>1. stack' = << >> /\ callee' = callee BY DEF EndStatement
<1>2. StackOK(<< >>) /\ CallsOK(<< >>) BY DEF StackOK, CallsOK
<1>3. StackOK(stack') /\ CallsOK(stack') BY <1>1, <1>2
<1> QED BY <1>1, <1>3 DEF IInv, CallsOK, CallFrameOK, CalleeOK

LEMMA NextInv ==
    ASSUME NoManaged, IInv, [Next]_vars PROVE IInv'
<1>1. CASE UNCHANGED vars
    BY <1>1 DEF vars, IInv, CallsOK, CallFrameOK, CalleeOK
<1>2. CASE Next
    BY <1>2, StartStatementInv, MakeConstantInv, MakeVariableInv, MakeLhsInv,
       EnterOperatorInv, EnterIntrinsicInv, EnterAtomicInv, EnterCallInv, LeaveOperatorInv,
       LeaveAtomicInv, LeaveNewCallInv, LeaveOldCallInv, FailOldCallInv, EmptyStack DEF Next
<1> QED BY <1>1, <1>2

\* Whatever HIP expressions are on, as long as no variable is managed: generation
\* under running contexts (FunctionInvocation::make_random_binary, StatementAssign::make_random,
\* build_invocation) keeps unsequenced accesses apart, whatever is nested in them,
\* with any number of variables.
THEOREM Unsequenced ==
    ASSUME NoManaged
    PROVE  Spec => []OperandsApart
<1>1. IInv => OperandsApart
    <2>1. SUFFICES ASSUME IInv, NEW i \in 1..Len(stack) PROVE ApartOK(stack[i])
        BY DEF OperandsApart, ApartOK
    <2> QED BY <2>1 DEF IInv, StackOK, FrameOK
<1>2. IInv /\ [Next]_vars => IInv' BY NextInv
<1> QED BY <1>1, <1>2, InitInv, PTL DEF Spec

\* Under the same assumption what an operator has recorded covers what its operands
\* access, callees included (CGContext::merge_param_context, add_visible_effect).
THEOREM AllRecorded ==
    ASSUME NoManaged
    PROVE  Spec => []Recorded
<1>1. IInv => Recorded
    <2>1. SUFFICES ASSUME IInv, NEW i \in 1..Len(stack)
                   PROVE  /\ AllOf(stack[i].outs).r \subseteq stack[i].accum.read
                          /\ AllOf(stack[i].outs).w \subseteq stack[i].accum.write
        BY DEF Recorded
    <2>2. OutsOK(stack[i]) BY <2>1 DEF IInv, StackOK, FrameOK
    <2> QED BY <2>2 DEF OutsOK, AllOf
<1>2. IInv /\ [Next]_vars => IInv' BY NextInv
<1> QED BY <1>1, <1>2, InitInv, PTL DEF Spec

\* And no operand, or function called in it, touches what its operator's context
\* forbids.
THEOREM ContextRespected ==
    ASSUME NoManaged
    PROVE  Spec => []ContextKept
<1>1. IInv => ContextKept
    <2>1. SUFFICES ASSUME IInv, NEW i \in 1..Len(stack), NEW k \in 1..Len(stack[i].outs)
                   PROVE  Allowed(stack[i].ctx, stack[i].outs[k])
        BY DEF ContextKept, Allowed
    <2>2. OutsOK(stack[i]) BY <2>1 DEF IInv, StackOK, FrameOK
    <2> QED BY <2>2 DEF OutsOK
<1>2. IInv /\ [Next]_vars => IInv' BY NextInv
<1> QED BY <1>1, <1>2, InitInv, PTL DEF Spec

-----------------------------------------------------------------------------
(* Types, for every option.  The depth counts an operand or a call each time  *)
(* one is finished, and an operator is entered only below MaxExprDepth, so    *)
(* what can be added above it depends on how much of the stack is gone.       *)

FramesOK(fs) ==
    /\ fs \in Seq(Frame)
    /\ fs # << >> => fs[1].op = "stm"
    /\ \A i \in 1..Len(fs) :
          /\ Len(fs[i].outs) <= Arity(fs[i].op)
          /\ i < Len(fs) => Len(fs[i].outs) < Arity(fs[i].op)

\* The depth e, with l frames open of which the top one has o operands.
Bounded(e, l, o) == e <= MaxExprDepth + 3 * (MaxDepth - l) + o

DepthOK ==
    /\ expr_depth \in Nat
    /\ IF stack = << >> THEN expr_depth = 0
       ELSE Bounded(expr_depth, Len(stack), Len(Top.outs))

TInv == FramesOK(stack) /\ Len(stack) <= MaxDepth /\ DepthOK /\ callee \in Functions

LEMMA DepthSum ==
    ASSUME ContextAssumption, NEW e \in Nat, NEW l \in Nat, NEW o \in Nat, NEW p \in Nat,
           Bounded(e, l, o)
    PROVE  /\ Bounded(e, l, o + 1) /\ Bounded(e + 1, l, o + 1)
           /\ o <= 2 => Bounded(e, l - 1, p + 1) /\ Bounded(e + 1, l - 1, p + 1)
           /\ o <= 2 /\ l > 0 => e \in 0..MaxExprDepth + 3 * MaxDepth
<1>1. \A M, D \in Nat : e <= M + 3 * (D - l) + o =>
          /\ e <= M + 3 * (D - l) + (o + 1) /\ e + 1 <= M + 3 * (D - l) + (o + 1)
          /\ o <= 2 => /\ e <= M + 3 * (D - (l - 1)) + (p + 1)
                      /\ e + 1 <= M + 3 * (D - (l - 1)) + (p + 1)
          /\ o <= 2 /\ l > 0 => e \in 0..M + 3 * D
    OBVIOUS
<1>2. MaxExprDepth \in Nat /\ MaxDepth \in Nat BY DEF ContextAssumption
<1> QED BY <1>1, <1>2 DEF Bounded

LEMMA TypesOfTop ==
    ASSUME NEW fs, FramesOK(fs), fs # << >>
    PROVE  /\ Len(fs) \in Nat /\ Len(fs) > 0 /\ Len(fs) \in 1..Len(fs)
           /\ fs[Len(fs)] \in Frame /\ Len(fs[Len(fs)].outs) \in Nat
           /\ Len(fs[Len(fs)].outs) <= Arity(fs[Len(fs)].op)
           /\ Arity(fs[Len(fs)].op) \in {1, 2}
           /\ AllOf(fs[Len(fs)].outs) \in Access
           /\ \A k \in 1..Len(fs[Len(fs)].outs) : fs[Len(fs)].outs[k] \in Access
<1>1. fs \in Seq(Frame) BY DEF FramesOK
<1>2. Len(fs) \in Nat /\ Len(fs) > 0 /\ Len(fs) \in 1..Len(fs) BY <1>1
<1>3. fs[Len(fs)] \in Frame BY <1>1, <1>2
<1>4. fs[Len(fs)].outs \in Seq(Access) BY <1>3 DEF Frame
<1>5. \A k \in 1..Len(fs[Len(fs)].outs) : fs[Len(fs)].outs[k] \in Access BY <1>4
<1>6. AllOf(fs[Len(fs)].outs) \in Access BY <1>5 DEF AllOf, Access
<1> QED BY <1>2, <1>3, <1>4, <1>5, <1>6 DEF FramesOK, Arity

\* A frame that gets an operand is a frame.
LEMMA TypesExtended ==
    ASSUME NEW fr \in Frame, NEW a \in Effect, NEW out \in Access
    PROVE  /\ Extended(fr, a, out) \in Frame /\ Extended(fr, a, out).op = fr.op
           /\ Len(Extended(fr, a, out).outs) = Len(fr.outs) + 1
<1>1. fr.outs \in Seq(Access) /\ fr.kept \in Effect /\ fr.accum \in Effect BY DEF Frame
<1>2. NextRun(fr, a) \in Effect BY NextRunCovers
<1>3. Merged(fr, a) \in Effect BY <1>1 DEF Merged, AddEffect, Effect
<1>4. Copied(a) \in Effect BY DEF Copied, Effect
<1>5. Append(fr.outs, out) \in Seq(Access) /\ Len(Append(fr.outs, out)) = Len(fr.outs) + 1
    BY <1>1
<1>6. Extended(fr, a, out) \in Frame
    BY <1>1, <1>2, <1>3, <1>4, <1>5 DEF Extended, Frame
<1>7. Extended(fr, a, out).outs = Append(fr.outs, out) /\ Extended(fr, a, out).op = fr.op
    BY DEF Extended, Frame
<1> QED BY <1>5, <1>6, <1>7

LEMMA TypesGiven ==
    ASSUME NEW fs, FramesOK(fs), fs # << >>, NEW a \in Effect, NEW out \in Access,
           Len(fs[Len(fs)].outs) < Arity(fs[Len(fs)].op)
    PROVE  LET gs == WithOperand(fs, a, out) IN
           /\ FramesOK(gs) /\ Len(gs) = Len(fs) /\ gs # << >>
           /\ Len(gs[Len(gs)].outs) = Len(fs[Len(fs)].outs) + 1
<1> DEFINE L == Len(fs)
           n == Extended(fs[L], a, out)
           gs == WithOperand(fs, a, out)
<1>1. /\ fs \in Seq(Frame) /\ L \in Nat /\ L > 0 /\ L \in 1..L /\ fs[L] \in Frame
      /\ Len(fs[L].outs) \in Nat /\ Arity(fs[L].op) \in {1, 2}
    BY TypesOfTop DEF FramesOK
<1>2. gs = [fs EXCEPT ![L] = n] BY DEF WithOperand, Extended
<1>3. n \in Frame /\ n.op = fs[L].op /\ Len(n.outs) = Len(fs[L].outs) + 1
    BY <1>1, TypesExtended
<1> HIDE DEF n
<1>4. /\ gs \in Seq(Frame) /\ Len(gs) = L /\ gs[L] = n
      /\ \A i \in 1..L : i # L => gs[i] = fs[i]
    BY <1>1, <1>2, <1>3
<1> HIDE DEF gs
<1>5. gs # << >> /\ gs[1].op = "stm"
    <2>1. 1 \in 1..L /\ fs[1].op = "stm" BY <1>1 DEF FramesOK
    <2> QED BY <1>1, <1>3, <1>4, <2>1
<1>6. \A i \in 1..L : /\ Len(gs[i].outs) <= Arity(gs[i].op)
                      /\ i < L => Len(gs[i].outs) < Arity(gs[i].op)
    <2>1. TAKE i \in 1..L
    <2>2. CASE i = L BY <1>1, <1>3, <1>4, <2>2
    <2>3. CASE i # L BY <1>4, <2>3 DEF FramesOK
    <2> QED BY <2>2, <2>3
<1> QED BY <1>1, <1>3, <1>4, <1>5, <1>6 DEF FramesOK, gs

LEMMA TypesBelow ==
    ASSUME FramesOK(stack), stack # << >>, Top.op # "stm"
    PROVE  /\ FramesOK(Below) /\ Below # << >>
           /\ Len(Below) = Len(stack) - 1 /\ Len(Below) > 0
           /\ Len(Below[Len(Below)].outs) < Arity(Below[Len(Below)].op)
<1> DEFINE L == Len(stack)
<1>1. stack \in Seq(Frame) /\ L \in Nat /\ L > 0 BY TypesOfTop DEF FramesOK
<1>2. L # 1 BY DEF FramesOK, Top
<1>3. L - 1 \in Nat /\ L - 1 > 0 /\ 1 \in 1..L
    <2> HIDE DEF L
    <2> QED BY <1>1, <1>2
<1>4. /\ Below \in Seq(Frame) /\ Len(Below) = L - 1
      /\ \A i \in 1..L - 1 : Below[i] = stack[i]
    BY <1>1, <1>3 DEF Below
<1>5. \A i \in 1..L - 1 : i \in 1..L /\ i < L BY <1>1
<1>6. \A i \in 1..L - 1 : Len(Below[i].outs) < Arity(Below[i].op)
    BY <1>4, <1>5 DEF FramesOK
<1>7. \A i \in 1..L - 1 : Len(Below[i].outs) <= Arity(Below[i].op)
    <2>1. TAKE i \in 1..L - 1
    <2>2. i \in 1..L /\ i < L /\ Below[i] = stack[i] BY <1>4, <1>5
    <2> QED BY <2>2 DEF FramesOK
<1>8. Below # << >> /\ L - 1 \in 1..L - 1 /\ 1 \in 1..L - 1 BY <1>3, <1>4
<1>9. Below[1].op = "stm" BY <1>1, <1>4, <1>8 DEF FramesOK
<1> HIDE DEF L
<1> QED BY <1>3, <1>4, <1>6, <1>7, <1>8, <1>9 DEF FramesOK, L

\* An operand is made for the top frame.
LEMMA TypesMade ==
    ASSUME ContextAssumption, TInv, Generating, NEW a \in Effect, NEW out \in Access,
           stack' = WithOperand(stack, a, out), callee' = callee,
           expr_depth' = expr_depth \/ expr_depth' = expr_depth + 1
    PROVE  TInv'
<1>1. FramesOK(stack) /\ stack # << >> /\ Len(stack) \in Nat BY TypesOfTop DEF TInv, Generating
<1>2. Len(Top.outs) < Arity(Top.op) /\ Len(Top.outs) \in Nat
    BY <1>1, TypesOfTop DEF Generating, Top
<1>3. /\ FramesOK(stack') /\ Len(stack') = Len(stack) /\ stack' # << >>
      /\ Len(stack'[Len(stack')].outs) = Len(Top.outs) + 1
    BY <1>1, <1>2, TypesGiven DEF Top
<1>4. /\ expr_depth \in Nat
      /\ Bounded(expr_depth, Len(stack), Len(Top.outs))
    BY <1>1 DEF TInv, DepthOK
<1>5. /\ expr_depth' \in Nat
      /\ Bounded(expr_depth', Len(stack), Len(Top.outs) + 1)
    BY <1>1, <1>2, <1>4, DepthSum
<1>6. DepthOK' BY <1>3, <1>5 DEF DepthOK, Top
<1> QED BY <1>3, <1>6 DEF TInv

\* The top frame becomes an operand of the one below, and may count for one more.
LEMMA TypesLeft ==
    ASSUME ContextAssumption, TInv, Complete, Top.op # "stm", callee' \in Functions,
           NEW a \in Effect, NEW out \in Access, Leave(a, out)
    PROVE  TInv'
<1>1. FramesOK(stack) /\ stack # << >> /\ Len(stack) \in Nat BY TypesOfTop DEF TInv, Complete
<1>2. /\ FramesOK(Below) /\ Below # << >> /\ Len(Below) = Len(stack) - 1 /\ Len(Below) > 0
      /\ Len(Below[Len(Below)].outs) < Arity(Below[Len(Below)].op)
    BY <1>1, TypesBelow
<1>3. Len(Below[Len(Below)].outs) \in Nat BY <1>2, TypesOfTop
<1>4. /\ FramesOK(stack') /\ Len(stack') = Len(stack) - 1 /\ stack' # << >>
      /\ Len(stack'[Len(stack')].outs) = Len(Below[Len(Below)].outs) + 1
    BY <1>2, TypesGiven DEF Leave
<1>5. Len(Top.outs) \in Nat /\ Len(Top.outs) <= 2
    BY <1>1, TypesOfTop DEF Top
<1>6. /\ expr_depth \in Nat
      /\ Bounded(expr_depth, Len(stack), Len(Top.outs))
    BY <1>1 DEF TInv, DepthOK
<1>7. expr_depth' = expr_depth \/ expr_depth' = expr_depth + 1 BY DEF Leave
<1>8. /\ expr_depth' \in Nat
      /\ Bounded(expr_depth', Len(stack) - 1, Len(Below[Len(Below)].outs) + 1)
    <2>1. Len(stack) \in Nat /\ Len(Top.outs) \in Nat /\ Len(Top.outs) <= 2 BY <1>1, <1>5
    <2>2. /\ Bounded(expr_depth, Len(stack) - 1, Len(Below[Len(Below)].outs) + 1)
          /\ Bounded(expr_depth + 1, Len(stack) - 1, Len(Below[Len(Below)].outs) + 1)
        BY <1>3, <1>6, <2>1, DepthSum
    <2>3. expr_depth' \in Nat BY <1>6, <1>7
    <2> QED BY <1>7, <2>2, <2>3
<1>9. DepthOK' BY <1>4, <1>8 DEF DepthOK, Top
<1>10. Len(stack') <= MaxDepth BY <1>1, <1>4 DEF TInv, ContextAssumption
<1> QED BY <1>4, <1>9, <1>10 DEF TInv

LEMMA TypesEntered ==
    ASSUME ContextAssumption, TInv, NEW op \in Ops \ {"stm"}, NEW target \in SUBSET Var,
           Enter(op, target)
    PROVE  TInv'
<1> DEFINE ctx == Copied(OperandContext(Top))
           nx == [op |-> op, ctx |-> ctx, accum |-> OperandAccum(Top), run |-> ctx,
                  outs |-> << >>, target |-> target,
                  kept |-> IF op \in Calls THEN OperandAccum(Top) ELSE NoEffect]
           L == Len(stack)
           gs == Append(stack, nx)
<1>1. /\ FramesOK(stack) /\ stack # << >> /\ L < MaxDepth /\ stack' = gs
      /\ expr_depth' = expr_depth /\ callee' = callee /\ DepthLeft(op) /\ Generating
    BY DEF Enter, ExpressionWanted, Generating, TInv
<1>2. stack \in Seq(Frame) /\ L \in Nat /\ L \in 1..L /\ Top \in Frame
    BY <1>1, TypesOfTop DEF FramesOK, Top
<1>3. OperandContext(Top) \in Effect /\ OperandAccum(Top) \in Effect BY <1>2, ContextTypes
<1>4. ctx \in Effect BY <1>3 DEF Copied, Effect
<1> HIDE DEF ctx
<1>5. NoEffect \in Effect /\ << >> \in Seq(Access) BY DEF NoEffect, Effect
<1>6. nx \in Frame BY <1>3, <1>4, <1>5 DEF Frame
<1>7. nx.outs = << >> /\ nx.op = op OBVIOUS
<1> HIDE DEF nx
<1>8. /\ gs \in Seq(Frame) /\ Len(gs) = L + 1 /\ gs[L + 1] = nx
      /\ \A i \in 1..L : gs[i] = stack[i]
    BY <1>2, <1>6
<1> HIDE DEF gs, L
<1>9. \A i \in 1..L + 1 : /\ Len(gs[i].outs) <= Arity(gs[i].op)
                          /\ i < L + 1 => Len(gs[i].outs) < Arity(gs[i].op)
    <2>1. TAKE i \in 1..L + 1
    <2>2. CASE i = L + 1
        <3>1. Len(gs[i].outs) = 0 /\ Arity(gs[i].op) \in {1, 2} BY <1>7, <1>8, <2>2 DEF Arity
        <3> QED BY <1>2, <2>2, <3>1
    <2>3. CASE i = L
        <3>1. gs[i] = Top BY <1>2, <1>8, <2>3 DEF Top, L
        <3>2. Len(Top.outs) < Arity(Top.op) BY <1>1 DEF Generating
        <3>3. Len(Top.outs) \in Nat /\ Arity(Top.op) \in {1, 2}
            BY <1>1, TypesOfTop DEF Top
        <3> QED BY <3>1, <3>2, <3>3
    <2>4. CASE i # L /\ i # L + 1
        <3>1. i \in 1..L /\ i < L BY <1>2, <2>4
        <3>2. Len(stack[i].outs) <= Arity(stack[i].op) /\ Len(stack[i].outs) < Arity(stack[i].op)
            BY <1>1, <3>1 DEF FramesOK, L
        <3> QED BY <1>8, <3>1, <3>2
    <2> QED BY <2>2, <2>3, <2>4
<1>10. gs # << >> /\ gs[1].op = "stm"
    <2>1. 1 \in 1..L /\ stack[1].op = "stm" BY <1>1, <1>2 DEF FramesOK
    <2> QED BY <1>2, <1>8, <2>1
<1>11. FramesOK(gs) BY <1>8, <1>9, <1>10 DEF FramesOK
<1>12. /\ expr_depth \in Nat
       /\ Bounded(expr_depth, L + 1, 0)
    <2>1. expr_depth \in Nat BY DEF TInv, DepthOK
    <2>2. expr_depth <= MaxExprDepth
        BY <1>1, <2>1 DEF DepthLeft, ContextAssumption
    <2>3. MaxDepth - (L + 1) \in Nat BY <1>1, <1>2 DEF ContextAssumption
    <2> QED BY <2>1, <2>2, <2>3 DEF ContextAssumption, Bounded
<1>13. Len(gs[Len(gs)].outs) = 0 BY <1>7, <1>8
<1>14. DepthOK' BY <1>1, <1>8, <1>10, <1>12, <1>13 DEF DepthOK, Top
<1>15. Len(gs) <= MaxDepth BY <1>1, <1>2, <1>8 DEF ContextAssumption
<1> QED BY <1>1, <1>11, <1>14, <1>15 DEF TInv

\* What the callee's body and its effects are made of.
LEMMA TypesCallee ==
    ASSUME NEW c \in Effect, NEW e \in Effect, NEW chain
    PROVE  AddExternalEffect(c, e, chain) \in Effect
BY DEF AddExternalEffect, Effect

LEMMA TypesBody ==
    /\ \A body \in Named : body \in Access
    /\ \A far \in Pointed : far \in Access
    /\ \A a, b \in Access : Both(a, b) \in Access /\ EffectOf(Both(a, b)) \in Effect
<1>1. \A body \in Named : body \in Access BY DEF Named, Access, Var
<1>2. NoAccess = [r |-> {}, w |-> {}, dw |-> {}, at |-> {}] BY DEF NoAccess
<1>3. ASSUME NEW v \in Var
      PROVE  /\ [NoAccess EXCEPT !.r = {v}] \in Access
             /\ [NoAccess EXCEPT !.r = {v}, !.w = {v}] \in Access
    <2>1. [NoAccess EXCEPT !.r = {v}] = [r |-> {v}, w |-> {}, dw |-> {}, at |-> {}]
        BY <1>2
    <2>2. [NoAccess EXCEPT !.r = {v}, !.w = {v}] = [r |-> {v}, w |-> {v}, dw |-> {}, at |-> {}]
        <3>1. [NoAccess EXCEPT !.r = {v}, !.w = {v}]
                  = [[NoAccess EXCEPT !.r = {v}] EXCEPT !.w = {v}]
            OBVIOUS
        <3>2. \A x : x = [r |-> {v}, w |-> {}, dw |-> {}, at |-> {}]
                      => [x EXCEPT !.w = {v}] = [r |-> {v}, w |-> {v}, dw |-> {}, at |-> {}]
            OBVIOUS
        <3> QED BY <2>1, <3>1, <3>2
    <2> QED BY <2>1, <2>2 DEF Access
<1>4. NoAccess \in Access BY <1>2 DEF Access
<1>5. \A far \in Pointed : far \in Access BY <1>3, <1>4 DEF Pointed
<1>6. \A a, b \in Access : Both(a, b) \in Access BY DEF Both, Access
<1>7. \A a, b \in Access : EffectOf(Both(a, b)) \in Effect
    BY <1>6, EffectOfFields DEF Access
<1> QED BY <1>1, <1>5, <1>6, <1>7

LEMMA TypesNext ==
    ASSUME ContextAssumption, TInv, [Next]_vars PROVE TInv'
<1>1. CASE UNCHANGED vars BY <1>1 DEF vars, TInv, DepthOK, Top
<1>2. NoEffect \in Effect /\ NoAccess \in Access /\ << >> \in Seq(Access)
    BY DEF NoEffect, Effect, NoAccess, Access
<1>3. CASE StartStatement
    <2> DEFINE fr == [op |-> "stm", ctx |-> NoEffect, accum |-> NoEffect, run |-> NoEffect,
                      kept |-> NoEffect, outs |-> << >>, target |-> {}]
    <2>1. stack' = << fr >> /\ expr_depth' = 0 /\ callee' = callee BY <1>3 DEF StartStatement
    <2>2. fr \in Frame /\ fr.op = "stm" /\ fr.outs = << >> BY <1>2 DEF Frame, Ops
    <2> HIDE DEF fr
    <2>3. << fr >> \in Seq(Frame) /\ Len(<< fr >>) = 1 /\ << fr >>[1] = fr BY <2>2
    <2>4. FramesOK(<< fr >>) BY <2>2, <2>3 DEF FramesOK, Arity
    <2>5. stack' # << >> /\ Len(stack'[Len(stack')].outs) = 0 BY <2>1, <2>2, <2>3
    <2>6. MaxDepth - 1 \in Nat /\ 1 <= MaxDepth BY DEF ContextAssumption
    <2>7. Bounded(0, 1, 0) BY <2>6 DEF ContextAssumption, Bounded
    <2>8. DepthOK' BY <2>1, <2>3, <2>5, <2>7 DEF DepthOK, Top
    <2> QED BY <2>1, <2>3, <2>4, <2>6, <2>8 DEF TInv
<1>4. CASE EndStatement
    <2>1. FramesOK(<< >>) BY DEF FramesOK
    <2>2. stack' = << >> /\ expr_depth' = 0 /\ callee' = callee BY <1>4 DEF EndStatement
    <2>3. Len(<< >>) <= MaxDepth BY DEF ContextAssumption
    <2> QED BY <2>1, <2>2, <2>3 DEF TInv, DepthOK
<1>5. ASSUME stack # << >>
      PROVE  /\ Top \in Frame /\ OperandAccum(Top) \in Effect /\ AllOf(Top.outs) \in Access
             /\ Top.ctx \in Effect /\ Top.accum \in Effect /\ Top.kept \in Effect
             /\ Top.target \in SUBSET Var
             /\ \A k \in 1..Len(Top.outs) : Top.outs[k] \in Access
             /\ Arity(Top.op) = 2 => (Complete => Top.outs[2] \in Access)
    <2>1. /\ Top \in Frame /\ AllOf(Top.outs) \in Access /\ Len(Top.outs) \in Nat
          /\ \A k \in 1..Len(Top.outs) : Top.outs[k] \in Access
        BY <1>5, TypesOfTop DEF TInv, Top
    <2>2. OperandAccum(Top) \in Effect BY <2>1, ContextTypes
    <2>3. Arity(Top.op) = 2 => (Complete => Top.outs[2] \in Access)
        BY <2>1 DEF Complete
    <2> QED BY <2>1, <2>2, <2>3 DEF Frame
<1>6. CASE MakeConstant
    <2>1. Generating /\ stack # << >> BY <1>6 DEF MakeConstant, ExpressionWanted, Generating
    <2> QED BY <1>2, <1>5, <1>6, <2>1, TypesMade DEF MakeConstant
<1>7. CASE MakeVariable
    <2>1. Generating /\ stack # << >> BY <1>7 DEF MakeVariable, ExpressionWanted, Generating
    <2>2. PICK v \in Var, p \in Var :
              stack' = WithOperand(stack,
                          [OperandAccum(Top) EXCEPT !.read = @ \cup {v, p}],
                          [NoAccess EXCEPT !.r = {v, p}])
        BY <1>7 DEF MakeVariable
    <2>3. [OperandAccum(Top) EXCEPT !.read = @ \cup {v, p}] \in Effect
        BY <1>5, <2>1 DEF Effect
    <2>4. [NoAccess EXCEPT !.r = {v, p}] \in Access BY DEF NoAccess, Access
    <2> QED BY <1>7, <2>1, <2>2, <2>3, <2>4, TypesMade DEF MakeVariable
<1>8. CASE MakeLhs
    <2>1. Generating /\ stack # << >> /\ expr_depth' = expr_depth /\ callee' = callee
        BY <1>8 DEF MakeLhs, Generating
    <2>2. CASE stack' = WithOperand(stack, NoEffect, NoAccess)
        BY <1>2, <2>1, <2>2, TypesMade
    <2>3. ASSUME NEW v \in Var, NEW P \in SUBSET Var, NEW rs,
                 rs = P \cup (IF Top.op = "compound" THEN {v} ELSE {}),
                 stack' = WithOperand(stack,
                             [read |-> rs, write |-> {v}, lhs_write |-> {v}],
                             [r |-> rs, w |-> {v}, dw |-> {v}, at |-> {}])
          PROVE  TInv'
        <3>1. rs \in SUBSET Var BY <2>3
        <3>2. /\ [read |-> rs, write |-> {v}, lhs_write |-> {v}] \in Effect
              /\ [r |-> rs, w |-> {v}, dw |-> {v}, at |-> {}] \in Access
            BY <3>1 DEF Effect, Access
        <3> QED BY <2>1, <2>3, <3>2, TypesMade
    <2> QED BY <1>8, <2>2, <2>3 DEF MakeLhs
<1>9. ASSUME NEW op \in Ops \ {"stm"}, NEW target \in SUBSET Var, Enter(op, target)
      PROVE  TInv'
    BY <1>9, TypesEntered
<1>10. CASE EnterOperator
    <2>1. {"binary", "ordered", "comma"} \cup Assigns \subseteq Ops \ {"stm"}
        BY DEF Ops, Assigns, Unordered
    <2> QED BY <1>9, <1>10, <2>1 DEF EnterOperator
<1>11. CASE EnterIntrinsic
    <2>1. "shuffle" \in Ops \ {"stm"} /\ "vector" \in Ops \ {"stm"} BY DEF Ops, Unordered
    <2> QED BY <1>9, <1>11, <2>1 DEF EnterIntrinsic
<1>12. CASE EnterAtomic
    <2>1. "atomic" \in Ops \ {"stm"} BY DEF Ops
    <2> QED BY <1>9, <1>12, <2>1 DEF EnterAtomic
<1>13. CASE EnterCall
    <2>1. "new" \in Ops \ {"stm"} /\ "old" \in Ops \ {"stm"} BY DEF Ops, Unordered
    <2> QED BY <1>9, <1>13, <2>1 DEF EnterCall
<1>14. ASSUME Complete, Top.op # "stm", callee' \in Functions, NEW a \in Effect,
              NEW out \in Access, Leave(a, out)
       PROVE  TInv'
    BY <1>14, TypesLeft
<1>15. CASE LeaveOperator
    <2>1. /\ stack # << >> /\ Complete /\ Top.op # "stm" /\ callee' \in Functions
          /\ Top.op \in {"binary", "ordered", "comma", "shuffle", "vector"} \cup Assigns
        BY <1>15 DEF LeaveOperator, Complete, Assigns, TInv
    <2>2. Arity(Top.op) = 2 BY <2>1 DEF Arity, Assigns
    <2>3. Top.outs[2] \in Access /\ AllOf(Top.outs) \in Access /\ Top.accum \in Effect
        BY <1>5, <2>1, <2>2
    <2> DEFINE all == AllOf(Top.outs)
    <2>4. Leave(Top.accum,
                CASE Top.op \in {"ordered", "comma"} -> [all EXCEPT !.dw = Top.outs[2].dw]
                  [] Top.op \in {"shuffle", "vector"} -> [all EXCEPT !.dw = {}]
                  [] OTHER -> all)
        BY <1>15 DEF LeaveOperator
    <2> HIDE DEF all
    <2>5. /\ [all EXCEPT !.dw = Top.outs[2].dw] \in Access /\ [all EXCEPT !.dw = {}] \in Access
          /\ all \in Access
        BY <2>3 DEF all, Access
    <2>6. CASE Top.op \in {"ordered", "comma"} BY <1>14, <2>1, <2>3, <2>4, <2>5, <2>6
    <2>7. CASE Top.op \in {"shuffle", "vector"} BY <1>14, <2>1, <2>3, <2>4, <2>5, <2>7
    <2>8. CASE Top.op \notin {"ordered", "comma", "shuffle", "vector"}
        BY <1>14, <2>1, <2>3, <2>4, <2>5, <2>8
    <2> QED BY <2>6, <2>7, <2>8
<1>16. CASE LeaveAtomic
    <2>1. stack # << >> /\ Complete /\ Top.op # "stm" /\ callee' \in Functions
        BY <1>16 DEF LeaveAtomic, Complete, TInv
    <2> DEFINE all == AllOf(Top.outs)
    <2>2. all \in Access /\ Top.target \in SUBSET Var /\ Top.accum \in Effect BY <1>5, <2>1
    <2>3. Leave(Top.accum, [all EXCEPT !.at = @ \cup Top.target, !.dw = {}])
        BY <1>16 DEF LeaveAtomic
    <2> HIDE DEF all
    <2>4. [all EXCEPT !.at = @ \cup Top.target, !.dw = {}] \in Access
        BY <2>2 DEF Access
    <2> QED BY <1>14, <2>1, <2>2, <2>3, <2>4
<1>17. CASE LeaveNewCall
    <2>1. stack # << >> /\ Complete /\ Top.op # "stm" BY <1>17 DEF LeaveNewCall, Complete
    <2>2. PICK body \in Named, ptr \in BOOLEAN, far \in Pointed :
              /\ Leave(AddExternalEffect(Top.accum, EffectOf(Both(body, far)), Locals),
                       CallAccess(Both(body, far)))
              /\ callee' = [known |-> TRUE, body |-> body, ptr |-> ptr,
                        feffect |-> AddExternalEffect(NoEffect, EffectOf(Both(body, far)), {}),
                        seen |-> AddExternalEffect(NoEffect, Top.ctx, {})]
        BY <1>17 DEF LeaveNewCall
    <2>3. Both(body, far) \in Access /\ EffectOf(Both(body, far)) \in Effect /\ body \in Access
        BY TypesBody
    <2>4. CallAccess(Both(body, far)) \in Access
        BY <1>5, <2>1, <2>3, TypesBody DEF CallAccess
    <2>5. /\ AddExternalEffect(Top.accum, EffectOf(Both(body, far)), Locals) \in Effect
          /\ AddExternalEffect(NoEffect, EffectOf(Both(body, far)), {}) \in Effect
          /\ AddExternalEffect(NoEffect, Top.ctx, {}) \in Effect
        BY <1>2, <1>5, <2>1, <2>3, TypesCallee
    <2>6. callee' \in Functions BY <2>2, <2>3, <2>5 DEF Functions
    <2> QED BY <1>14, <2>1, <2>2, <2>4, <2>5, <2>6
<1>18. CASE LeaveOldCall
    <2>1. stack # << >> /\ Complete /\ Top.op # "stm" BY <1>18 DEF LeaveOldCall, Complete
    <2>2. /\ callee \in Functions /\ callee.body \in Access
          /\ callee.feffect \in Effect /\ callee.seen \in Effect
        BY DEF TInv, Functions
    <2>3. CASE callee.ptr
        <3>1. PICK far \in Pointed :
                  /\ Leave(AddExternalEffect(Top.accum, EffectOf(Both(callee.body, far)), Locals),
                           CallAccess(Both(callee.body, far)))
                  /\ callee' = [callee EXCEPT
                         !.feffect = AddExternalEffect(@, EffectOf(Both(callee.body, far)), {}),
                         !.seen = AddExternalEffect(@, VisitContext, {})]
            BY <1>18, <2>3 DEF LeaveOldCall
        <3>2. /\ Both(callee.body, far) \in Access
              /\ EffectOf(Both(callee.body, far)) \in Effect
            BY <2>2, TypesBody
        <3>3. CallAccess(Both(callee.body, far)) \in Access
            BY <1>5, <2>1, <3>2, TypesBody DEF CallAccess
        <3>4. VisitContext \in Effect
            BY <1>5, <2>1, <2>2 DEF VisitContext, AddEffect, Effect
        <3> DEFINE f == AddExternalEffect(callee.feffect, EffectOf(Both(callee.body, far)), {})
                   s == AddExternalEffect(callee.seen, VisitContext, {})
        <3>5. /\ AddExternalEffect(Top.accum, EffectOf(Both(callee.body, far)), Locals) \in Effect
              /\ f \in Effect /\ s \in Effect
            BY <1>5, <2>1, <2>2, <3>2, <3>4, TypesCallee
        <3>6. callee' = [callee EXCEPT !.feffect = f, !.seen = s] BY <3>1
        <3> HIDE DEF f, s
        <3>7. callee' \in Functions BY <2>2, <3>5, <3>6 DEF Functions
        <3> QED BY <1>14, <2>1, <3>1, <3>3, <3>5, <3>7
    <2>4. CASE ~callee.ptr
        <3>1. /\ Leave(AddExternalEffect(Top.accum, callee.feffect, {}), CallAccess(callee.body))
              /\ callee' = callee
            BY <1>18, <2>4 DEF LeaveOldCall
        <3>2. CallAccess(callee.body) \in Access
            BY <1>5, <2>1, <2>2, TypesBody DEF CallAccess
        <3>3. AddExternalEffect(Top.accum, callee.feffect, {}) \in Effect
            BY <1>5, <2>1, <2>2, TypesCallee
        <3> QED BY <1>14, <2>1, <2>2, <3>1, <3>2, <3>3
    <2> QED BY <2>3, <2>4
<1>19. CASE FailOldCall
    <2>1. stack # << >> /\ Complete /\ Top.op # "stm" /\ callee' \in Functions
        BY <1>19 DEF FailOldCall, Complete, TInv
    <2>2. PICK R \in {{}} \cup {{v} : v \in Var} :
              Leave([Top.kept EXCEPT !.read = @ \cup R], [NoAccess EXCEPT !.r = R])
        BY <1>19 DEF FailOldCall
    <2>3. R \in SUBSET Var OBVIOUS
    <2>4. [Top.kept EXCEPT !.read = @ \cup R] \in Effect BY <1>5, <2>1, <2>3 DEF Effect
    <2>5. [NoAccess EXCEPT !.r = R] \in Access BY <2>3 DEF NoAccess, Access
    <2> QED BY <1>14, <2>1, <2>2, <2>4, <2>5
<1> QED BY <1>1, <1>3, <1>4, <1>6, <1>7, <1>8, <1>10, <1>11, <1>12, <1>13, <1>15, <1>16,
           <1>17, <1>18, <1>19 DEF Next

\* Statement::make_random resets expr_depth, and Expression::make_random enters no
\* operator once it is used up: what it counts stays within three per operator that was
\* open, with every option and any variables.
THEOREM TypesHold == Spec => []TypeOK
<1>1. Init => TInv
    <2>1. SUFFICES ASSUME Init PROVE TInv OBVIOUS
    <2>2. NotMade \in Functions
        BY DEF NotMade, Functions, NoAccess, NoEffect, Access, Effect
    <2>3. FramesOK(<< >>) /\ Len(<< >>) <= MaxDepth
        BY ContextAssumption DEF FramesOK, ContextAssumption
    <2> QED BY <2>1, <2>2, <2>3 DEF Init, TInv, DepthOK
<1>2. TInv /\ [Next]_vars => TInv' BY TypesNext, ContextAssumption
<1>3. TInv => TypeOK
    <2>1. SUFFICES ASSUME TInv PROVE TypeOK OBVIOUS
    <2>2. CASE stack = << >>
        BY <2>1, <2>2, ContextAssumption DEF TInv, DepthOK, TypeOK, FramesOK, ContextAssumption
    <2>3. CASE stack # << >>
        <3>1. Len(stack) \in Nat /\ Len(stack) > 0 /\ Len(Top.outs) \in Nat /\ Len(Top.outs) <= 2
            BY <2>1, <2>3, TypesOfTop DEF TInv, Top
        <3>2. /\ expr_depth \in Nat /\ Len(stack) <= MaxDepth
              /\ Bounded(expr_depth, Len(stack), Len(Top.outs))
            BY <2>1, <2>3 DEF TInv, DepthOK
        <3>3. expr_depth \in 0..MaxExprDepth + 3 * MaxDepth
            BY <3>1, <3>2, ContextAssumption, DepthSum
        <3> QED BY <2>1, <3>2, <3>3 DEF TInv, TypeOK, FramesOK
    <2> QED BY <2>2, <2>3
<1> QED BY <1>1, <1>2, <1>3, PTL DEF Spec

-----------------------------------------------------------------------------
(* The facts about pointers and unions.                                    *)

\* What the facts say of one variable is so.
Tells(v, a, mem) == IF v \in Unions THEN a \in {BOTTOM, mem[v]} ELSE mem[v] \in a

\* A use of one of the variables, dereferenced no more often than its type allows.
Legal(u) == u \in Uses /\ UseLevel(u) >= 0

-----------------------------------------------------------------------------
(* Variables and their kinds.                                              *)

LEMMA KindsApart ==
    /\ Pointers \cap Unions = {} /\ Pointers \subseteq Vars /\ Unions \subseteq Vars
    /\ null_ptr \notin Vars /\ garbage_ptr \notin Vars /\ null_ptr # garbage_ptr
    /\ \A v \in Vars : Level[v] \in -1..2
    /\ \A p \in Pointers : Level[p] \in {1, 2}
<1>1. \A v \in Vars : Level[v] \in -1..2 BY FactsAssumption DEF FactsAssumption
<1>2. null_ptr \notin Vars /\ garbage_ptr \notin Vars
    BY FactsAssumption DEF FactsAssumption, SpecialPtrs
<1>3. null_ptr # garbage_ptr BY DEF null_ptr, garbage_ptr
<1>4. \A p \in Pointers : Level[p] \in {1, 2} BY <1>1 DEF Pointers
<1> QED BY <1>1, <1>2, <1>3, <1>4 DEF Pointers, Unions

\* What a pointer holds, when it is neither null nor dead, is one level below it.
LEMMA BelowPointer ==
    ASSUME NEW p \in Pointers, NEW w \in PointsTo(p), w \notin SpecialPtrs
    PROVE  w \in Vars /\ Level[w] = Level[p] - 1 /\ (Level[p] = 2 => w \in Pointers)
<1>1. w \in Vars /\ Level[w] = Level[p] - 1 BY DEF PointsTo
<1> QED BY <1>1 DEF Pointers

-----------------------------------------------------------------------------
(* The lattice.                                                            *)

LEMMA JoinTells ==
    ASSUME NEW v, NEW a, NEW b, NEW mem
    PROVE  /\ Tells(v, a, mem) => Tells(v, join(v, a, b), mem)
           /\ Tells(v, b, mem) => Tells(v, join(v, a, b), mem)
BY DEF Tells, join

\* The lattice of facts: to imply is a partial order on the facts of a variable, join
\* gives their least upper bound, and a fact implied by one that is so is so itself --
\* what the comparison of two visits (subset_facts) and the shortcuts rest on.
THEOREM Lattice ==
    ASSUME NEW v, NEW a, NEW b, NEW c,
           v \notin Unions => a \in SUBSET (Vars \cup SpecialPtrs)
                              /\ b \in SUBSET (Vars \cup SpecialPtrs)
                              /\ c \in SUBSET (Vars \cup SpecialPtrs)
    PROVE  /\ imply(v, a, a)
           /\ imply(v, a, b) /\ imply(v, b, a) => a = b
           /\ imply(v, a, b) /\ imply(v, b, c) => imply(v, a, c)
           /\ imply(v, join(v, a, b), a) /\ imply(v, join(v, a, b), b)
           /\ imply(v, c, a) /\ imply(v, c, b) => imply(v, c, join(v, a, b))
           /\ \A mem : Tells(v, b, mem) /\ imply(v, a, b) => Tells(v, a, mem)
<1>1. CASE v \in Unions BY <1>1 DEF imply, join, Tells
<1>2. CASE v \notin Unions BY <1>2 DEF imply, join, Tells
<1> QED BY <1>1, <1>2

LEMMA DescribesTells ==
    ASSUME NEW facts, NEW mem
    PROVE  Describes(facts, mem) <=> \A v \in DOMAIN facts : Tells(v, facts[v], mem)
BY DEF Describes, Tells

LEMMA JoinFits ==
    ASSUME NEW p \in Pointers, NEW a, NEW b
    PROVE  join(p, a, b) = a \cup b
BY KindsApart DEF join

\* Where two flows of control meet, what describes memory on the one that was taken
\* describes it after merge_facts -- if the facts of a variable that only the other flow
\* knows are so as well -- and after merge_jump_facts whether the jump was taken or not:
\* a pointer the jump does not know dangles after it.
THEOREM MergesDescribe ==
    ASSUME NEW facts, NEW more, NEW mem, FactsFit(facts), FactsFit(more)
    PROVE  /\ FactsFit(merge_facts(facts, more))
           /\ \/ /\ Describes(facts, mem)
                 /\ \A v \in DOMAIN more \ DOMAIN facts : Tells(v, more[v], mem)
              \/ /\ Describes(more, mem)
                 /\ \A v \in DOMAIN facts \ DOMAIN more : Tells(v, facts[v], mem)
              => Describes(merge_facts(facts, more), mem)
           /\ Describes(facts, mem) => Describes(merge_jump_facts(facts, more), mem)
           /\ /\ Describes(more, mem)
              /\ \A p \in (DOMAIN facts \ DOMAIN more) \cap Pointers : mem[p] = garbage_ptr
              => Describes(merge_jump_facts(facts, more), mem)
           /\ (\A p \in DOMAIN facts \cap DOMAIN more \cap Pointers :
                  more[p] \cap Pointers \subseteq DOMAIN facts)
              => FactsFit(merge_jump_facts(facts, more))
<1> DEFINE m == merge_facts(facts, more)
           j == merge_jump_facts(facts, more)
<1>1. DOMAIN m = DOMAIN facts \cup DOMAIN more BY DEF merge_facts
<1>2. \A v \in DOMAIN m : m[v] = IF v \notin DOMAIN more THEN facts[v]
                                 ELSE IF v \notin DOMAIN facts THEN more[v]
                                 ELSE join(v, facts[v], more[v])
    BY DEF merge_facts
<1>3. DOMAIN j = DOMAIN facts BY DEF merge_jump_facts
<1>4. \A v \in DOMAIN j :
        j[v] = join(v, facts[v], IF v \in DOMAIN more THEN more[v] ELSE Unknown(v))
    BY DEF merge_jump_facts
<1> HIDE DEF m, j
<1>5. FactsFit(m)
    <2>1. DOMAIN m \subseteq Pointers \cup Unions BY <1>1 DEF FactsFit
    <2>2. ASSUME NEW p \in DOMAIN m \cap Pointers
          PROVE  m[p] # {} /\ m[p] \subseteq PointsTo(p) /\ m[p] \cap Pointers \subseteq DOMAIN m
        <3>1. CASE p \notin DOMAIN more BY <1>1, <1>2, <3>1 DEF FactsFit
        <3>2. CASE p \notin DOMAIN facts BY <1>1, <1>2, <3>2 DEF FactsFit
        <3>3. CASE p \in DOMAIN facts /\ p \in DOMAIN more
            <4>1. m[p] = facts[p] \cup more[p] BY <1>2, <3>3, JoinFits
            <4> QED BY <1>1, <3>3, <4>1 DEF FactsFit
        <3> QED BY <3>1, <3>2, <3>3
    <2> QED BY <2>1, <2>2 DEF FactsFit
<1>6. ASSUME Describes(facts, mem), \A v \in DOMAIN more \ DOMAIN facts : Tells(v, more[v], mem)
      PROVE  Describes(m, mem)
    <2>1. ASSUME NEW v \in DOMAIN m PROVE Tells(v, m[v], mem)
        <3>1. CASE v \notin DOMAIN more BY <1>1, <1>2, <1>6, <3>1, DescribesTells
        <3>2. CASE v \notin DOMAIN facts BY <1>1, <1>2, <1>6, <3>2
        <3>3. CASE v \in DOMAIN facts /\ v \in DOMAIN more
            BY <1>2, <1>6, <3>3, DescribesTells, JoinTells
        <3> QED BY <3>1, <3>2, <3>3
    <2> QED BY <2>1, DescribesTells
<1>7. ASSUME Describes(more, mem), \A v \in DOMAIN facts \ DOMAIN more : Tells(v, facts[v], mem)
      PROVE  Describes(m, mem)
    <2>1. ASSUME NEW v \in DOMAIN m PROVE Tells(v, m[v], mem)
        <3>1. CASE v \notin DOMAIN more BY <1>1, <1>2, <1>7, <3>1
        <3>2. CASE v \notin DOMAIN facts BY <1>1, <1>2, <1>7, <3>2, DescribesTells
        <3>3. CASE v \in DOMAIN facts /\ v \in DOMAIN more
            BY <1>2, <1>7, <3>3, DescribesTells, JoinTells
        <3> QED BY <3>1, <3>2, <3>3
    <2> QED BY <2>1, DescribesTells
<1>8. Describes(facts, mem) => Describes(j, mem)
    BY <1>3, <1>4, DescribesTells, JoinTells
<1>9. ASSUME Describes(more, mem),
             \A p \in (DOMAIN facts \ DOMAIN more) \cap Pointers : mem[p] = garbage_ptr
      PROVE  Describes(j, mem)
    <2>1. ASSUME NEW v \in DOMAIN j PROVE Tells(v, j[v], mem)
        <3>1. CASE v \in DOMAIN more BY <1>4, <1>9, <3>1, DescribesTells, JoinTells
        <3>2. CASE v \notin DOMAIN more
            <4>1. v \in Pointers \cup Unions BY <1>3 DEF FactsFit
            <4>2. Tells(v, Unknown(v), mem) BY <1>3, <1>9, <3>2, <4>1 DEF Tells, Unknown
            <4> QED BY <1>4, <3>2, <4>2, JoinTells
        <3> QED BY <3>1, <3>2
    <2> QED BY <2>1, DescribesTells
<1>10. ASSUME \A p \in DOMAIN facts \cap DOMAIN more \cap Pointers :
                 more[p] \cap Pointers \subseteq DOMAIN facts
       PROVE  FactsFit(j)
    <2>1. ASSUME NEW p \in DOMAIN j \cap Pointers
          PROVE  j[p] # {} /\ j[p] \subseteq PointsTo(p) /\ j[p] \cap Pointers \subseteq DOMAIN j
        <3>1. CASE p \in DOMAIN more
            <4>1. j[p] = facts[p] \cup more[p] BY <1>4, <3>1, JoinFits
            <4> QED BY <1>3, <1>10, <3>1, <4>1 DEF FactsFit
        <3>2. CASE p \notin DOMAIN more
            <4>1. j[p] = facts[p] \cup {garbage_ptr} BY <1>4, <3>2, JoinFits, KindsApart DEF Unknown
            <4>2. garbage_ptr \in PointsTo(p) /\ garbage_ptr \notin Pointers
                BY KindsApart DEF PointsTo, SpecialPtrs
            <4> QED BY <1>3, <4>1, <4>2 DEF FactsFit
        <3> QED BY <3>1, <3>2
    <2> QED BY <1>3, <2>1 DEF FactsFit
<1> QED BY <1>5, <1>6, <1>7, <1>8, <1>9, <1>10 DEF m, j

-----------------------------------------------------------------------------
(* Scopes.                                                                 *)

\* When variables leave their scope, facts and memory go on together: pointers to them
\* dangle, and the facts say so (mark_dead_var); no fact about them or leading to them
\* is left.
THEOREM ScopesDescribe ==
    ASSUME NEW facts, NEW mem, NEW dead \in SUBSET Vars, FactsFit(facts), MemFit(mem)
    PROVE  LET after == update_facts_for_oos_vars(dead, facts)
           IN  /\ FactsFit(after) /\ MemFit(Kill(mem, dead))
               /\ DOMAIN after \cap dead = {}
               /\ \A p \in DOMAIN after \cap Pointers : after[p] \cap dead = {}
               /\ Describes(facts, mem) => Describes(after, Kill(mem, dead))
<1> DEFINE after == update_facts_for_oos_vars(dead, facts)
           left == Kill(mem, dead)
<1>1. DOMAIN after = DOMAIN facts \ dead BY DEF update_facts_for_oos_vars
<1>2. \A u \in DOMAIN after \cap Unions : after[u] = facts[u]
    BY DEF update_facts_for_oos_vars
<1>3. \A u \in DOMAIN after \cap Pointers : after[u] = mark_dead_var(facts[u], dead)
    BY KindsApart DEF update_facts_for_oos_vars
<1>4. DOMAIN left = Pointers \cup Unions BY DEF Kill, MemFit
<1>5. \A u \in Unions \ dead : left[u] = mem[u] BY <1>4 DEF Kill
<1>6. \A p \in Pointers : left[p] = IF p \in dead \/ mem[p] \in dead THEN garbage_ptr ELSE mem[p]
    BY <1>4, KindsApart DEF Kill
<1> HIDE DEF after, left
<1>7. \A p \in Pointers : garbage_ptr \in PointsTo(p) BY DEF PointsTo, SpecialPtrs
<1>8. MemFit(left) BY <1>4, <1>6, <1>7 DEF MemFit
<1>9. \A p \in DOMAIN after \cap Pointers :
        /\ after[p] # {} /\ after[p] \subseteq facts[p] \cup {garbage_ptr}
        /\ after[p] \cap dead = {}
        /\ \A w \in facts[p] \ dead : w \in after[p]
        /\ (\E w \in facts[p] : w \in dead) => garbage_ptr \in after[p]
    <2> SUFFICES ASSUME NEW p \in DOMAIN after \cap Pointers
                 PROVE  /\ after[p] # {} /\ after[p] \subseteq facts[p] \cup {garbage_ptr}
                        /\ after[p] \cap dead = {}
                        /\ \A w \in facts[p] \ dead : w \in after[p]
                        /\ (\E w \in facts[p] : w \in dead) => garbage_ptr \in after[p]
        OBVIOUS
    <2>1. after[p] = IF facts[p] \cap dead = {} THEN facts[p]
                     ELSE (facts[p] \ dead) \cup {garbage_ptr}
        BY <1>3 DEF mark_dead_var
    <2>2. facts[p] # {} BY <1>1 DEF FactsFit
    <2>3. garbage_ptr \notin dead BY KindsApart
    <2> QED BY <2>1, <2>2, <2>3
<1>10. FactsFit(after)
    <2>1. ASSUME NEW p \in DOMAIN after \cap Pointers
          PROVE  /\ after[p] # {} /\ after[p] \subseteq PointsTo(p)
                 /\ after[p] \cap Pointers \subseteq DOMAIN after
        <3>1. facts[p] \subseteq PointsTo(p) /\ facts[p] \cap Pointers \subseteq DOMAIN facts
            BY <1>1 DEF FactsFit
        <3>2. garbage_ptr \notin Pointers BY KindsApart
        <3> QED BY <1>1, <1>7, <1>9, <3>1, <3>2
    <2>2. DOMAIN after \subseteq Pointers \cup Unions BY <1>1 DEF FactsFit
    <2> QED BY <2>1, <2>2 DEF FactsFit
<1>11. ASSUME Describes(facts, mem) PROVE Describes(after, left)
    <2>1. ASSUME NEW v \in DOMAIN after PROVE Tells(v, after[v], left)
        <3>1. Tells(v, facts[v], mem) /\ v \notin dead BY <1>1, <1>11, DescribesTells
        <3>2. CASE v \in Unions BY <1>2, <1>5, <3>1, <3>2 DEF Tells
        <3>3. CASE v \in Pointers
            <4>1. mem[v] \in facts[v] BY <3>1, <3>3, KindsApart DEF Tells
            <4>2. left[v] \in after[v] BY <1>6, <1>9, <3>1, <3>3, <4>1
            <4> QED BY <3>3, <4>2, KindsApart DEF Tells
        <3> QED BY <1>1, <3>2, <3>3 DEF FactsFit
    <2> QED BY <2>1, DescribesTells
<1> QED BY <1>1, <1>8, <1>9, <1>10, <1>11 DEF after, left

-----------------------------------------------------------------------------
(* Dereferencing.                                                          *)

LEMMA Pointees ==
    ASSUME NEW ptrs, NEW facts, NEW x
    PROVE  x \in merge_pointees_of_pointers(ptrs, facts) <=>
             \E p \in ptrs : p \notin SpecialPtrs /\ p \in DOMAIN facts /\ x \in facts[p]
BY DEF merge_pointees_of_pointers

LEMMA LegalUse ==
    ASSUME NEW u, Legal(u), u.ind >= 0
    PROVE  /\ u.var \in Vars /\ u.ind \in 0..2
           /\ Level[u.var] \in u.ind..2
           /\ u.ind > 0 => u.var \in Pointers
           /\ UseLevel(u) = Level[u.var] - u.ind
<1>1. u.var \in Vars \cup {null_ptr} /\ u.ind \in -1..2 /\ (u.var = null_ptr => u.ind = -1)
    BY DEF Legal, Uses
<1>2. u.var \in Vars /\ u.var # null_ptr BY <1>1, KindsApart
<1>3. Level[u.var] \in -1..2 BY <1>2, KindsApart
<1>4. UseLevel(u) = Level[u.var] - u.ind BY <1>2 DEF UseLevel
<1>5. Level[u.var] - u.ind >= 0 BY <1>4 DEF Legal
<1>6. u.ind \in 0..2 /\ Level[u.var] \in u.ind..2 BY <1>1, <1>3, <1>5
<1>7. u.ind > 0 => u.var \in Pointers BY <1>2, <1>6 DEF Pointers
<1> QED BY <1>2, <1>4, <1>6, <1>7

\* What facts that describe memory give for a pointer followed n times covers where it
\* leads.
LEMMA DereferenceCovers ==
    ASSUME NEW facts, NEW mem, NEW v \in Pointers, FactsFit(facts), MemFit(mem),
           Describes(facts, mem), v \in DOMAIN facts
    PROVE  /\ mem[v] \in merge_pointees_of_pointer(v, 1, facts)
           /\ merge_pointees_of_pointer(v, 1, facts) = facts[v]
           /\ Level[v] = 2 /\ mem[v] \notin SpecialPtrs =>
                 /\ mem[v] \in DOMAIN facts \cap Pointers /\ Level[mem[v]] = 1
                 /\ mem[mem[v]] \in merge_pointees_of_pointer(v, 2, facts)
<1>1. merge_pointees_of_pointer(v, 1, facts) = merge_pointees_of_pointers({v}, facts)
      /\ merge_pointees_of_pointer(v, 2, facts) =
            merge_pointees_of_pointers(merge_pointees_of_pointers({v}, facts), facts)
    BY DEF merge_pointees_of_pointer
<1>2. v \notin SpecialPtrs BY KindsApart DEF SpecialPtrs
<1>3. \A x : x \in merge_pointees_of_pointers({v}, facts) <=> x \in facts[v]
    BY <1>2, Pointees
<1>4. merge_pointees_of_pointers({v}, facts) = facts[v]
    BY <1>2 DEF merge_pointees_of_pointers
<1>5. mem[v] \in facts[v] BY KindsApart DEF Describes
<1>6. ASSUME Level[v] = 2, mem[v] \notin SpecialPtrs
      PROVE  /\ mem[v] \in DOMAIN facts \cap Pointers /\ Level[mem[v]] = 1
             /\ mem[mem[v]] \in merge_pointees_of_pointer(v, 2, facts)
    <2>1. mem[v] \in PointsTo(v) BY DEF MemFit
    <2>2. mem[v] \in Pointers /\ Level[mem[v]] = 1 BY <1>6, <2>1, BelowPointer
    <2>3. mem[v] \in DOMAIN facts BY <1>5, <2>2 DEF FactsFit
    <2>4. mem[mem[v]] \in facts[mem[v]] BY <2>2, <2>3, KindsApart DEF Describes
    <2> QED BY <1>1, <1>4, <1>5, <1>6, <2>2, <2>3, <2>4, Pointees
<1> QED BY <1>1, <1>4, <1>5, <1>6

\* An access the analysis accepts (ExpressionVariable and Lhs::visit_facts) meets no null
\* and no dead pointer in any memory the facts describe, and a pointer it reads is not
\* dead.
THEOREM AccessesDefined ==
    ASSUME NEW facts, NEW mem, NEW u, Legal(u), FactsFit(facts), MemFit(mem),
           Describes(facts, mem), Knows(facts, u)
    PROVE  /\ LhsOk(u, facts) => Defined(mem, u)
           /\ RhsOk(u, facts) /\ u.ind >= 0 =>
                 Defined(mem, u) /\ (UseLevel(u) > 0 => Value(mem, u) # garbage_ptr)
<1>0. u.ind \in -1..2 BY DEF Legal, Uses
<1>1. ASSUME NEW w, w \in Pointers, w \in DOMAIN facts, check_read_var(w, facts)
      PROVE  mem[w] # garbage_ptr
    BY <1>1, KindsApart DEF check_read_var, is_dangling_ptr, Describes
<1>2. ASSUME u.ind > 0, is_valid_ptr(u.var, facts), u.ind \in 0..2,
             \A k \in 1..u.ind : merge_pointees_of_pointer(u.var, k, facts) \cap SpecialPtrs = {},
             u.var \in Pointers, Level[u.var] \in u.ind..2
      PROVE  Defined(mem, u)
    <2>1. u.var \in DOMAIN facts BY <1>2 DEF is_valid_ptr
    <2>2. mem[u.var] \in merge_pointees_of_pointer(u.var, 1, facts)
        BY <1>2, <2>1, DereferenceCovers
    <2>3. mem[u.var] \notin SpecialPtrs BY <1>2, <2>2
    <2>4. ASSUME u.ind = 2 PROVE mem[mem[u.var]] \notin SpecialPtrs
        <3>1. Level[u.var] = 2 BY <1>2, <2>4, KindsApart
        <3>2. mem[mem[u.var]] \in merge_pointees_of_pointer(u.var, 2, facts)
            BY <1>2, <2>1, <2>3, <3>1, DereferenceCovers
        <3> QED BY <1>2, <2>4, <3>2
    <2> QED BY <2>3, <2>4 DEF Defined
<1>3. ASSUME LhsOk(u, facts) PROVE Defined(mem, u)
    <2>1. CASE u.ind = 0 BY <2>1 DEF Defined
    <2>2. CASE u.ind # 0
        <3>1. is_valid_ptr(u.var, facts) /\ CanFollow(u.var, u.ind, facts, TRUE)
            BY <1>3, <2>2 DEF LhsOk
        <3>2. CASE u.ind > 0
            <4>1. u.ind \in 0..2 /\ u.var \in Pointers /\ Level[u.var] \in u.ind..2
                BY <1>0, <3>2, LegalUse
            <4> QED BY <1>2, <3>1, <3>2, <4>1 DEF CanFollow
        <3>3. CASE u.ind = -1 BY <3>3 DEF Defined
        <3> QED BY <1>0, <2>2, <3>2, <3>3
    <2> QED BY <2>1, <2>2
<1>4. ASSUME RhsOk(u, facts), u.ind >= 0
      PROVE  Defined(mem, u) /\ (UseLevel(u) > 0 => Value(mem, u) # garbage_ptr)
    <2>0. u.ind # -1 BY <1>0, <1>4
    <2>1. /\ u.ind > 0 => is_valid_ptr(u.var, facts)
          /\ check_read_var(u.var, facts) /\ CanFollow(u.var, u.ind, facts, FALSE)
        BY <1>4, <2>0 DEF RhsOk
    <2>2. /\ u.var \in Vars /\ u.ind \in 0..2 /\ Level[u.var] \in u.ind..2
          /\ u.ind > 0 => u.var \in Pointers
          /\ UseLevel(u) = Level[u.var] - u.ind
        BY <1>4, LegalUse
    <2>3. Defined(mem, u)
        <3>1. CASE u.ind > 0 BY <1>2, <2>1, <2>2, <3>1 DEF CanFollow
        <3>2. CASE u.ind = 0 BY <3>2 DEF Defined
        <3> QED BY <2>2, <3>1, <3>2
    <2>4. ASSUME UseLevel(u) > 0 PROVE Value(mem, u) # garbage_ptr
        <3>1. CASE u.ind = 0
            <4>1. u.var \in Pointers BY <2>2, <2>4, <3>1 DEF Pointers
            <4>2. Value(mem, u) = mem[u.var] BY <3>1 DEF Value, Target
            <4> QED BY <1>1, <2>1, <4>1, <4>2 DEF Knows
        <3>2. CASE u.ind = 1
            <4>1. Level[u.var] = 2 BY <2>2, <2>4, <3>2, KindsApart
            <4>2. u.var \in Pointers /\ u.var \in DOMAIN facts /\ mem[u.var] \notin SpecialPtrs
                BY <2>1, <2>2, <2>3, <3>2 DEF is_valid_ptr, Defined
            <4>3. mem[u.var] \in DOMAIN facts \cap Pointers
                  /\ mem[u.var] \in merge_pointees_of_pointer(u.var, 1, facts)
                BY <4>1, <4>2, DereferenceCovers
            <4>4. check_read_var(mem[u.var], facts) BY <2>1, <3>2, <4>3 DEF CanFollow
            <4>5. Value(mem, u) = mem[mem[u.var]] BY <3>2 DEF Value, Target
            <4> QED BY <1>1, <4>3, <4>4, <4>5
        <3>3. u.ind # 2 BY <2>2, <2>4, KindsApart
        <3> QED BY <2>2, <3>1, <3>2, <3>3
    <2> QED BY <2>3, <2>4
<1> QED BY <1>3, <1>4

-----------------------------------------------------------------------------
(* Assignments.                                                            *)

\* What facts give for the value of an accepted use covers the value, and is made of
\* variables one level below; none of them is new to the facts.
LEMMA ValueCovered ==
    ASSUME NEW facts, NEW mem, NEW u, Legal(u), FactsFit(facts), MemFit(mem),
           Describes(facts, mem), Knows(facts, u), RhsOk(u, facts), UseLevel(u) \in {1, 2}
    PROVE  LET a == rhs_to_lhs_transfer(u, facts)
           IN  /\ Value(mem, u) \in a
               /\ a \subseteq {w \in Vars : Level[w] = UseLevel(u) - 1} \cup SpecialPtrs
               /\ a \cap Pointers \subseteq DOMAIN facts
<1> DEFINE a == rhs_to_lhs_transfer(u, facts)
<1>0. u.ind \in -1..2 /\ u.var \in Vars \cup {null_ptr} BY DEF Legal, Uses
<1>1. CASE u.ind = -1
    <2>1. a = {u.var} /\ Value(mem, u) = u.var BY <1>1 DEF rhs_to_lhs_transfer, Value
    <2>2. CASE u.var = null_ptr
        BY <2>1, <2>2, KindsApart DEF SpecialPtrs
    <2>3. CASE u.var # null_ptr
        <3>1. u.var \in Vars /\ Level[u.var] \in -1..2 BY <1>0, <2>3, KindsApart
        <3>2. UseLevel(u) = Level[u.var] - u.ind BY <2>3 DEF UseLevel
        <3>3. Level[u.var] = UseLevel(u) - 1 BY <1>1, <3>1, <3>2
        <3> QED BY <2>1, <3>1, <3>3 DEF Knows
    <2> QED BY <2>2, <2>3
<1>2. ASSUME u.ind >= 0
      PROVE  /\ Value(mem, u) \in a
             /\ a \subseteq {w \in Vars : Level[w] = UseLevel(u) - 1} \cup SpecialPtrs
             /\ a \cap Pointers \subseteq DOMAIN facts
    <2>1. /\ u.var \in Vars /\ u.ind \in 0..2 /\ Level[u.var] \in u.ind..2
          /\ UseLevel(u) = Level[u.var] - u.ind
        BY <1>2, LegalUse
    <2>2. u.var \in Pointers /\ u.var \in DOMAIN facts BY <2>1 DEF Pointers, Knows
    <2>3. a = merge_pointees_of_pointer(u.var, u.ind + 1, facts)
        BY <2>1 DEF rhs_to_lhs_transfer
    <2>4. CASE u.ind = 0
        <3>1. a = facts[u.var] BY <2>2, <2>3, <2>4, DereferenceCovers
        <3>2. Value(mem, u) = mem[u.var] /\ mem[u.var] \in facts[u.var]
            BY <2>2, <2>4, KindsApart DEF Value, Target, Describes
        <3>3. Level[u.var] = UseLevel(u) BY <2>1, <2>4, KindsApart
        <3> QED BY <2>2, <3>1, <3>2, <3>3 DEF FactsFit, PointsTo
    <2>5. CASE u.ind = 1
        <3>1. Level[u.var] = 2 /\ UseLevel(u) = 1 BY <2>1, <2>5, KindsApart
        <3>2. mem[u.var] \notin SpecialPtrs
            BY <1>2, <2>5, AccessesDefined DEF Defined
        <3>3. mem[mem[u.var]] \in merge_pointees_of_pointer(u.var, 2, facts)
            BY <2>2, <3>1, <3>2, DereferenceCovers
        <3>4. Value(mem, u) = mem[mem[u.var]] BY <2>5 DEF Value, Target
        <3>5. a = merge_pointees_of_pointer(u.var, 2, facts) BY <2>3, <2>5
        <3>6. a = merge_pointees_of_pointers(facts[u.var], facts)
            <4>1. merge_pointees_of_pointer(u.var, 1, facts) = facts[u.var]
                BY <2>2, DereferenceCovers
            <4> QED BY <3>5, <4>1 DEF merge_pointees_of_pointer
        <3>7. ASSUME NEW x \in a
              PROVE  /\ x \in {w \in Vars : Level[w] = UseLevel(u) - 1} \cup SpecialPtrs
                     /\ x \in Pointers => x \in DOMAIN facts
            <4>1. PICK p \in facts[u.var] : p \notin SpecialPtrs /\ p \in DOMAIN facts
                                            /\ x \in facts[p]
                BY <3>6, <3>7, Pointees
            <4>2. p \in Pointers /\ Level[p] = 1
                <5>1. p \in PointsTo(u.var) BY <2>2, <4>1 DEF FactsFit
                <5> QED BY <2>2, <3>1, <4>1, <5>1, BelowPointer
            <4> QED BY <3>1, <4>1, <4>2 DEF FactsFit, PointsTo
        <3> QED BY <3>3, <3>4, <3>5, <3>7
    <2>6. u.ind # 2 BY <2>1, KindsApart
    <2> QED BY <2>1, <2>4, <2>5, <2>6
<1> QED BY <1>0, <1>1, <1>2

\* The variables that the facts give for the target of an accepted assignment are
\* pointers the facts know; the one that is assigned is among them.
LEMMA TargetCovered ==
    ASSUME NEW facts, NEW mem, NEW u, Legal(u), u.ind >= 0, FactsFit(facts), MemFit(mem),
           Describes(facts, mem), Knows(facts, u), LhsOk(u, facts), UseLevel(u) \in {1, 2}
    PROVE  LET lvars == merge_pointees_of_pointer(u.var, u.ind, facts)
           IN  /\ Target(mem, u) \in lvars
               /\ lvars \subseteq DOMAIN facts \cap {w \in Pointers : Level[w] = UseLevel(u)}
<1> DEFINE lvars == merge_pointees_of_pointer(u.var, u.ind, facts)
<1>1. /\ u.var \in Vars /\ u.ind \in 0..2 /\ Level[u.var] \in u.ind..2
      /\ UseLevel(u) = Level[u.var] - u.ind
    BY LegalUse
<1>2. u.var \in Pointers /\ u.var \in DOMAIN facts BY <1>1 DEF Pointers, Knows
<1>3. CASE u.ind = 0
    <2>1. lvars = {u.var} /\ Target(mem, u) = u.var
        BY <1>3 DEF merge_pointees_of_pointer, Target
    <2>2. Level[u.var] = UseLevel(u) BY <1>1, <1>3, KindsApart
    <2> QED BY <1>2, <2>1, <2>2
<1>4. CASE u.ind = 1
    <2>1. Level[u.var] = 2 /\ UseLevel(u) = 1 BY <1>1, <1>4, KindsApart
    <2>2. Defined(mem, u) BY AccessesDefined
    <2>3. lvars = facts[u.var] /\ mem[u.var] \in lvars BY <1>2, <1>4, DereferenceCovers
    <2>4. Target(mem, u) = mem[u.var] BY <1>4 DEF Target
    <2>5. lvars \cap SpecialPtrs = {}
        <3>1. is_valid_ptr(u.var, facts) BY <1>4 DEF LhsOk
        <3> QED BY <2>3, <3>1 DEF is_valid_ptr
    <2>6. ASSUME NEW w \in lvars PROVE w \in DOMAIN facts /\ w \in Pointers /\ Level[w] = 1
        <3>1. w \in PointsTo(u.var) /\ w \notin SpecialPtrs
            BY <1>2, <2>3, <2>5, <2>6 DEF FactsFit
        <3>2. w \in Pointers /\ Level[w] = 1 BY <1>2, <2>1, <3>1, BelowPointer
        <3> QED BY <1>2, <2>3, <2>6, <3>2 DEF FactsFit
    <2> QED BY <2>1, <2>3, <2>4, <2>6
<1>5. u.ind # 2 BY <1>1, KindsApart
<1> QED BY <1>1, <1>3, <1>4, <1>5

\* An assignment of a pointer that the analysis accepts: the facts it computes
\* (update_fact_for_assign) describe the memory the assignment leaves, whichever of the
\* targets is the one assigned, and what they need stays true.
THEOREM AssignsDescribe ==
    ASSUME NEW facts, NEW mem, NEW lhs, NEW rhs,
           Legal(lhs), lhs.ind >= 0, Legal(rhs), UseLevel(lhs) > 0,
           UseLevel(lhs) = UseLevel(rhs),
           FactsFit(facts), MemFit(mem), Describes(facts, mem),
           Knows(facts, lhs), Knows(facts, rhs), LhsOk(lhs, facts), RhsOk(rhs, facts)
    PROVE  LET after == update_fact_for_assign(facts, lhs, rhs)
           IN  /\ FactsFit(after) /\ MemFit(Store(mem, lhs, rhs))
               /\ DOMAIN after = DOMAIN facts
               /\ Describes(after, Store(mem, lhs, rhs))
<1> DEFINE lvars == merge_pointees_of_pointer(lhs.var, lhs.ind, facts)
           a == rhs_to_lhs_transfer(rhs, facts)
           after == update_fact_for_assign(facts, lhs, rhs)
           t == Target(mem, lhs)
           val == Value(mem, rhs)
           next == Store(mem, lhs, rhs)
<1>1. UseLevel(lhs) \in {1, 2} /\ UseLevel(lhs) # 0
    <2>1. Level[lhs.var] \in -1..2 /\ lhs.ind \in 0..2
          /\ UseLevel(lhs) = Level[lhs.var] - lhs.ind
        BY LegalUse, KindsApart
    <2> QED BY <2>1
<1>2. t \in lvars /\ lvars \subseteq DOMAIN facts \cap {w \in Pointers : Level[w] = UseLevel(lhs)}
    BY <1>1, TargetCovered
<1>3. /\ val \in a /\ a \cap Pointers \subseteq DOMAIN facts
      /\ a \subseteq {w \in Vars : Level[w] = UseLevel(lhs) - 1} \cup SpecialPtrs
    BY <1>1, ValueCovered
<1>4. DOMAIN after = DOMAIN facts
      /\ \A u \in DOMAIN facts : after[u] = IF u \notin lvars THEN facts[u]
                                            ELSE IF Cardinality(lvars) = 1 THEN a
                                            ELSE join(u, facts[u], a)
    BY <1>1, <1>2 DEF update_fact_for_assign
<1>5. next = [mem EXCEPT ![t] = val] BY DEF Store
<1>6. t \in DOMAIN mem BY <1>2 DEF MemFit
<1>7. Cardinality(lvars) = 1 => lvars = {t}
    <2> SUFFICES ASSUME Cardinality(lvars) = 1 PROVE lvars = {t} OBVIOUS
    <2>1. IsFiniteSet(lvars)
        <3>1. IsFiniteSet(Vars) /\ lvars \subseteq Vars
            BY <1>2, KindsApart, FactsAssumption DEF FactsAssumption
        <3> QED BY <3>1, FS_Subset
    <2>2. \E x : lvars = {x} BY <2>1, FS_Singleton
    <2> QED BY <1>2, <2>2
<1> HIDE DEF lvars, a, after, t, val, next
<1>8. \A p \in lvars : p \in Pointers /\ p \in DOMAIN facts /\ a \subseteq PointsTo(p)
    BY <1>2, <1>3 DEF PointsTo
<1>9. \A u \in DOMAIN after : \/ u \notin lvars /\ after[u] = facts[u]
                              \/ lvars = {t} /\ u = t /\ after[u] = a
                              \/ u \in lvars /\ after[u] = facts[u] \cup a
    BY <1>4, <1>7, <1>8, JoinFits
<1>10. FactsFit(after)
    <2>1. ASSUME NEW p \in DOMAIN after \cap Pointers
          PROVE  /\ after[p] # {} /\ after[p] \subseteq PointsTo(p)
                 /\ after[p] \cap Pointers \subseteq DOMAIN after
        <3>1. /\ facts[p] # {} /\ facts[p] \subseteq PointsTo(p)
              /\ facts[p] \cap Pointers \subseteq DOMAIN facts
            BY <1>4 DEF FactsFit
        <3> QED BY <1>2, <1>3, <1>4, <1>8, <1>9, <3>1
    <2> QED BY <1>4, <2>1 DEF FactsFit
<1>11. MemFit(next)
    <2>1. DOMAIN next = Pointers \cup Unions BY <1>5 DEF MemFit
    <2>2. ASSUME NEW p \in Pointers PROVE next[p] \in PointsTo(p)
        <3>1. CASE p = t BY <1>2, <1>3, <1>5, <1>6, <1>8, <3>1
        <3>2. CASE p # t BY <1>5, <3>2 DEF MemFit
        <3> QED BY <3>1, <3>2
    <2> QED BY <2>1, <2>2 DEF MemFit
<1>12. Describes(after, next)
    <2>1. ASSUME NEW v \in DOMAIN after PROVE Tells(v, after[v], next)
        <3>1. Tells(v, facts[v], mem) BY <1>4, DescribesTells
        <3>2. CASE v \in Unions
            <4>1. v \notin lvars /\ v # t BY <1>2, <3>2, KindsApart
            <4>2. v \in DOMAIN mem BY <3>2 DEF MemFit
            <4> QED BY <1>5, <1>9, <3>1, <3>2, <4>1, <4>2 DEF Tells
        <3>3. CASE v \in Pointers
            <4>1. mem[v] \in facts[v] /\ v \in DOMAIN mem
                BY <3>1, <3>3, KindsApart DEF Tells, MemFit
            <4>2. next[v] \in after[v]
                <5>1. CASE v = t BY <1>2, <1>3, <1>5, <1>6, <1>9, <5>1
                <5>2. CASE v # t BY <1>5, <1>9, <4>1, <5>2
                <5> QED BY <5>1, <5>2
            <4> QED BY <3>3, <4>2, KindsApart DEF Tells
        <3> QED BY <1>4, <3>2, <3>3 DEF FactsFit
    <2> QED BY <2>1, DescribesTells
<1> QED BY <1>4, <1>10, <1>11, <1>12 DEF after, next

\* A field written to a union is the one the facts name, and a field the analysis lets
\* be read (is_nonreadable_field) is the one written last.
THEOREM FieldsDescribe ==
    ASSUME NEW facts, NEW mem, NEW v \in Unions, NEW fid \in Nat,
           FactsFit(facts), MemFit(mem), Describes(facts, mem)
    PROVE  /\ FactsFit(update_fact_for_field(facts, v, fid))
           /\ MemFit([mem EXCEPT ![v] = fid])
           /\ Describes(update_fact_for_field(facts, v, fid), [mem EXCEPT ![v] = fid])
           /\ ~is_nonreadable_field(v, fid, facts) => mem[v] = fid
<1> DEFINE after == update_fact_for_field(facts, v, fid)
           next == [mem EXCEPT ![v] = fid]
<1>1. DOMAIN after = DOMAIN facts \cup {v}
      /\ \A u \in DOMAIN after : after[u] = IF u = v THEN fid ELSE facts[u]
    BY DEF update_fact_for_field, renew_fact
<1>2. v \in DOMAIN mem /\ DOMAIN next = DOMAIN mem /\ next[v] = fid
      /\ \A u \in DOMAIN mem : u # v => next[u] = mem[u]
    BY DEF MemFit
<1>3. \A p \in Pointers : p # v BY KindsApart
<1> HIDE DEF after, next
<1>4. FactsFit(after) BY <1>1, <1>3 DEF FactsFit
<1>5. MemFit(next) BY <1>2, <1>3 DEF MemFit
<1>6. Describes(after, next)
    <2>1. ASSUME NEW u \in DOMAIN after, u # v PROVE Tells(u, after[u], next)
        <3>1. u \in DOMAIN facts /\ after[u] = facts[u] BY <1>1, <2>1
        <3>2. u \in DOMAIN mem BY <3>1 DEF FactsFit, MemFit
        <3> QED BY <1>2, <2>1, <3>1, <3>2, DescribesTells DEF Tells
    <2>2. Tells(v, after[v], next) BY <1>1, <1>2 DEF Tells
    <2> QED BY <2>1, <2>2, DescribesTells
<1>7. ~is_nonreadable_field(v, fid, facts) => mem[v] = fid
    BY DEF is_nonreadable_field, Describes, BOTTOM
<1> QED BY <1>4, <1>5, <1>6, <1>7 DEF after, next

=============================================================================
