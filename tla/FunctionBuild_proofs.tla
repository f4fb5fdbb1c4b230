------------------------ MODULE FunctionBuild_proofs ------------------------
(***************************************************************************)
(* Proofs about FunctionBuild for every number of functions, built-ins,    *)
(* rounds, parameters and statements.  The inductive invariant is          *)
(* FunctionBuild!IInv; each action gets one step, which proves the parts   *)
(* of the invariant it can disturb.                                        *)
(***************************************************************************)
EXTENDS FunctionBuild, SequenceTheorems, WellFoundedInduction, TLAPS

\* What pushing one more frame does to the stack, position by position.
LEMMA PushFacts ==
    ASSUME NEW S, NEW s \in Seq(S), NEW e \in S
    PROVE  /\ Append(s, e) \in Seq(S)
           /\ Len(Append(s, e)) = Len(s) + 1
           /\ \A i \in 1..Len(s) : Append(s, e)[i] = s[i]
           /\ Append(s, e)[Len(s) + 1] = e
  BY AppendProperties

\* What dropping the top frame does.
LEMMA PopFacts ==
    ASSUME NEW S, NEW s \in Seq(S), s # << >>
    PROVE  /\ SubSeq(s, 1, Len(s) - 1) \in Seq(S)
           /\ Len(SubSeq(s, 1, Len(s) - 1)) = Len(s) - 1
           /\ \A i \in 1..(Len(s) - 1) : SubSeq(s, 1, Len(s) - 1)[i] = s[i]
           /\ Len(s) \in 1..Len(s)
           /\ s[Len(s)] \in S
<1> DEFINE n == Len(s)
           t == SubSeq(s, 1, Len(s) - 1)
<1>1. n \in Nat \ {0}
  BY EmptySeq, LenProperties
<1>2. \A i \in 1..n : s[i] \in S
  BY ElementOfSeq
<1>3. /\ t \in Seq(S)
      /\ Len(t) = IF 1 <= n - 1 THEN n - 1 - 1 + 1 ELSE 0
      /\ \A i \in 1..(n - 1 - 1 + 1) : t[i] = s[1 + i - 1]
  <2>1. 1 \in Int /\ n - 1 \in Int /\ \A i \in 1..(n - 1) : s[i] \in S
    BY <1>1, <1>2
  <2> HIDE DEF n
  <2> QED BY <2>1, SubSeqProperties DEF n
<1> HIDE DEF n, t
<1>4. Len(t) = n - 1
  BY <1>1, <1>3
<1>5. \A i \in 1..(n - 1) : t[i] = s[i]
  <2> TAKE i \in 1..(n - 1)
  <2>1. i \in 1..(n - 1 - 1 + 1) /\ 1 + i - 1 = i
    BY <1>1
  <2> QED BY <1>3, <2>1
<1>6. n \in 1..n /\ s[n] \in S
  BY <1>1, <1>2
<1> QED BY <1>3, <1>4, <1>5, <1>6 DEF n, t

\* Init establishes the invariant.
LEMMA InitIInv == Init => IInv
  BY ParamsAssumption DEF Init, IInv, TypeOK, FramesOK, CallsOrdered, Accounted, Fn, Frame, NoFn

-----------------------------------------------------------------------------

\* Every position of the stack holds a frame.
LEMMA FrameAt ==
    ASSUME TypeOK
    PROVE  /\ Len(frames) \in Nat
           /\ \A i \in 1..Len(frames) : frames[i] \in Frame
  BY LenProperties, ElementOfSeq DEF TypeOK

\* The function whose body is being generated is BUILDING, and its body frame is
\* on the stack: an argument of a call is generated in the body of the caller.
LEMMA TopFacts ==
    ASSUME TypeOK, FramesOK, frames # << >>
    PROVE  /\ Len(frames) \in Nat \ {0}
           /\ Top \in Frame
           /\ CurrentFunc \in Fn
           /\ build_state[CurrentFunc] = "BUILDING"
           /\ \E k \in 1..Len(frames) :
                 frames[k].stage = "body" /\ frames[k].fn = CurrentFunc
<1>1. Len(frames) \in Nat \ {0}
  BY EmptySeq, LenProperties DEF TypeOK
<1>2. Top \in Frame
  BY <1>1, FrameAt DEF Top
<1>3. CASE Top.stage = "body"
  BY <1>1, <1>2, <1>3 DEF FramesOK, Top, CurrentFunc, Frame
<1>4. CASE Top.stage = "args"
  <2>1. CurrentFunc = Top.caller /\ Top.caller # NoFn /\ Top.caller \in Fn
    BY <1>1, <1>2, <1>4 DEF FramesOK, Top, CurrentFunc, Frame
  <2>2. PICK k \in 1..(Len(frames) - 1) :
            frames[k].stage = "body" /\ frames[k].fn = Top.caller
    BY <1>1, <2>1 DEF FramesOK, Top
  <2>3. k \in 1..Len(frames)
    BY <1>1
  <2>4. build_state[frames[k].fn] = "BUILDING"
    BY <2>2, <2>3 DEF FramesOK
  <2> QED BY <1>1, <1>2, <2>1, <2>2, <2>3, <2>4
<1> QED BY <1>2, <1>3, <1>4 DEF Frame

\* Popping the top frame, and perhaps moving its function on to BUILT, keeps the
\* frames below in order: none of them speaks about that function.
LEMMA PopFramesOK ==
    ASSUME TypeOK, FramesOK, frames # << >>, frames' = Below, funcs' = funcs,
           \/ build_state' = build_state
           \/ /\ Top.stage = "body"
              /\ build_state' = [build_state EXCEPT ![Top.fn] = "BUILT"]
    PROVE  FramesOK' /\ frames' \in Seq(Frame)
<1>1. /\ frames' \in Seq(Frame)
      /\ Len(frames) \in Nat \ {0}
      /\ Len(frames') = Len(frames) - 1
      /\ \A i \in 1..(Len(frames) - 1) : frames'[i] = frames[i]
  <2>1. frames \in Seq(Frame)
    BY DEF TypeOK
  <2> QED BY <2>1, PopFacts, TopFacts DEF Below
<1>2. \A i \in 1..Len(frames) : frames[i] \in Frame
  BY FrameAt
<1>3. \A i \in 1..(Len(frames) - 1) : build_state'[frames[i].fn] = build_state[frames[i].fn]
  <2>1. CASE build_state' = build_state
    BY <2>1
  <2>2. CASE /\ Top.stage = "body"
             /\ build_state' = [build_state EXCEPT ![Top.fn] = "BUILT"]
    <3>1. TAKE i \in 1..(Len(frames) - 1)
    <3>2. i \in 1..Len(frames) /\ Len(frames) \in 1..Len(frames) /\ i # Len(frames)
      BY <1>1
    <3>3. Top.isNew /\ build_state[Top.fn] = "BUILDING"
      BY <2>2, <3>2 DEF FramesOK, Top
    <3>4. frames[i].fn # Top.fn
      <4>1. CASE frames[i].isNew
        BY <4>1, <3>2, <3>3 DEF FramesOK, Top
      <4>2. CASE ~frames[i].isNew
        BY <4>2, <3>2, <3>3, <1>2 DEF FramesOK, Frame
      <4> QED BY <4>1, <4>2
    <3> QED BY <2>2, <3>4, <1>2, <3>2 DEF TypeOK, Frame
  <2> QED BY <2>1, <2>2
<1>4. ASSUME NEW i \in 1..Len(frames')
      PROVE  /\ frames'[i].stage = "body" =>
                   frames'[i].isNew /\ build_state'[frames'[i].fn] = "BUILDING"
             /\ frames'[i].stage = "args" =>
                   /\ frames'[i].caller # NoFn
                   /\ build_state'[frames'[i].fn] =
                         IF frames'[i].isNew THEN "UNBUILT" ELSE "BUILT"
             /\ frames'[i].fn <= funcs'
             /\ frames'[i].caller # NoFn =>
                   \E k \in 1..(i-1) :
                       frames'[k].stage = "body" /\ frames'[k].fn = frames'[i].caller
  <2>1. i \in 1..(Len(frames) - 1) /\ i \in 1..Len(frames) /\ frames'[i] = frames[i]
    BY <1>1
  <2>2. \A k \in 1..(i-1) : frames'[k] = frames[k]
    BY <1>1, <2>1
  <2>3. build_state'[frames'[i].fn] = build_state[frames[i].fn]
    BY <1>3, <2>1
  <2>4. frames[i].caller # NoFn =>
           \E k \in 1..(i-1) : frames[k].stage = "body" /\ frames[k].fn = frames[i].caller
    BY <2>1 DEF FramesOK
  <2>5. frames'[i].caller # NoFn =>
           \E k \in 1..(i-1) : frames'[k].stage = "body" /\ frames'[k].fn = frames'[i].caller
    BY <2>1, <2>2, <2>4
  <2>6. frames'[i].stage = "body" =>
           frames'[i].isNew /\ build_state'[frames'[i].fn] = "BUILDING"
    BY <2>1, <2>3 DEF FramesOK
  <2>7. frames'[i].stage = "args" =>
           /\ frames'[i].caller # NoFn
           /\ build_state'[frames'[i].fn] = IF frames'[i].isNew THEN "UNBUILT" ELSE "BUILT"
    BY <2>1, <2>3 DEF FramesOK
  <2>8. frames'[i].fn <= funcs'
    BY <2>1 DEF FramesOK
  <2> QED BY <2>5, <2>6, <2>7, <2>8
<1>5. ASSUME NEW i \in 1..Len(frames'), NEW j \in 1..Len(frames'),
             i # j, frames'[i].isNew, frames'[j].isNew
      PROVE  frames'[i].fn # frames'[j].fn
  BY <1>1, <1>5 DEF FramesOK
<1> QED BY <1>1, <1>4, <1>5 DEF FramesOK

\* Two stacks with the same calls on them, whatever their argument counts.
SameCalls(s, t) ==
    /\ Len(s) = Len(t)
    /\ \A i \in 1..Len(t) :
          /\ s[i].stage = t[i].stage /\ s[i].fn = t[i].fn
          /\ s[i].caller = t[i].caller /\ s[i].isNew = t[i].isNew

\* Two stacks with the same functions on them, whatever their stages are.
SameFns(s, t) ==
    /\ Len(s) = Len(t)
    /\ \A i \in 1..Len(t) :
          s[i].fn = t[i].fn /\ s[i].caller = t[i].caller /\ s[i].isNew = t[i].isNew

LEMMA SameCallsFns == \A s, t : SameCalls(s, t) => SameFns(s, t)
  BY DEF SameCalls, SameFns

\* Spending an argument slot changes nothing else on the stack.
LEMMA ArgTaken ==
    ASSUME TypeOK, frames # << >>, Top.params > 0
    PROVE  LET w == [frames EXCEPT ![Len(frames)].params = @ - 1]
           IN  w \in Seq(Frame) /\ SameCalls(w, frames)
<1> DEFINE n == Len(frames)
           F == [Top EXCEPT !.params = @ - 1]
           w == [frames EXCEPT ![n] = F]
<1>1. n \in Nat \ {0} /\ n \in 1..n /\ frames \in Seq(Frame)
  BY EmptySeq, LenProperties DEF TypeOK
<1>2. Top \in Frame /\ Top = frames[n]
  BY <1>1, FrameAt DEF Top
<1>3. F \in Frame /\ F.stage = Top.stage /\ F.fn = Top.fn /\ F.caller = Top.caller
      /\ F.isNew = Top.isNew
  BY SMTT(30), <1>2, ParamsAssumption DEF Frame
<1>4. /\ w \in Seq(Frame) /\ Len(w) = n
      /\ \A i \in 1..n : w[i] = IF i = n THEN F ELSE frames[i]
  <2> HIDE DEF F
  <2> QED BY <1>1, <1>3, ExceptSeq
<1>5. w = [frames EXCEPT ![Len(frames)].params = @ - 1]
  BY <1>2
<1>6. SameCalls(w, frames)
  <2> HIDE DEF w, F
  <2> QED BY <1>2, <1>3, <1>4 DEF SameCalls
<1> QED BY <1>4, <1>5, <1>6

\* FramesOK and its relatives only look at the calls on the stack.
LEMMA SameCallsFramesOK ==
    ASSUME TypeOK, FramesOK, SameCalls(frames', frames),
           build_state' = build_state, funcs' = funcs
    PROVE  FramesOK'
<1>1. ASSUME NEW i \in 1..Len(frames')
      PROVE  /\ frames'[i].stage = "body" =>
                   frames'[i].isNew /\ build_state'[frames'[i].fn] = "BUILDING"
             /\ frames'[i].stage = "args" =>
                   /\ frames'[i].caller # NoFn
                   /\ build_state'[frames'[i].fn] =
                         IF frames'[i].isNew THEN "UNBUILT" ELSE "BUILT"
             /\ frames'[i].fn <= funcs'
             /\ frames'[i].caller # NoFn =>
                   \E k \in 1..(i-1) :
                       frames'[k].stage = "body" /\ frames'[k].fn = frames'[i].caller
  <2>1. i \in 1..Len(frames)
    BY DEF SameCalls
  <2>2. \A k \in 1..i : /\ frames'[k].stage = frames[k].stage
                        /\ frames'[k].fn = frames[k].fn
                        /\ frames'[k].caller = frames[k].caller
                        /\ frames'[k].isNew = frames[k].isNew
    BY <2>1, FrameAt DEF SameCalls
  <2>3. /\ frames[i].stage = "body" =>
             frames[i].isNew /\ build_state[frames[i].fn] = "BUILDING"
        /\ frames[i].stage = "args" =>
             /\ frames[i].caller # NoFn
             /\ build_state[frames[i].fn] =
                   IF frames[i].isNew THEN "UNBUILT" ELSE "BUILT"
        /\ frames[i].fn <= funcs
        /\ frames[i].caller # NoFn =>
             \E k \in 1..(i-1) :
                 frames[k].stage = "body" /\ frames[k].fn = frames[i].caller
    BY <2>1 DEF FramesOK
  <2> QED BY <2>1, <2>2, <2>3
<1>2. ASSUME NEW i \in 1..Len(frames'), NEW j \in 1..Len(frames'),
             i # j, frames'[i].isNew, frames'[j].isNew
      PROVE  frames'[i].fn # frames'[j].fn
  BY <1>2 DEF FramesOK, SameCalls
<1> QED BY <1>1, <1>2 DEF FramesOK

\* Pushing a call generated by the current function keeps the stack in order.
LEMMA PushFramesOK ==
    ASSUME TypeOK, FramesOK, frames # << >>,
           Top.stage = "args" => Top.params > 0,
           NEW F \in Frame, frames' = Append(WithArgTaken, F),
           F.stage = "args", F.caller = CurrentFunc,
           funcs' \in Nat, funcs <= funcs', F.fn <= funcs', F.isNew => F.fn > funcs,
           build_state' = build_state,
           build_state[F.fn] = IF F.isNew THEN "UNBUILT" ELSE "BUILT"
    PROVE  FramesOK' /\ frames' \in Seq(Frame)
<1> DEFINE n == Len(frames)
<1>1. WithArgTaken \in Seq(Frame) /\ SameCalls(WithArgTaken, frames)
  <2>1. CASE Top.stage = "args"
    BY <2>1, ArgTaken DEF WithArgTaken
  <2>2. CASE Top.stage # "args"
    BY <2>2 DEF WithArgTaken, SameCalls, TypeOK
  <2> QED BY <2>1, <2>2
<1>2. /\ frames' \in Seq(Frame) /\ n \in Nat /\ Len(frames') = n + 1
      /\ \A i \in 1..n : frames'[i] = WithArgTaken[i]
      /\ frames'[n + 1] = F
  BY <1>1, PushFacts, FrameAt DEF SameCalls
<1>3. \A i \in 1..n : /\ frames'[i].stage = frames[i].stage
                      /\ frames'[i].fn = frames[i].fn
                      /\ frames'[i].caller = frames[i].caller
                      /\ frames'[i].isNew = frames[i].isNew
  BY <1>1, <1>2 DEF SameCalls
<1>4. ASSUME NEW i \in 1..Len(frames')
      PROVE  /\ frames'[i].stage = "body" =>
                   frames'[i].isNew /\ build_state'[frames'[i].fn] = "BUILDING"
             /\ frames'[i].stage = "args" =>
                   /\ frames'[i].caller # NoFn
                   /\ build_state'[frames'[i].fn] =
                         IF frames'[i].isNew THEN "UNBUILT" ELSE "BUILT"
             /\ frames'[i].fn <= funcs'
             /\ frames'[i].caller # NoFn =>
                   \E k \in 1..(i-1) :
                       frames'[k].stage = "body" /\ frames'[k].fn = frames'[i].caller
  <2>1. CASE i \in 1..n
    <3>1. \A k \in 1..(i-1) : k \in 1..n
      BY <2>1, <1>2
    <3>2. /\ frames[i].stage = "body" =>
               frames[i].isNew /\ build_state[frames[i].fn] = "BUILDING"
          /\ frames[i].stage = "args" =>
               /\ frames[i].caller # NoFn
               /\ build_state[frames[i].fn] =
                     IF frames[i].isNew THEN "UNBUILT" ELSE "BUILT"
          /\ frames[i].fn <= funcs
          /\ frames[i].caller # NoFn =>
               \E k \in 1..(i-1) :
                   frames[k].stage = "body" /\ frames[k].fn = frames[i].caller
      BY <2>1 DEF FramesOK
    <3>3. frames[i].fn <= funcs'
      <4>1. frames[i] \in Frame
        BY <2>1, FrameAt
      <4>2. frames[i].fn \in Nat
        BY <4>1, ParamsAssumption DEF Frame, Fn
      <4>3. funcs \in Nat
        BY ParamsAssumption DEF TypeOK
      <4> HIDE DEF n
      <4> QED BY <3>2, <4>2, <4>3
    <3> QED BY <2>1, <1>3, <3>1, <3>2, <3>3
  <2>2. CASE i = n + 1
    <3>1. F.caller # NoFn /\ \E k \in 1..n : frames[k].stage = "body" /\ frames[k].fn = F.caller
      BY TopFacts DEF NoFn, Fn
    <3>2. \E k \in 1..n : frames'[k].stage = "body" /\ frames'[k].fn = F.caller
      BY <3>1, <1>3
    <3>3. i - 1 = n /\ frames'[i] = F
      BY <2>2, <1>2
    <3> QED BY <3>1, <3>2, <3>3
  <2> QED BY <1>2, <2>1, <2>2
<1>5. ASSUME NEW i \in 1..Len(frames'), NEW j \in 1..Len(frames'),
             i # j, frames'[i].isNew, frames'[j].isNew
      PROVE  frames'[i].fn # frames'[j].fn
  <2>1. \A k \in 1..n : frames[k].fn \in Nat /\ frames[k].fn <= funcs
    BY FrameAt DEF FramesOK, Frame, Fn
  <2>2. funcs \in Nat /\ F.fn \in Nat
    BY DEF TypeOK, Frame, Fn
  <2>3. CASE i \in 1..n /\ j \in 1..n
    BY <2>3, <1>3, <1>5 DEF FramesOK
  <2>4. CASE i \in 1..n /\ j = n + 1
    BY <2>4, <2>1, <2>2, <1>2, <1>3, <1>5
  <2>5. CASE i = n + 1 /\ j \in 1..n
    BY <2>5, <2>1, <2>2, <1>2, <1>3, <1>5
  <2> QED BY <2>3, <2>4, <2>5, <1>2, <1>5
<1> QED BY <1>2, <1>4, <1>5 DEF FramesOK

-----------------------------------------------------------------------------

\* Accounted only looks at the functions on the stack and at which are BUILT.
LEMMA SameFnsAccounted ==
    ASSUME TypeOK, Accounted, SameFns(frames', frames), funcs' = funcs,
           phase = "generate", phase' = "generate",
           \A f \in Fn : build_state'[f] = "BUILT" <=> build_state[f] = "BUILT",
           \A f \in Fn : f > funcs => build_state'[f] = build_state[f]
    PROVE  Accounted'
<1>1. \A f \in Fn : f > funcs' => build_state'[f] = "UNBUILT"
  BY DEF Accounted
<1>2. ASSUME NEW f \in Fn, f <= funcs', build_state'[f] # "BUILT"
      PROVE  \E i \in 1..Len(frames') : frames'[i].isNew /\ frames'[i].fn = f
  <2>1. PICK i \in 1..Len(frames) : frames[i].isNew /\ frames[i].fn = f
    BY <1>2 DEF Accounted
  <2>2. i \in 1..Len(frames') /\ frames'[i].isNew /\ frames'[i].fn = f
    BY <2>1 DEF SameFns
  <2> QED BY <2>2
<1>3. \A i \in 1..Len(frames') : frames'[i].caller = NoFn => i = 1
  BY DEF Accounted, SameFns
<1> QED BY <1>1, <1>2, <1>3 DEF Accounted

\* The stack is the only thing a step that spends an argument changes.
LEMMA FillArgStep == ASSUME IInv, FillArg PROVE IInv'
<1> USE DEF IInv
<1>1. frames' \in Seq(Frame) /\ SameCalls(frames', frames)
  BY ArgTaken DEF FillArg
<1>2. TypeOK'
  BY <1>1 DEF TypeOK, FillArg, progress, summaries, history
<1>3. FramesOK'
  BY <1>1, SameCallsFramesOK DEF FillArg
<1>4. CallsOrdered'
  BY DEF CallsOrdered, FillArg, history
<1>5. Accounted'
  BY <1>1, SameFnsAccounted, SameCallsFns DEF FillArg, progress
<1> QED BY <1>2, <1>3, <1>4, <1>5

\* A statement is made, or removed: neither the stack nor a build state changes.
LEMMA StatementStep ==
    ASSUME IInv, (\E k \in Kinds : MakeStatement(k)) \/ RemoveStatement
    PROVE  IInv'
<1> USE DEF IInv
<1>1. /\ phase = "generate" /\ phase' = "generate"
      /\ frames' = frames /\ build_state' = build_state
      /\ funcs' = funcs /\ calls' \subseteq calls /\ order' = order /\ clock' = clock
  BY DEF MakeStatement, RemoveStatement, InBody, progress, history
<1>2. TypeOK'
  <2>1. ASSUME NEW k \in Kinds, MakeStatement(k) PROVE TypeOK'
    <3>1. Top.fn \in Fn /\ ops[Top.fn] < MaxOps
      BY <2>1, TopFacts DEF MakeStatement, InBody, Frame
    <3>2. ops[Top.fn] \in 0..MaxOps /\ ops \in [Fn -> 0..MaxOps]
      BY <3>1 DEF TypeOK
    <3>3. ops[Top.fn] + 1 \in 0..MaxOps
      BY <3>1, <3>2, ParamsAssumption
    <3>4. ops' \in [Fn -> 0..MaxOps]
      BY <2>1, <3>2, <3>3 DEF MakeStatement
    <3>5. direct' \in [Fn -> SUBSET Kinds]
      BY <2>1 DEF MakeStatement, TypeOK
    <3>6. fact_changed' \in [Fn -> BOOLEAN]
      BY <2>1, Zenon DEF MakeStatement, TypeOK
    <3> QED BY <3>4, <3>5, <3>6, <2>1, <3>1 DEF MakeStatement, TypeOK, progress, summaries, history
  <2>2. CASE RemoveStatement
    <3>1. calls' \in SUBSET (Fn \X Fn) /\ direct' \in [Fn -> SUBSET Kinds]
      BY <2>2 DEF RemoveStatement, TypeOK
    <3> QED BY <2>2, <3>1 DEF RemoveStatement, TypeOK, progress, summaries, history
  <2> QED BY <2>1, <2>2
<1>3. FramesOK'
  BY <1>1 DEF FramesOK
<1>4. CallsOrdered'
  BY <1>1 DEF CallsOrdered
<1>5. Accounted'
  BY <1>1 DEF Accounted
<1> QED BY <1>2, <1>3, <1>4, <1>5

\* RevisitCallee and SkipCallee pop a call of a BUILT function.  Its caller is
\* BUILDING, so no order between the two is claimed yet.
LEMMA CallDoneStep == ASSUME IInv, RevisitCallee \/ SkipCallee PROVE IInv'
<1> USE DEF IInv
<1>1. /\ phase = "generate" /\ frames # << >> /\ Top.stage = "args" /\ ~Top.isNew
      /\ frames' = Below
      /\ UNCHANGED <<phase, round, cur_func_idx, funcs, builtin_functions_cnt,
                     build_state, param, ops, direct, union_field_read,
                     referenced_ptrs, order, clock>>
      /\ calls' \subseteq calls \cup {<<Top.caller, Top.fn>>}
  BY DEF RevisitCallee, SkipCallee, ArgsComplete, progress, history
<1>2. Len(frames) \in Nat \ {0} /\ Top \in Frame
  BY <1>1, TopFacts
<1>3. /\ Top.fn \in Fn /\ Top.caller \in Fn
      /\ build_state[Top.fn] = "BUILT" /\ build_state[Top.caller] = "BUILDING"
  <2>1. CurrentFunc = Top.caller
    BY <1>1 DEF CurrentFunc
  <2>2. Top = frames[Len(frames)] /\ Len(frames) \in 1..Len(frames)
    BY <1>2 DEF Top
  <2> QED BY <1>1, <1>2, <2>1, <2>2, TopFacts DEF FramesOK, Frame
<1>4. FramesOK' /\ frames' \in Seq(Frame)
  BY <1>1, PopFramesOK
<1>5. TypeOK'
  <2>1. calls' \in SUBSET (Fn \X Fn)
    BY <1>1, <1>3 DEF TypeOK
  <2>2. fact_changed' \in [Fn -> BOOLEAN]
    <3>1. fact_changed' = fact_changed 
          \/ fact_changed' = [fact_changed EXCEPT ![Top.caller] = @ \/ fact_changed[Top.fn]]
      BY DEF RevisitCallee, SkipCallee
    <3>2. fact_changed \in [Fn -> BOOLEAN]
      BY DEF TypeOK
    <3> QED BY <3>1, <3>2, Zenon
  <2>3. skipped' \in SUBSET (Fn \X Fn)
    BY <1>3 DEF TypeOK, RevisitCallee, SkipCallee, history
  <2> QED BY <1>1, <1>4, <2>1, <2>2, <2>3 DEF TypeOK
<1>6. CallsOrdered'
  BY <1>1, <1>3 DEF CallsOrdered
<1>7. Accounted'
  <2>1. /\ Len(frames') = Len(frames) - 1
        /\ \A i \in 1..(Len(frames) - 1) : frames'[i] = frames[i]
    BY <1>1, PopFacts DEF Below, TypeOK
  <2>2. ASSUME NEW f \in Fn, f <= funcs', build_state'[f] # "BUILT"
        PROVE  \E i \in 1..Len(frames') : frames'[i].isNew /\ frames'[i].fn = f
    <3>1. PICK i \in 1..Len(frames) : frames[i].isNew /\ frames[i].fn = f
      BY <1>1, <2>2 DEF Accounted
    <3>2. i # Len(frames)
      BY <1>1, <3>1 DEF Top
    <3>3. i \in 1..(Len(frames) - 1)
      BY <1>2, <3>2
    <3> QED BY <2>1, <3>1, <3>3
  <2>3. \A i \in 1..Len(frames') : frames'[i].caller = NoFn => i = 1
    <3>1. \A i \in 1..Len(frames') : i \in 1..Len(frames) /\ frames'[i] = frames[i]
      BY <1>2, <2>1
    <3> QED BY <3>1 DEF Accounted
  <2> QED BY <1>1, <2>2, <2>3 DEF Accounted
<1> QED BY <1>4, <1>5, <1>6, <1>7

\* A call of an existing function, or of one that is created for it.
LEMMA CallStep ==
    ASSUME IInv, (\E g \in Fn : CallExisting(g)) \/ CallNew
    PROVE  IInv'
<1> USE DEF IInv
<1>1. /\ phase = "generate" /\ frames # << >>
      /\ Top.stage = "args" => Top.params > 0
      /\ ops[CurrentFunc] < MaxOps
      /\ ops' = [ops EXCEPT ![CurrentFunc] = @ + 1]
      /\ UNCHANGED <<phase, round, cur_func_idx, builtin_functions_cnt, build_state,
                     direct, calls, fact_changed, union_field_read, referenced_ptrs,
                     skipped, order, clock>>
  BY DEF CallExisting, CallNew, MayCall, progress, summaries, history
<1>2. /\ CurrentFunc \in Fn /\ Len(frames) \in Nat \ {0}
      /\ funcs \in 0..FuncCap /\ FuncCap \in Nat
  BY <1>1, TopFacts, ParamsAssumption DEF TypeOK
<1>3. PICK F \in Frame :
         /\ frames' = Append(WithArgTaken, F)
         /\ F.stage = "args" /\ F.caller = CurrentFunc
         /\ F.isNew => F.fn = funcs + 1
         /\ funcs' = IF F.isNew THEN funcs + 1 ELSE funcs
         /\ funcs' \in 0..FuncCap
         /\ F.fn <= funcs'
         /\ build_state[F.fn] = IF F.isNew THEN "UNBUILT" ELSE "BUILT"
         /\ param' \in [Fn -> 0..MaxParams]
  <2>1. ASSUME NEW g \in Fn, CallExisting(g)
        PROVE  \E F \in Frame :
         /\ frames' = Append(WithArgTaken, F)
         /\ F.stage = "args" /\ F.caller = CurrentFunc
         /\ F.isNew => F.fn = funcs + 1
         /\ funcs' = IF F.isNew THEN funcs + 1 ELSE funcs
         /\ funcs' \in 0..FuncCap
         /\ F.fn <= funcs'
         /\ build_state[F.fn] = IF F.isNew THEN "UNBUILT" ELSE "BUILT"
         /\ param' \in [Fn -> 0..MaxParams]
    <3> DEFINE F == [stage |-> "args", fn |-> g, caller |-> CurrentFunc,
                     isNew |-> FALSE, params |-> param[g]]
    <3>1. F \in Frame
      BY <1>2 DEF Frame, TypeOK
    <3>2. frames' = Append(WithArgTaken, F) /\ funcs' = funcs /\ param' = param
      BY <2>1 DEF CallExisting
    <3>3. g <= funcs /\ build_state[g] = "BUILT"
      BY <2>1 DEF CallExisting, is_effect_known
    <3>4. param \in [Fn -> 0..MaxParams]
      BY DEF TypeOK
    <3>5. /\ F.stage = "args" /\ F.caller = CurrentFunc /\ F.isNew = FALSE /\ F.fn = g
      OBVIOUS
    <3> HIDE DEF F
    <3> WITNESS F \in Frame
    <3> QED BY <1>2, <3>2, <3>3, <3>4, <3>5
  <2>2. ASSUME CallNew
        PROVE  \E F \in Frame :
         /\ frames' = Append(WithArgTaken, F)
         /\ F.stage = "args" /\ F.caller = CurrentFunc
         /\ F.isNew => F.fn = funcs + 1
         /\ funcs' = IF F.isNew THEN funcs + 1 ELSE funcs
         /\ funcs' \in 0..FuncCap
         /\ F.fn <= funcs'
         /\ build_state[F.fn] = IF F.isNew THEN "UNBUILT" ELSE "BUILT"
         /\ param' \in [Fn -> 0..MaxParams]
    <3>1. PICK p \in 0..MaxParams :
             /\ param' = [param EXCEPT ![funcs + 1] = p]
             /\ frames' = Append(WithArgTaken,
                                 [stage |-> "args", fn |-> funcs + 1,
                                  caller |-> CurrentFunc, isNew |-> TRUE, params |-> p])
      BY <2>2 DEF CallNew
    <3> DEFINE F == [stage |-> "args", fn |-> funcs + 1,
                     caller |-> CurrentFunc, isNew |-> TRUE, params |-> p]
    <3>2. funcs' = funcs + 1 /\ funcs + 1 \in Fn /\ funcs + 1 \in 0..FuncCap
          /\ funcs + 1 > funcs /\ funcs + 1 <= funcs + 1
      BY <1>2, <2>2 DEF CallNew, Fn
    <3>3. F \in Frame
      BY <1>2, <3>2 DEF Frame
    <3>4. build_state[funcs + 1] = "UNBUILT"
      BY <3>2 DEF Accounted
    <3>5. param' \in [Fn -> 0..MaxParams]
      BY <3>1, <3>2 DEF TypeOK
    <3>6. /\ F.stage = "args" /\ F.caller = CurrentFunc /\ F.isNew = TRUE
          /\ F.fn = funcs + 1 /\ frames' = Append(WithArgTaken, F)
      BY <3>1
    <3> HIDE DEF F
    <3> WITNESS F \in Frame
    <3> QED BY <3>2, <3>4, <3>5, <3>6
  <2> QED BY <2>1, <2>2
<1>4. FramesOK' /\ frames' \in Seq(Frame)
  <2>1. /\ funcs' \in Nat /\ funcs <= funcs' /\ F.fn <= funcs'
        /\ F.isNew => F.fn > funcs
    BY <1>2, <1>3
  <2>2. build_state' = build_state
    BY <1>1
  <2> QED BY <1>1, <1>3, <2>1, <2>2, PushFramesOK
<1>5. TypeOK'
  <2>1. ops[CurrentFunc] + 1 \in 0..MaxOps
    <3>1. ops[CurrentFunc] \in 0..MaxOps
      BY <1>2 DEF TypeOK
    <3> QED BY <1>1, <3>1, ParamsAssumption
  <2>2. ops' \in [Fn -> 0..MaxOps]
    BY <1>1, <1>2, <2>1 DEF TypeOK
  <2> QED BY <1>1, <1>3, <1>4, <2>2 DEF TypeOK
<1>6. CallsOrdered'
  BY <1>1 DEF CallsOrdered
<1>7. Accounted'
  <2>1. WithArgTaken \in Seq(Frame) /\ SameFns(WithArgTaken, frames)
    <3>1. CASE Top.stage = "args"
      BY <1>1, <3>1, ArgTaken, SameCallsFns DEF WithArgTaken
    <3>2. CASE Top.stage # "args"
      BY <3>2 DEF WithArgTaken, SameFns, TypeOK
    <3> QED BY <3>1, <3>2
  <2>2. /\ Len(frames') = Len(frames) + 1
        /\ \A i \in 1..Len(frames) :
              /\ i \in 1..Len(frames')
              /\ frames'[i].fn = frames[i].fn
              /\ frames'[i].caller = frames[i].caller
              /\ frames'[i].isNew = frames[i].isNew
        /\ frames'[Len(frames) + 1] = F
        /\ Len(frames) + 1 \in 1..Len(frames')
    <3> DEFINE n == Len(frames)
               w == WithArgTaken
    <3>1. w \in Seq(Frame) /\ Len(w) = n /\ n \in Nat
      BY <2>1, <1>2 DEF SameFns
    <3>2. /\ Len(frames') = n + 1
          /\ \A i \in 1..n : frames'[i] = w[i]
          /\ frames'[n + 1] = F
      BY <1>3, <3>1, PushFacts
    <3>3. \A i \in 1..n : /\ w[i].fn = frames[i].fn
                          /\ w[i].caller = frames[i].caller
                          /\ w[i].isNew = frames[i].isNew
      BY <2>1 DEF SameFns
    <3> HIDE DEF n, w
    <3>4. \A i \in 1..n : i \in 1..(n + 1)
      BY <3>1
    <3>5. n + 1 \in 1..(n + 1)
      BY <3>1
    <3>6. QED BY <3>2, <3>3, <3>4, <3>5 DEF n
  <2>3. \A f \in Fn : f > funcs' => build_state'[f] = "UNBUILT"
    <3>1. \A f \in Fn : f > funcs' => f > funcs
      BY <1>2, <1>3 DEF Fn
    <3> QED BY <1>1, <3>1 DEF Accounted
  <2>4. ASSUME NEW f \in Fn, f <= funcs', build_state'[f] # "BUILT"
        PROVE  \E i \in 1..Len(frames') : frames'[i].isNew /\ frames'[i].fn = f
    <3>1. CASE f <= funcs
      <4>1. PICK i \in 1..Len(frames) : frames[i].isNew /\ frames[i].fn = f
        BY <1>1, <2>4, <3>1 DEF Accounted
      <4> QED BY <2>2, <4>1
    <3>2. CASE ~(f <= funcs)
      <4>1. F.isNew /\ f = funcs + 1
        BY <1>2, <1>3, <2>4, <3>2 DEF Fn
      <4> QED BY <1>3, <2>2, <4>1
    <3> QED BY <3>1, <3>2
  <2>5. ASSUME NEW i \in 1..Len(frames'), frames'[i].caller = NoFn
        PROVE  i = 1
    <3>1. i = Len(frames) + 1 => frames'[i].caller # NoFn
      BY <1>2, <1>3, <2>2 DEF Fn, NoFn
    <3>2. i \in 1..Len(frames)
      BY <1>2, <2>2, <2>5, <3>1
    <3> QED BY <2>2, <2>5, <3>2 DEF Accounted
  <2> QED BY <1>1, <2>3, <2>4, <2>5 DEF Accounted
<1> QED BY <1>4, <1>5, <1>6, <1>7

\* The new function's frame turns from its arguments to its body.
LEMMA StartBodyStep == ASSUME IInv, StartBody PROVE IInv'
<1> USE DEF IInv
<1> DEFINE n == Len(frames)
           F == [Top EXCEPT !.stage = "body"]
<1>1. /\ phase = "generate" /\ frames # << >> /\ Top.stage = "args" /\ Top.isNew
      /\ build_state' = [build_state EXCEPT ![Top.fn] = "BUILDING"]
      /\ frames' = [frames EXCEPT ![Len(frames)].stage = "body"]
      /\ UNCHANGED <<phase, round, cur_func_idx, funcs, builtin_functions_cnt, param,
                     ops, direct, calls, fact_changed, union_field_read,
                     referenced_ptrs, skipped, order, clock>>
  BY DEF StartBody, ArgsComplete, progress, summaries, history
<1>2. n \in Nat \ {0} /\ Top \in Frame /\ Top = frames[n] /\ n \in 1..n
  BY <1>1, TopFacts DEF Top
<1>3. /\ F \in Frame /\ F.stage = "body" /\ F.fn = Top.fn /\ F.caller = Top.caller
      /\ F.isNew = Top.isNew
  BY <1>2 DEF Frame
<1>4. /\ frames' \in Seq(Frame) /\ Len(frames') = n
      /\ \A i \in 1..n : frames'[i] = IF i = n THEN F ELSE frames[i]
  <2>1. frames' = [frames EXCEPT ![n] = F]
    BY <1>1, <1>2
  <2>2. frames \in Seq(Frame)
    BY DEF TypeOK
  <2> HIDE DEF F
  <2> QED BY <1>2, <1>3, <2>1, <2>2, ExceptSeq
<1>5. \A i \in 1..n : frames[i] \in Frame
  BY FrameAt
<1> HIDE DEF F, n
<1>6. SameFns(frames', frames)
  BY <1>2, <1>3, <1>4 DEF SameFns, n
<1>7. build_state[Top.fn] = "UNBUILT" /\ Top.fn \in Fn /\ Top.fn <= funcs
  BY <1>1, <1>2 DEF FramesOK, Frame, n
<1>8. \A i \in 1..n : i # n => frames[i].fn # Top.fn \/ ~frames[i].isNew
  BY <1>1, <1>2 DEF FramesOK, n
<1>9. FramesOK'
  <2>1. ASSUME NEW i \in 1..Len(frames')
        PROVE  /\ frames'[i].stage = "body" =>
                     frames'[i].isNew /\ build_state'[frames'[i].fn] = "BUILDING"
               /\ frames'[i].stage = "args" =>
                     /\ frames'[i].caller # NoFn
                     /\ build_state'[frames'[i].fn] =
                           IF frames'[i].isNew THEN "UNBUILT" ELSE "BUILT"
               /\ frames'[i].fn <= funcs'
               /\ frames'[i].caller # NoFn =>
                     \E k \in 1..(i-1) :
                         frames'[k].stage = "body" /\ frames'[k].fn = frames'[i].caller
    <3>1. i \in 1..n
      BY <1>4
    <3>2. frames[i].caller # NoFn =>
             \E k \in 1..(i-1) : frames[k].stage = "body" /\ frames[k].fn = frames[i].caller
      BY <3>1 DEF FramesOK, n
    <3>3. frames'[i].caller = frames[i].caller /\ frames'[i].fn = frames[i].fn
          /\ frames'[i].isNew = frames[i].isNew
      BY <1>2, <1>3, <1>4, <3>1
    <3>4. \A k \in 1..(i-1) : k \in 1..n /\ k # n /\ frames'[k] = frames[k]
      BY <1>2, <1>4, <3>1
    <3>5. frames'[i].caller # NoFn =>
             \E k \in 1..(i-1) :
                 frames'[k].stage = "body" /\ frames'[k].fn = frames'[i].caller
      BY <3>2, <3>3, <3>4
    <3>6. frames'[i].fn <= funcs'
      BY <1>1, <3>1, <3>3 DEF FramesOK, n
    <3>7. CASE i = n
      <4>1. frames'[i].stage = "body" /\ frames'[i].isNew
            /\ build_state'[frames'[i].fn] = "BUILDING"
        BY <1>1, <1>2, <1>3, <1>4, <1>7, <3>7 DEF TypeOK
      <4> QED BY <3>5, <3>6, <4>1
    <3>8. CASE i # n
      <4>1. frames'[i] = frames[i]
        BY <1>4, <3>1, <3>8
      <4>2. /\ frames[i].stage = "body" =>
                 frames[i].isNew /\ build_state[frames[i].fn] = "BUILDING"
            /\ frames[i].stage = "args" =>
                 /\ frames[i].caller # NoFn
                 /\ build_state[frames[i].fn] =
                       IF frames[i].isNew THEN "UNBUILT" ELSE "BUILT"
        BY <3>1 DEF FramesOK, n
      <4>3. frames[i].stage \in {"args", "body"} /\ frames[i].isNew \in BOOLEAN
            /\ frames[i].fn \in Fn
        BY <1>5, <3>1 DEF Frame
      <4>4. frames[i].fn # Top.fn
        <5>1. CASE frames[i].isNew
          BY <1>8, <3>1, <3>8, <5>1
        <5>2. CASE ~frames[i].isNew
          BY <1>7, <4>2, <4>3, <5>2
        <5> QED BY <5>1, <5>2
      <4>5. build_state'[frames[i].fn] = build_state[frames[i].fn]
        BY <1>1, <4>3, <4>4 DEF TypeOK
      <4> QED BY <3>5, <3>6, <4>1, <4>2, <4>5
    <3> QED BY <3>7, <3>8
  <2>2. ASSUME NEW i \in 1..Len(frames'), NEW j \in 1..Len(frames'),
               i # j, frames'[i].isNew, frames'[j].isNew
        PROVE  frames'[i].fn # frames'[j].fn
    BY <1>6, <2>2 DEF FramesOK, SameFns
  <2> QED BY <2>1, <2>2 DEF FramesOK
<1>10. TypeOK'
  BY <1>1, <1>4 DEF TypeOK
<1>11. CallsOrdered'
  <2>1. \A f \in Fn : build_state'[f] = "BUILT" <=> build_state[f] = "BUILT"
    BY <1>1, <1>7 DEF TypeOK
  <2>2. \A e \in calls : e[1] \in Fn /\ e[2] \in Fn
    BY DEF TypeOK
  <2> QED BY <1>1, <2>1, <2>2 DEF CallsOrdered
<1>12. Accounted'
  <2>1. \A f \in Fn : build_state'[f] = "BUILT" <=> build_state[f] = "BUILT"
    BY <1>1, <1>7 DEF TypeOK
  <2>2. \A f \in Fn : f > funcs => f # Top.fn
    BY <1>7, ParamsAssumption DEF TypeOK, Fn
  <2>3. \A f \in Fn : f > funcs => build_state'[f] = build_state[f]
    BY <1>1, <2>2 DEF TypeOK
  <2> QED BY <1>1, <1>6, <2>1, <2>3, SameFnsAccounted
<1> QED BY <1>9, <1>10, <1>11, <1>12

\* A body is complete.  Its function becomes BUILT after all its callees are.
LEMMA FinishStep == ASSUME IInv, FinishBody \/ FinishFirst PROVE IInv'
<1> USE DEF IInv
<1>1. /\ phase = "generate" /\ frames # << >> /\ Top.stage = "body"
      /\ build_state' = [build_state EXCEPT ![Top.fn] = "BUILT"]
      /\ clock' = clock + 1
      /\ order' = [order EXCEPT ![Top.fn] = clock + 1]
      /\ frames' = Below
      /\ UNCHANGED <<round, cur_func_idx, funcs, builtin_functions_cnt, param,
                     ops, direct, fact_changed, skipped>>
      /\ \/ Top.caller # NoFn /\ calls' = calls \cup {<<Top.caller, Top.fn>>}
         \/ calls' = calls
      /\ phase' = "generate" \/ (phase' = "worklist" /\ Top.caller = NoFn)
  <2>1. CASE FinishBody
    <3>1. phase = "generate" /\ frames # << >> /\ Top.stage = "body" /\ Top.caller # NoFn
      BY <2>1 DEF FinishBody, InBody
    <3>2. /\ build_state' = [build_state EXCEPT ![Top.fn] = "BUILT"]
          /\ clock' = clock + 1
          /\ order' = [order EXCEPT ![Top.fn] = clock + 1]
          /\ frames' = Below
          /\ calls' = calls \cup {<<Top.caller, Top.fn>>}
      BY <2>1 DEF FinishBody
    <3>3. UNCHANGED <<phase, round, cur_func_idx, funcs, builtin_functions_cnt, param,
                      ops, direct, fact_changed, skipped>>
      BY <2>1 DEF FinishBody, progress
    <3>4. phase' = "generate"
      BY <3>1, <3>3
    <3> QED BY <3>1, <3>2, <3>3, <3>4
  <2>2. CASE FinishFirst
    BY <2>2 DEF FinishFirst, InBody
  <2> QED BY <2>1, <2>2
<1>2. Len(frames) \in Nat \ {0} /\ Top \in Frame
      /\ Top = frames[Len(frames)] /\ Len(frames) \in 1..Len(frames)
  BY <1>1, TopFacts DEF Top
<1>3. /\ Top.fn \in Fn /\ Top.caller \in Fn \cup {NoFn} /\ Top.isNew
      /\ build_state[Top.fn] = "BUILDING"
  BY <1>1, <1>2 DEF FramesOK, Frame
<1>4. FramesOK' /\ frames' \in Seq(Frame)
  BY <1>1, PopFramesOK
<1>5. Top.caller # NoFn => Top.caller # Top.fn /\ build_state[Top.caller] = "BUILDING"
  <2>1. SUFFICES ASSUME Top.caller # NoFn
                 PROVE  Top.caller # Top.fn /\ build_state[Top.caller] = "BUILDING"
    OBVIOUS
  <2>2. PICK k \in 1..(Len(frames) - 1) :
            frames[k].stage = "body" /\ frames[k].fn = Top.caller
    BY <1>2, <2>1 DEF FramesOK
  <2>3. k \in 1..Len(frames) /\ k # Len(frames)
    BY <1>2
  <2>4. frames[k].isNew /\ build_state[frames[k].fn] = "BUILDING"
    BY <2>2, <2>3 DEF FramesOK
  <2>5. frames[k].fn # Top.fn
    BY <1>2, <1>3, <2>3, <2>4 DEF FramesOK
  <2> QED BY <2>2, <2>4, <2>5
<1>6. TypeOK'
  <2>1. calls' \in SUBSET (Fn \X Fn)
    BY <1>1, <1>3 DEF TypeOK
  <2>2. union_field_read' \in [Fn -> BOOLEAN]
    <3>1. union_field_read \in [Fn -> BOOLEAN]
      BY DEF TypeOK
    <3>2. ASSUME NEW f \in Fn PROVE read_union_field(f) \in BOOLEAN
      BY DEF read_union_field
    <3>3. CASE FinishBody
      BY <1>3, <3>1, <3>2, <3>3 DEF FinishBody
    <3>4. CASE FinishFirst
      BY <3>1, <3>4 DEF FinishFirst
    <3> QED BY <3>3, <3>4
  <2>3. referenced_ptrs' \in [Fn -> BOOLEAN]
    <3>1. referenced_ptrs \in [Fn -> BOOLEAN]
      BY DEF TypeOK
    <3>2. ASSUME NEW f \in Fn PROVE get_referenced_ptrs(f) \in BOOLEAN
      BY DEF get_referenced_ptrs
    <3> QED BY <1>3, <3>1, <3>2 DEF FinishBody, FinishFirst
  <2>4. order' \in [Fn -> Nat] /\ clock' \in Nat
    <3>1. order \in [Fn -> Nat] /\ clock + 1 \in Nat
      BY DEF TypeOK
    <3> QED BY <1>1, <3>1
  <2>5. build_state' \in [Fn -> {"UNBUILT", "BUILDING", "BUILT"}]
    BY <1>1 DEF TypeOK
  <2>6. phase' \in {"builtins", "generate", "worklist", "done", "failed"}
    BY <1>1
  <2> QED BY <1>1, <1>4, <2>1, <2>2, <2>3, <2>4, <2>5, <2>6 DEF TypeOK
<1>7. CallsOrdered'
  <2>1. order \in [Fn -> Nat] /\ clock \in Nat
        /\ build_state \in [Fn -> {"UNBUILT", "BUILDING", "BUILT"}]
        /\ \A f \in Fn : order[f] <= clock
    BY DEF TypeOK, CallsOrdered
  <2>2. \A f \in Fn : order'[f] <= clock'
    BY <1>1, <2>1
  <2>3. ASSUME NEW e \in calls
        PROVE  /\ build_state'[e[2]] = "BUILT"
               /\ build_state'[e[1]] = "BUILT" => order'[e[2]] < order'[e[1]]
    <3>1. e[1] \in Fn /\ e[2] \in Fn
      BY DEF TypeOK
    <3>2. build_state[e[2]] = "BUILT" /\ e[2] # Top.fn
      BY <1>3 DEF CallsOrdered
    <3>3. build_state'[e[2]] = "BUILT" /\ order'[e[2]] = order[e[2]]
      BY <1>1, <2>1, <3>1, <3>2
    <3>4. CASE e[1] = Top.fn
      BY <1>1, <2>1, <3>1, <3>3, <3>4
    <3>5. CASE e[1] # Top.fn
      <4>1. build_state'[e[1]] = build_state[e[1]] /\ order'[e[1]] = order[e[1]]
        BY <1>1, <2>1, <3>1, <3>5
      <4> QED BY <3>3, <4>1 DEF CallsOrdered
    <3> QED BY <3>4, <3>5
  <2>4. ASSUME Top.caller # NoFn, NEW e, e = <<Top.caller, Top.fn>>
        PROVE  /\ build_state'[e[2]] = "BUILT"
               /\ build_state'[e[1]] # "BUILT"
    BY <1>1, <1>3, <1>5, <2>1, <2>4
  <2> QED BY <1>1, <2>2, <2>3, <2>4 DEF CallsOrdered
<1>8. Accounted'
  <2>1. /\ Len(frames') = Len(frames) - 1
        /\ \A i \in 1..(Len(frames) - 1) : frames'[i] = frames[i]
    BY <1>1, PopFacts DEF Below, TypeOK
  <2>2. ASSUME NEW f \in Fn, f <= funcs', build_state'[f] # "BUILT"
        PROVE  \E i \in 1..Len(frames') : frames'[i].isNew /\ frames'[i].fn = f
    <3>1. f # Top.fn /\ build_state[f] # "BUILT"
      BY <1>1, <1>3, <2>2 DEF TypeOK
    <3>2. PICK i \in 1..Len(frames) : frames[i].isNew /\ frames[i].fn = f
      BY <1>1, <2>2, <3>1 DEF Accounted
    <3>3. i # Len(frames)
      BY <1>2, <3>1, <3>2
    <3>4. i \in 1..(Len(frames) - 1)
      BY <1>2, <3>3
    <3> QED BY <2>1, <3>2, <3>4
  <2>3. \A i \in 1..Len(frames') : frames'[i].caller = NoFn => i = 1
    <3>1. \A i \in 1..Len(frames') : i \in 1..Len(frames) /\ frames'[i] = frames[i]
      BY <1>2, <2>1
    <3> QED BY <3>1 DEF Accounted
  <2>4. phase' # "generate" => frames' = << >>
    <3>1. Top.caller = NoFn => Len(frames) = 1
      BY <1>2 DEF Accounted
    <3>2. Top.caller = NoFn => Len(frames') = 0
      <4> DEFINE m == Len(frames)
      <4>1. Len(frames') = m - 1 /\ (Top.caller = NoFn => m = 1)
        BY <2>1, <3>1
      <4> HIDE DEF m
      <4> QED BY <4>1
    <3> QED BY <1>1, <1>4, <3>2, EmptySeq
  <2>5. \A f \in Fn : f > funcs' => build_state'[f] = "UNBUILT"
    <3>1. Top.fn <= funcs
      BY <1>2 DEF FramesOK
    <3>2. \A f \in Fn : f > funcs => f # Top.fn
      BY <1>3, <3>1, ParamsAssumption DEF TypeOK, Fn
    <3> QED BY <1>1, <3>2 DEF Accounted, TypeOK
  <2> QED BY <2>2, <2>3, <2>4, <2>5 DEF Accounted
<1> QED BY <1>4, <1>6, <1>7, <1>8

\* Everything that happens outside the generation of a body: the stack is empty,
\* but for the frame of the first function that MakeFirst pushes.
LEMMA DriverStep ==
    ASSUME IInv,
           \/ MakeBuiltin \/ MakeFirst \/ WorklistStep \/ WorklistEnd
           \/ Abandon \/ NextRound \/ Stop
    PROVE  IInv'
<1> USE DEF IInv
<1>1. funcs \in Nat /\ FuncCap \in Nat /\ Builtins \in Nat /\ MaxFuncs \in Nat \ {0}
      /\ FuncCap >= Builtins + MaxFuncs /\ Rounds \in Nat \ {0} /\ MaxParams \in Nat
      /\ cur_func_idx \in Nat /\ clock \in Nat
  BY ParamsAssumption DEF TypeOK
<1>2. phase # "generate" => frames = << >> /\ Len(frames) = 0
  BY EmptySeq DEF Accounted
<1>3. CASE MakeBuiltin
  <2>1. /\ phase = "builtins" /\ funcs < Builtins /\ funcs' = funcs + 1
        /\ frames' = frames /\ phase' = phase /\ calls' = calls
        /\ build_state' = [build_state EXCEPT ![funcs + 1] = "BUILT"]
        /\ clock' = clock + 1 /\ order' = [order EXCEPT ![funcs + 1] = clock + 1]
    BY <1>3 DEF MakeBuiltin, progress
  <2>2. funcs + 1 \in Fn /\ funcs + 1 \in 0..FuncCap
    BY <1>1, <2>1 DEF Fn
  <2>3. param' \in [Fn -> 0..MaxParams]
    BY <1>3, <2>2 DEF MakeBuiltin, TypeOK
  <2>4. order' \in [Fn -> Nat] /\ clock' \in Nat
    <3>1. order \in [Fn -> Nat] /\ clock + 1 \in Nat
      BY <1>1 DEF TypeOK
    <3> QED BY <2>1, <3>1
  <2>5. build_state' \in [Fn -> {"UNBUILT", "BUILDING", "BUILT"}]
    BY <2>1 DEF TypeOK
  <2>6. builtin_functions_cnt' \in Nat
    BY <1>3 DEF MakeBuiltin, TypeOK
  <2>7. TypeOK'
    BY <1>3, <2>1, <2>2, <2>3, <2>4, <2>5, <2>6
    DEF MakeBuiltin, TypeOK, progress, summaries
  <2>8. build_state[funcs + 1] = "UNBUILT"
    BY <1>1, <2>2 DEF Accounted
  <2>9. FramesOK'
    BY <1>2, <2>1 DEF FramesOK
  <2>10. CallsOrdered'
    <3>1. \A f \in Fn : order'[f] <= clock'
      <4>1. order \in [Fn -> Nat] /\ \A f \in Fn : order[f] <= clock
        BY DEF TypeOK, CallsOrdered
      <4> QED BY <1>1, <2>1, <4>1
    <3>2. ASSUME NEW e \in calls
          PROVE  /\ build_state'[e[2]] = "BUILT"
                 /\ build_state'[e[1]] = "BUILT" => order'[e[2]] < order'[e[1]]
      <4>1. e[1] \in Fn /\ e[2] \in Fn /\ build_state[e[2]] = "BUILT"
            /\ order[e[2]] \in Nat /\ order[e[2]] <= clock
        BY DEF TypeOK, CallsOrdered
      <4>2. e[2] # funcs + 1
        BY <2>8, <4>1
      <4>3. build_state'[e[2]] = "BUILT" /\ order'[e[2]] = order[e[2]]
        BY <2>1, <4>1, <4>2 DEF TypeOK
      <4>4. CASE e[1] = funcs + 1
        <5>1. order'[e[1]] = clock + 1
          BY <2>1, <2>2, <4>4 DEF TypeOK
        <5>2. order[e[2]] < clock + 1
          BY <1>1, <4>1
        <5> QED BY <4>3, <5>1, <5>2
      <4>5. CASE e[1] # funcs + 1
        <5>1. build_state'[e[1]] = build_state[e[1]] /\ order'[e[1]] = order[e[1]]
          BY <2>1, <4>1, <4>5 DEF TypeOK
        <5> QED BY <4>3, <5>1 DEF CallsOrdered
      <4> QED BY <4>4, <4>5
    <3> QED BY <2>1, <3>1, <3>2 DEF CallsOrdered
  <2>11. Accounted'
    <3>1. \A f \in Fn : f > funcs + 1 => build_state'[f] = "UNBUILT"
      <4>1. \A f \in Fn : f > funcs + 1 => f > funcs /\ f # funcs + 1
        BY <1>1 DEF Fn
      <4> QED BY <2>1, <4>1 DEF Accounted, TypeOK
    <3>2. ASSUME NEW f \in Fn, f <= funcs + 1, build_state'[f] # "BUILT"
          PROVE  f <= funcs /\ build_state[f] # "BUILT"
      <4>1. f # funcs + 1
        BY <2>1, <2>2, <3>2 DEF TypeOK
      <4>2. f <= funcs
        BY <1>1, <3>2, <4>1 DEF Fn
      <4> QED BY <2>1, <3>2, <4>1, <4>2 DEF TypeOK
    <3> QED BY <2>1, <3>1, <3>2 DEF Accounted
  <2> QED BY <2>7, <2>9, <2>10, <2>11
<1>4. CASE MakeFirst
  <2> DEFINE F == [stage |-> "body", fn |-> funcs + 1, caller |-> NoFn,
                   isNew |-> TRUE, params |-> 0]
  <2>1. /\ phase = "builtins" /\ phase' = "generate" /\ funcs = Builtins
        /\ funcs' = funcs + 1 /\ frames' = <<F>> /\ calls' = calls
        /\ build_state' = [build_state EXCEPT ![funcs + 1] = "BUILDING"]
        /\ order' = order /\ clock' = clock
    BY <1>4 DEF MakeFirst, history
  <2>2. funcs + 1 \in Fn /\ funcs + 1 \in 0..FuncCap
    BY <1>1, <2>1 DEF Fn
  <2>3. F \in Frame
    BY <1>1, <2>2 DEF Frame
  <2>4. F.stage = "body" /\ F.fn = funcs + 1 /\ F.caller = NoFn /\ F.isNew
    OBVIOUS
  <2> HIDE DEF F
  <2>5. frames' \in Seq(Frame) /\ Len(frames') = 1 /\ frames'[1] = F
    BY <2>1, <2>3
  <2>6. TypeOK'
    <3>1. build_state' \in [Fn -> {"UNBUILT", "BUILDING", "BUILT"}]
      BY <2>1 DEF TypeOK
    <3> QED BY <1>4, <2>1, <2>2, <2>5, <3>1 DEF MakeFirst, TypeOK, summaries, history
  <2>7. build_state'[funcs + 1] = "BUILDING" /\ build_state[funcs + 1] = "UNBUILT"
    BY <1>1, <2>1, <2>2 DEF TypeOK, Accounted
  <2>8. FramesOK'
    BY <1>1, <2>1, <2>4, <2>5, <2>7 DEF FramesOK
  <2>9. CallsOrdered'
    <3>1. \A f \in Fn : build_state'[f] = "BUILT" <=> build_state[f] = "BUILT"
      BY <2>1, <2>7 DEF TypeOK
    <3>2. \A e \in calls : e[1] \in Fn /\ e[2] \in Fn
      BY DEF TypeOK
    <3> QED BY <2>1, <3>1, <3>2 DEF CallsOrdered
  <2>10. Accounted'
    <3>1. \A f \in Fn : f > funcs + 1 => build_state'[f] = "UNBUILT"
      <4>1. \A f \in Fn : f > funcs + 1 => f > funcs /\ f # funcs + 1
        BY <1>1 DEF Fn
      <4> QED BY <2>1, <4>1 DEF Accounted, TypeOK
    <3>2. ASSUME NEW f \in Fn, f <= funcs + 1, build_state'[f] # "BUILT"
          PROVE  f = funcs + 1
      <4>1. SUFFICES ASSUME f # funcs + 1 PROVE FALSE
        OBVIOUS
      <4>2. f <= funcs
        BY <1>1, <3>2, <4>1 DEF Fn
      <4>3. build_state[f] # "BUILT"
        BY <2>1, <3>2, <4>1 DEF TypeOK
      <4> QED BY <1>2, <2>1, <4>2, <4>3 DEF Accounted
    <3>3. \A i \in 1..Len(frames') : i = 1
      BY <2>5
    <3>4. 1 \in 1..Len(frames')
      BY <2>5
    <3> QED BY <2>1, <2>4, <2>5, <3>1, <3>2, <3>3, <3>4 DEF Accounted
  <2> QED BY <2>6, <2>8, <2>9, <2>10
<1>5. CASE WorklistStep \/ WorklistEnd
  <2>1. /\ phase = "worklist" /\ phase' \in {"worklist", "done"}
        /\ UNCHANGED <<round, funcs, builtin_functions_cnt, build_state, param, frames,
                       ops, direct, calls, fact_changed, union_field_read,
                       referenced_ptrs, skipped, order, clock>>
    BY <1>5 DEF WorklistStep, WorklistEnd, summaries, history
  <2>2. cur_func_idx' \in 0..FuncCap
    <3>1. CASE WorklistStep
      <4>1. cur_func_idx' = cur_func_idx + 1 /\ cur_func_idx < funcs
        BY <3>1 DEF WorklistStep
      <4>2. funcs \in 0..FuncCap
        BY DEF TypeOK
      <4> QED BY <1>1, <4>1, <4>2
    <3>2. CASE WorklistEnd
      BY <3>2 DEF WorklistEnd, TypeOK
    <3> QED BY <1>5, <3>1, <3>2
  <2>3. TypeOK'
    BY <2>1, <2>2 DEF TypeOK
  <2>4. FramesOK' /\ CallsOrdered' /\ Accounted'
    BY <2>1 DEF FramesOK, CallsOrdered, Accounted
  <2> QED BY <2>3, <2>4
<1>6. CASE NextRound
  <2>1. /\ phase \in {"done", "failed"} /\ phase' = "builtins"
        /\ round' = round + 1 /\ round < Rounds
        /\ frames' = frames /\ calls' = {} /\ funcs' = 0 /\ cur_func_idx' = 0
        /\ build_state' = [f \in Fn |-> "UNBUILT"]
        /\ order' = [f \in Fn |-> 0] /\ clock' = 0
        /\ builtin_functions_cnt' = builtin_functions_cnt
    BY <1>6 DEF NextRound
  <2>2. TypeOK'
    <3>1. round' \in 1..Rounds
      BY <1>1, <2>1 DEF TypeOK
    <3>2. /\ param' \in [Fn -> 0..MaxParams] /\ ops' \in [Fn -> 0..MaxOps]
          /\ direct' \in [Fn -> SUBSET Kinds]
      BY <1>6, ParamsAssumption DEF NextRound
    <3>3. /\ fact_changed' \in [Fn -> BOOLEAN] /\ union_field_read' \in [Fn -> BOOLEAN]
          /\ referenced_ptrs' \in [Fn -> BOOLEAN]
      BY <1>6 DEF NextRound
    <3>4. order' \in [Fn -> Nat] /\ build_state' \in [Fn -> {"UNBUILT", "BUILDING", "BUILT"}]
      BY <2>1
    <3>5. skipped' = {} /\ frames' = frames /\ 0 \in 0..FuncCap
      BY <1>1, <1>6 DEF NextRound
    <3> QED BY <2>1, <3>1, <3>2, <3>3, <3>4, <3>5 DEF TypeOK
  <2>3. FramesOK' /\ CallsOrdered' /\ Accounted'
    BY <1>2, <2>1 DEF FramesOK, CallsOrdered, Accounted, Fn
  <2> QED BY <2>2, <2>3
<1>7. CASE Stop
  <2>1. UNCHANGED vars
    BY <1>7 DEF Stop
  <2> QED BY <2>1 DEF vars, TypeOK, FramesOK, CallsOrdered, Accounted
<1>8. CASE Abandon
  <2>1. /\ phase' = "failed" /\ frames' = << >>
        /\ UNCHANGED <<round, cur_func_idx, funcs, builtin_functions_cnt, build_state,
                       param, ops, direct, calls, fact_changed, union_field_read,
                       referenced_ptrs, skipped, order, clock>>
    BY <1>8 DEF Abandon, summaries, history
  <2>2. frames' \in Seq(Frame) /\ Len(frames') = 0
    BY <2>1, EmptySeq
  <2>3. TypeOK'
    BY <2>1, <2>2 DEF TypeOK
  <2>4. FramesOK' /\ CallsOrdered'
    BY <2>1, <2>2 DEF FramesOK, CallsOrdered
  <2>5. Accounted'
    BY <2>1, <2>2 DEF Accounted
  <2> QED BY <2>3, <2>4, <2>5
<1> QED BY <1>3, <1>4, <1>5, <1>6, <1>7, <1>8

-----------------------------------------------------------------------------

\* The invariant is inductive: one case per action of Next.
LEMMA NextIInv == IInv /\ [Next]_vars => IInv'
<1> SUFFICES ASSUME IInv, [Next]_vars PROVE IInv'
  OBVIOUS
<1>1. CASE \/ MakeBuiltin \/ MakeFirst \/ WorklistStep \/ WorklistEnd
            \/ Abandon \/ NextRound \/ Stop
  BY <1>1, DriverStep
<1>2. CASE (\E g \in Fn : CallExisting(g)) \/ CallNew
  BY <1>2, CallStep
<1>3. CASE FillArg
  BY <1>3, FillArgStep
<1>4. CASE RevisitCallee \/ SkipCallee
  BY <1>4, CallDoneStep
<1>5. CASE StartBody
  BY <1>5, StartBodyStep
<1>6. CASE (\E k \in Kinds : MakeStatement(k)) \/ RemoveStatement
  BY <1>6, StatementStep
<1>7. CASE FinishBody \/ FinishFirst
  BY <1>7, FinishStep
<1>8. CASE UNCHANGED vars
  BY <1>8 DEF vars, IInv, TypeOK, FramesOK, CallsOrdered, Accounted
<1> QED BY <1>1, <1>2, <1>3, <1>4, <1>5, <1>6, <1>7, <1>8 DEF Next

\* The inductive invariant of the generator: what is on its stack and which
\* functions are BUILT always fit together, and calls lead to earlier functions.
THEOREM GeneratorInvariant == Spec => []IInv
<1>1. Init => IInv
  BY InitIInv
<1>2. IInv /\ [Next]_vars => IInv'
  BY NextIInv
<1> QED BY <1>1, <1>2, PTL DEF Spec

\* Every variable of the generator keeps its type, whatever the limits are.
THEOREM TypeCorrect == Spec => []TypeOK
<1>1. IInv => TypeOK
  BY DEF IInv
<1> QED BY <1>1, GeneratorInvariant, PTL

\* A set of functions that are all BUILT has an earliest one.
LEMMA EarliestBuilt ==
    ASSUME TypeOK, NEW S \in SUBSET Fn, S # {}
    PROVE  \E f \in S : \A g \in S : order[f] <= order[g]
<1> DEFINE T == {order[f] : f \in S}
<1>1. T \subseteq Nat /\ T # {}
  BY DEF TypeOK
<1>2. PICK m \in T : \A n \in T : ~(<<n, m>> \in OpToRel(<, Nat))
  BY <1>1, NatLessThanWellFounded, WFMin
<1>3. \A n \in T : ~(<<n, m>> \in {ss \in Nat \X Nat : ss[1] < ss[2]})
  BY <1>2, Zenon DEF OpToRel
<1> HIDE DEF T
<1>4. ASSUME NEW n \in T PROVE m <= n
  <2>1. n \in Nat /\ m \in Nat /\ <<n, m>> \notin {ss \in Nat \X Nat : ss[1] < ss[2]}
    BY <1>1, <1>2, <1>3, Zenon
  <2>2. ~(n < m)
    BY <2>1
  <2> QED BY <2>1, <2>2
<1>5. \A f \in S : order[f] \in T
  BY DEF T
<1>6. PICK f \in S : m = order[f]
  BY <1>2, Zenon DEF T
<1> QED BY <1>4, <1>5, <1>6

\* No group of generated functions calls only within itself: the call graph has
\* no cycle, so every program that HIPSmith writes ends its calls.  Calls lead to
\* functions BUILT earlier; the earliest BUILT member of a group, if it has one,
\* therefore calls none of the group, and otherwise no member is BUILT while every
\* call leads to a BUILT function.
THEOREM NoRecursionHolds == Spec => []NoRecursion
<1>1. IInv => NoRecursion
  <2> SUFFICES ASSUME IInv, NEW S \in SUBSET Fn, S # {}
               PROVE  \E f \in S : \A g \in S : <<f, g>> \notin calls
    BY DEF NoRecursion
  <2> DEFINE B == {f \in S : build_state[f] = "BUILT"}
  <2>1. CASE B = {}
    BY <2>1 DEF IInv, CallsOrdered
  <2>2. CASE B # {}
    <3>1. PICK f \in B : \A g \in B : order[f] <= order[g]
      <4>1. B \in SUBSET Fn
        OBVIOUS
      <4> HIDE DEF B
      <4> QED BY <2>2, <4>1, EarliestBuilt DEF IInv
    <3>2. ASSUME NEW g \in S, <<f, g>> \in calls PROVE FALSE
      <4>1. build_state[g] = "BUILT" /\ order[g] < order[f]
        BY <3>2 DEF IInv, CallsOrdered
      <4>2. order[f] <= order[g]
        BY <3>1, <4>1
      <4>3. order[f] \in Nat /\ order[g] \in Nat
        BY DEF IInv, TypeOK
      <4> QED BY <4>1, <4>2, <4>3
    <3> QED BY <3>2
  <2> QED BY <2>1, <2>2
<1> QED BY <1>1, GeneratorInvariant, PTL

\* When GenerateFunctions reaches its loop over FuncList, nothing is left to build:
\* a function that is not BUILT is on the stack, and the stack is empty.
THEOREM WorklistIdleHolds == Spec => []WorklistIdle
<1>1. IInv => WorklistIdle
  <2> SUFFICES ASSUME IInv, phase \in {"worklist", "done"},
                      NEW f \in Fn, f <= funcs, build_state[f] # "BUILT"
               PROVE  FALSE
    BY DEF WorklistIdle
  <2>1. frames = << >> /\ Len(frames) = 0
    BY EmptySeq DEF IInv, Accounted
  <2> QED BY <2>1 DEF IInv, Accounted
<1> QED BY <1>1, GeneratorInvariant, PTL

\* What one step may do to a function that is BUILT.
FrozenStep ==
    \A f \in Fn :
       build_state[f] = "BUILT" /\ round' = round =>
          /\ build_state'[f] = "BUILT"
          /\ {e \in calls' : e[1] = f} = {e \in calls : e[1] = f}
          /\ direct'[f] = direct[f]

LEMMA FrozenKept == IInv /\ [Next]_vars => [FrozenStep]_vars
<1> SUFFICES ASSUME IInv, Next, NEW f \in Fn, build_state[f] = "BUILT", round' = round
             PROVE  /\ build_state'[f] = "BUILT"
                    /\ {e \in calls' : e[1] = f} = {e \in calls : e[1] = f}
                    /\ direct'[f] = direct[f]
  BY DEF FrozenStep
<1>1. /\ build_state \in [Fn -> {"UNBUILT", "BUILDING", "BUILT"}]
      /\ direct \in [Fn -> SUBSET Kinds]
  BY DEF IInv, TypeOK
<1>2. CASE MakeBuiltin \/ MakeFirst
  <2>1. f <= funcs
    BY DEF IInv, Accounted, TypeOK, Fn
  <2>2. f # funcs + 1
    <3>1. f \in Nat /\ funcs \in Nat
      BY DEF IInv, TypeOK, Fn
    <3> QED BY <2>1, <3>1
  <2> QED BY <1>1, <1>2, <2>2 DEF MakeBuiltin, MakeFirst
<1>3. CASE \/ (\E g \in Fn : CallExisting(g)) \/ CallNew \/ FillArg
           \/ WorklistStep \/ WorklistEnd \/ Abandon
  BY <1>3 DEF CallExisting, CallNew, FillArg, WorklistStep, WorklistEnd, Abandon
<1>4. CASE RevisitCallee \/ SkipCallee
  <2>1. /\ phase = "generate" /\ frames # << >> /\ Top.stage = "args"
        /\ \A e : e[1] # Top.caller => (e \in calls' <=> e \in calls)
        /\ build_state' = build_state /\ direct' = direct
    BY <1>4 DEF RevisitCallee, SkipCallee, ArgsComplete
  <2>2. build_state[Top.caller] = "BUILDING"
    BY <2>1, TopFacts DEF IInv, CurrentFunc
  <2> QED BY <2>1, <2>2
<1>5. CASE StartBody
  <2>1. build_state[Top.fn] = "UNBUILT"
    BY <1>5 DEF StartBody
  <2> QED BY <1>1, <1>5, <2>1 DEF StartBody
<1>6. CASE (\E k \in Kinds : MakeStatement(k)) \/ RemoveStatement \/ FinishBody \/ FinishFirst
  <2>1. phase = "generate" /\ frames # << >> /\ Top.stage = "body"
    BY <1>6 DEF MakeStatement, RemoveStatement, FinishBody, FinishFirst, InBody
  <2>2. f # Top.fn
    BY <2>1, TopFacts DEF IInv, CurrentFunc
  <2>3. CASE (\E k \in Kinds : MakeStatement(k)) \/ RemoveStatement
    <3>1. build_state' = build_state
      BY <2>3 DEF MakeStatement, RemoveStatement
    <3>2. direct'[f] = direct[f]
      BY <1>1, <2>2, <2>3 DEF MakeStatement, RemoveStatement
    <3>3. \A e : e[1] = f => (e \in calls' <=> e \in calls)
      BY <2>2, <2>3 DEF MakeStatement, RemoveStatement
    <3> QED BY <3>1, <3>2, <3>3
  <2>4. CASE FinishBody \/ FinishFirst
    <3>1. /\ build_state' = [build_state EXCEPT ![Top.fn] = "BUILT"]
          /\ direct' = direct
          /\ calls' = calls \/ (Top.caller # NoFn /\ calls' = calls \cup {<<Top.caller, Top.fn>>})
      BY <2>4 DEF FinishBody, FinishFirst
    <3>2. Top.caller # NoFn => build_state[Top.caller] = "BUILDING"
      <4>1. Len(frames) \in Nat \ {0} /\ Top = frames[Len(frames)]
        BY <2>1, TopFacts DEF IInv, Top
      <4>2. SUFFICES ASSUME Top.caller # NoFn
                     PROVE  build_state[Top.caller] = "BUILDING"
        OBVIOUS
      <4>3. PICK k \in 1..(Len(frames) - 1) :
                frames[k].stage = "body" /\ frames[k].fn = Top.caller
        BY <4>1, <4>2 DEF IInv, FramesOK
      <4>4. k \in 1..Len(frames)
        BY <4>1
      <4> QED BY <4>3, <4>4 DEF IInv, FramesOK
    <3> QED BY <1>1, <2>2, <3>1, <3>2
  <2> QED BY <1>6, <2>3, <2>4
<1>7. CASE NextRound
  <2>1. round \in Nat /\ round' = round + 1
    BY <1>7, ParamsAssumption DEF NextRound, IInv, TypeOK
  <2> QED BY <2>1
<1>8. CASE Stop
  BY <1>8 DEF Stop, vars
<1> QED BY <1>2, <1>3, <1>4, <1>5, <1>6, <1>7, <1>8 DEF Next

\* Once BUILT, a function keeps its calls and its statements, so the summary that
\* compute_summary took of it stays true: only the function of the top frame
\* changes, and its caller gains a call, and both are still BUILDING.
THEOREM BuiltIsFrozenHolds == Spec => BuiltIsFrozen
<1>1. [][FrozenStep]_vars <=> BuiltIsFrozen
  BY DEF FrozenStep, BuiltIsFrozen
<1> QED BY <1>1, FrozenKept, GeneratorInvariant, PTL DEF Spec

-----------------------------------------------------------------------------
(* The summaries of the functions that are BUILT.                          *)

\* The function make_first creates.
First == Builtins + 1

\* The summary of f covers its body and the functions it calls.
Marked(f) ==
    /\ "PtrAssign" \in direct[f] => referenced_ptrs[f]
    /\ "UnionRead" \in direct[f] => union_field_read[f]
    /\ \A g \in Callees(f) : /\ referenced_ptrs[g] => referenced_ptrs[f]
                             /\ union_field_read[g] => union_field_read[f]

Quiet(f) == ~referenced_ptrs[f] /\ ~union_field_read[f]

\* The invariant behind SkippedCallsStatic.  The first function is the exception: its
\* union_field_read is never set, but it is the last to be BUILT and nothing calls it.
SInv ==
    /\ frames # << >> => frames[1].fn = First
    /\ phase = "builtins" => calls = {} /\ skipped = {} /\ \A f \in Fn : direct[f] = {}
    /\ \A e \in calls : e[2] # First
    /\ \A f \in Fn : build_state[f] = "BUILT" /\ f # First => Marked(f)
    /\ \A e \in skipped : /\ build_state[e[2]] = "BUILT"
                          /\ e[2] = FirstFunction \/ Quiet(e[2])

LEMMA InitSInv == Init => SInv
  BY DEF Init, SInv, Fn

\* While anything is on the stack, the first function is BUILDING at its bottom.
LEMMA BottomFacts ==
    ASSUME IInv, SInv, frames # << >>
    PROVE  /\ build_state[First] = "BUILDING"
           /\ \A i \in 1..Len(frames) : frames[i].isNew /\ frames[i].fn = First => i = 1
           /\ frames[1].caller = NoFn
<1>1. Len(frames) \in Nat \ {0}
  BY TopFacts DEF IInv
<1>2. 1 \in 1..Len(frames) /\ frames[1] \in Frame
  BY <1>1, FrameAt DEF IInv
<1>3. frames[1].caller = NoFn
  <2>1. frames[1].caller # NoFn => \E k \in 1..(1 - 1) : frames[k].stage = "body"
    BY <1>2 DEF IInv, FramesOK
  <2> QED BY <2>1
<1>4. frames[1].stage = "body"
  BY <1>2, <1>3 DEF IInv, FramesOK, Frame
<1>5. frames[1].isNew /\ build_state[frames[1].fn] = "BUILDING" /\ frames[1].fn = First
  BY <1>2, <1>4 DEF IInv, FramesOK, SInv
<1> QED BY <1>2, <1>3, <1>5 DEF IInv, FramesOK

\* The function at the bottom of the stack stays there.
LEMMA BottomKept ==
    ASSUME IInv, SInv, Next
    PROVE  frames' # << >> => frames'[1].fn = First
<1> SUFFICES ASSUME frames' # << >> PROVE frames'[1].fn = First
  OBVIOUS
<1>1. frames # << >> => frames[1].fn = First
  BY DEF SInv
<1>2. frames \in Seq(Frame)
  BY DEF IInv, TypeOK
<1>3. CASE frames' = frames
  BY <1>1, <1>3
<1>4. CASE MakeFirst
  BY <1>4 DEF MakeFirst, First
<1>5. CASE frames # << >> /\ frames' = Below
  <2>1. /\ frames' \in Seq(Frame) /\ Len(frames) \in Nat
        /\ Len(frames') = Len(frames) - 1
        /\ \A i \in 1..(Len(frames) - 1) : frames'[i] = frames[i]
    BY <1>2, <1>5, PopFacts, FrameAt DEF IInv, Below
  <2>2. Len(frames') \in Nat \ {0}
    BY <2>1, EmptySeq, LenProperties
  <2>3. 1 \in 1..(Len(frames) - 1)
    BY <2>1, <2>2
  <2> QED BY <1>1, <1>5, <2>1, <2>3
<1>6. ASSUME NEW w \in Seq(Frame), frames # << >>, SameCalls(w, frames) PROVE w[1].fn = First /\ Len(w) \in Nat \ {0}
  <2>1. Len(frames) \in Nat \ {0}
    BY <1>6, TopFacts DEF IInv
  <2> QED BY <1>1, <1>6, <2>1 DEF SameCalls
<1>7. CASE FillArg
  BY <1>6, <1>7, ArgTaken DEF FillArg, IInv
<1>8. CASE (\E g \in Fn : CallExisting(g)) \/ CallNew
  <2>1. /\ frames # << >> /\ (Top.stage = "args" => Top.params > 0)
        /\ \E e : frames' = Append(WithArgTaken, e)
    BY <1>8 DEF CallExisting, CallNew, MayCall
  <2>2. WithArgTaken \in Seq(Frame) /\ SameCalls(WithArgTaken, frames)
    <3>1. CASE Top.stage = "args"
      BY <2>1, <3>1, ArgTaken DEF WithArgTaken, IInv
    <3>2. CASE Top.stage # "args"
      BY <1>2, <3>2 DEF WithArgTaken, SameCalls
    <3> QED BY <3>1, <3>2
  <2>3. WithArgTaken[1].fn = First /\ Len(WithArgTaken) \in Nat \ {0}
    BY <1>6, <2>1, <2>2
  <2> HIDE DEF WithArgTaken
  <2>4. frames'[1] = WithArgTaken[1]
    <3>1. PICK e : frames' = Append(WithArgTaken, e)
      BY <2>1
    <3> QED BY <2>2, <2>3, <3>1
  <2> QED BY <2>3, <2>4
<1>9. CASE StartBody
  <2>1. frames # << >> /\ frames' = [frames EXCEPT ![Len(frames)].stage = "body"]
    BY <1>9 DEF StartBody, ArgsComplete
  <2>2. Len(frames) \in Nat \ {0}
    BY <2>1, TopFacts DEF IInv
  <2>3. DOMAIN frames = 1..Len(frames)
    BY <1>2, LenProperties
  <2>4. frames'[1].fn = frames[1].fn
    <3>1. frames[1] \in Frame
      BY <2>2, FrameAt DEF IInv
    <3> QED BY <2>1, <2>2, <2>3, <3>1 DEF Frame
  <2> QED BY <1>1, <2>1, <2>4
<1>10. \/ frames' = frames \/ MakeFirst \/ (frames # << >> /\ frames' = Below) \/ FillArg
       \/ (\E g \in Fn : CallExisting(g)) \/ CallNew \/ StartBody \/ frames' = << >>
  BY DEF Next, MakeBuiltin, RevisitCallee, SkipCallee, ArgsComplete, MakeStatement, InBody,
         RemoveStatement, FinishBody, FinishFirst, WorklistStep, WorklistEnd, Abandon,
         NextRound, Stop, vars
<1> QED BY <1>3, <1>4, <1>5, <1>7, <1>8, <1>9, <1>10

\* A finished body is the first function's exactly when it is at the bottom.
LEMMA FinishedFirst ==
    ASSUME IInv, SInv, InBody
    PROVE  /\ Top.fn \in Fn /\ build_state[Top.fn] = "BUILDING"
           /\ Top.caller = NoFn <=> Top.fn = First
           /\ Top.caller # NoFn => Top.caller \in Fn /\ build_state[Top.caller] = "BUILDING"
           /\ Top.caller # Top.fn
<1>1. phase = "generate" /\ frames # << >> /\ Top.stage = "body"
  BY DEF InBody
<1>2. Len(frames) \in Nat \ {0} /\ Top = frames[Len(frames)] /\ Top \in Frame
  BY <1>1, TopFacts DEF IInv, Top
<1>3. Len(frames) \in 1..Len(frames)
  BY <1>2
<1>4. Top.isNew /\ build_state[Top.fn] = "BUILDING" /\ Top.fn \in Fn
  BY <1>1, <1>2, <1>3 DEF IInv, FramesOK, Frame
<1>5. Top.caller = NoFn => Len(frames) = 1
  BY <1>2, <1>3 DEF IInv, Accounted
<1>6. Top.caller = NoFn => Top.fn = First
  BY <1>1, <1>2, <1>5 DEF SInv
<1>7. Top.fn = First => Top.caller = NoFn
  <2>1. SUFFICES ASSUME Top.fn = First PROVE Top.caller = NoFn
    OBVIOUS
  <2>2. Len(frames) = 1
    BY <1>1, <1>2, <1>3, <1>4, <2>1, BottomFacts
  <2> QED BY <1>1, <1>2, <2>2, BottomFacts
<1>8. ASSUME Top.caller # NoFn
      PROVE  /\ Top.caller \in Fn /\ build_state[Top.caller] = "BUILDING"
             /\ Top.caller # Top.fn
  <2>1. PICK k \in 1..(Len(frames) - 1) :
            frames[k].stage = "body" /\ frames[k].fn = Top.caller
    BY <1>2, <1>3, <1>8 DEF IInv, FramesOK
  <2>2. k \in 1..Len(frames) /\ k # Len(frames)
    BY <1>2, <2>1
  <2>3. frames[k].isNew /\ build_state[frames[k].fn] = "BUILDING"
    BY <2>1, <2>2 DEF IInv, FramesOK
  <2>4. frames[k].fn # Top.fn
    BY <1>2, <1>3, <1>4, <2>2, <2>3 DEF IInv, FramesOK
  <2>5. Top.caller \in Fn
    BY <1>2, <1>8 DEF Frame
  <2> QED BY <2>1, <2>3, <2>4, <2>5
<1>9. Top.caller # Top.fn
  <2>1. CASE Top.caller = NoFn
    <3>1. Top.fn # NoFn
      BY <1>4 DEF Fn, NoFn
    <3> QED BY <2>1, <3>1
  <2> QED BY <1>8, <2>1
<1> QED BY <1>4, <1>6, <1>7, <1>8, <1>9

\* What a call that has its arguments calls.
LEMMA CalleeFacts ==
    ASSUME IInv, SInv, ArgsComplete, ~Top.isNew
    PROVE  Top.fn \in Fn /\ build_state[Top.fn] = "BUILT" /\ Top.fn # First
<1>1. frames # << >> /\ Top.stage = "args"
  BY DEF ArgsComplete
<1>2. Len(frames) \in Nat \ {0} /\ Top = frames[Len(frames)] /\ Top \in Frame
  BY <1>1, TopFacts DEF IInv, Top
<1>3. Len(frames) \in 1..Len(frames)
  BY <1>2
<1>4. build_state[Top.fn] = "BUILT"
  BY <1>1, <1>2, <1>3 DEF IInv, FramesOK
<1>5. build_state[First] = "BUILDING"
  BY <1>1, BottomFacts
<1> QED BY <1>2, <1>4, <1>5 DEF Frame

\* The flags of a function that is BUILT do not change.
LEMMA FlagsKept ==
    ASSUME IInv, SInv, Next, ~NextRound, NEW f \in Fn, build_state[f] = "BUILT"
    PROVE  /\ referenced_ptrs'[f] = referenced_ptrs[f]
           /\ union_field_read'[f] = union_field_read[f]
<1>1. CASE referenced_ptrs' = referenced_ptrs /\ union_field_read' = union_field_read
  BY <1>1
<1>2. CASE FinishBody \/ FinishFirst
  <2>1. Top.fn # f
    BY <1>2, FinishedFirst DEF FinishBody, FinishFirst
  <2> QED BY <1>2, <2>1 DEF FinishBody, FinishFirst, IInv, TypeOK
<1>3. \/ referenced_ptrs' = referenced_ptrs /\ union_field_read' = union_field_read
      \/ FinishBody \/ FinishFirst
  BY DEF Next, MakeBuiltin, MakeFirst, CallExisting, CallNew, FillArg, RevisitCallee, SkipCallee,
         StartBody, MakeStatement, RemoveStatement, WorklistStep, WorklistEnd, Abandon, Stop,
         summaries, vars
<1> QED BY <1>1, <1>2, <1>3

\* Which function becomes BUILT.
LEMMA NewlyBuilt ==
    ASSUME IInv, SInv, Next, ~NextRound, NEW f \in Fn, build_state'[f] = "BUILT",
           build_state[f] # "BUILT"
    PROVE  \/ MakeBuiltin
           \/ (FinishBody \/ FinishFirst) /\ f = Top.fn
<1>1. build_state \in [Fn -> {"UNBUILT", "BUILDING", "BUILT"}]
  BY DEF IInv, TypeOK
<1>2. build_state' # build_state
  OBVIOUS
<1>3. MakeBuiltin \/ MakeFirst \/ StartBody \/ FinishBody \/ FinishFirst
  BY <1>2 DEF Next, CallExisting, CallNew, FillArg, RevisitCallee, SkipCallee,
         MakeStatement, RemoveStatement, WorklistStep, WorklistEnd, Abandon, Stop, vars
<1>4. ~MakeFirst
  BY <1>1 DEF MakeFirst
<1>5. ~StartBody
  BY <1>1 DEF StartBody
<1>6. (FinishBody \/ FinishFirst) => f = Top.fn
  BY <1>1 DEF FinishBody, FinishFirst
<1> QED BY <1>3, <1>4, <1>5, <1>6

\* The summary of a function stays true once it is BUILT, and is true when it becomes BUILT.
LEMMA MarkedKept ==
    ASSUME IInv, SInv, Next, ~NextRound, NEW f \in Fn, build_state'[f] = "BUILT", f # First
    PROVE  Marked(f)'
<1>1. \A g \in Callees(f) : g \in Fn /\ build_state[g] = "BUILT"
  BY DEF Callees, IInv, CallsOrdered, TypeOK
<1>2. \A g \in Fn : build_state[g] = "BUILT" =>
          /\ referenced_ptrs'[g] = referenced_ptrs[g]
          /\ union_field_read'[g] = union_field_read[g]
  BY FlagsKept
<1>3. CASE build_state[f] = "BUILT"
  <2>1. round' = round
    BY DEF Next, MakeBuiltin, MakeFirst, CallExisting, CallNew, FillArg, RevisitCallee, SkipCallee,
           StartBody, MakeStatement, RemoveStatement, FinishBody, FinishFirst, WorklistStep,
           WorklistEnd, Abandon, Stop, progress, vars
  <2>2. [FrozenStep]_vars
    BY FrozenKept
  <2>3. direct'[f] = direct[f] /\ {e \in calls' : e[1] = f} = {e \in calls : e[1] = f}
    BY <1>3, <2>1, <2>2 DEF FrozenStep, vars
  <2>4. Callees(f)' = Callees(f)
    BY <2>3 DEF Callees
  <2>5. Marked(f)
    BY <1>3 DEF SInv
  <2> QED BY <1>1, <1>2, <1>3, <2>3, <2>4, <2>5 DEF Marked
<1>4. CASE build_state[f] # "BUILT" /\ MakeBuiltin
  <2>1. phase = "builtins" /\ calls' = calls /\ direct' = direct
    BY <1>4 DEF MakeBuiltin
  <2>2. calls' = {} /\ direct'[f] = {}
    BY <2>1 DEF SInv
  <2>3. Callees(f)' = {}
    BY <2>2 DEF Callees
  <2> QED BY <2>2, <2>3 DEF Marked
<1>5. CASE build_state[f] # "BUILT" /\ (FinishBody \/ FinishFirst) /\ f = Top.fn
  <2>1. FinishBody
    BY <1>5, FinishedFirst DEF FinishFirst
  <2>2. /\ calls' = calls \cup {<<Top.caller, f>>} /\ direct' = direct
        /\ referenced_ptrs' = [referenced_ptrs EXCEPT ![f] = get_referenced_ptrs(f)]
        /\ union_field_read' = [union_field_read EXCEPT ![f] = read_union_field(f)]
    BY <1>5, <2>1 DEF FinishBody
  <2>3. Top.caller # f
    BY <1>5, <2>1, FinishedFirst DEF FinishBody
  <2>4. \A e : e \in calls' /\ e[1] = f <=> e \in calls /\ e[1] = f
    BY <2>2, <2>3
  <2>5. Callees(f)' = Callees(f)
    BY <2>4 DEF Callees
  <2>6. referenced_ptrs'[f] = get_referenced_ptrs(f) /\ union_field_read'[f] = read_union_field(f)
    BY <2>2 DEF IInv, TypeOK
  <2>7. "PtrAssign" \in direct'[f] => referenced_ptrs'[f]
    BY <2>2, <2>6 DEF get_referenced_ptrs
  <2>8. "UnionRead" \in direct'[f] => union_field_read'[f]
    BY <2>2, <2>6 DEF read_union_field
  <2>9. \A g \in Callees(f)' : /\ referenced_ptrs'[g] => referenced_ptrs'[f]
                               /\ union_field_read'[g] => union_field_read'[f]
    BY <1>1, <1>2, <2>5, <2>6 DEF get_referenced_ptrs, read_union_field
  <2> QED BY <2>7, <2>8, <2>9 DEF Marked
<1> QED BY <1>3, <1>4, <1>5, NewlyBuilt

LEMMA NextSInv == IInv /\ SInv /\ [Next]_vars => SInv'
<1> SUFFICES ASSUME IInv, SInv, [Next]_vars PROVE SInv'
  OBVIOUS
<1>1. CASE UNCHANGED vars
  BY <1>1 DEF vars, SInv, Marked, Quiet, Callees, FirstFunction
<1>2. CASE NextRound
  <2>1. frames' = << >>
    BY <1>2 DEF NextRound, IInv, Accounted
  <2>2. /\ calls' = {} /\ skipped' = {} /\ direct' = [f \in Fn |-> {}]
        /\ build_state' = [f \in Fn |-> "UNBUILT"]
    BY <1>2 DEF NextRound
  <2> QED BY <2>1, <2>2 DEF SInv
<1>3. CASE Next /\ ~NextRound
  <2>1. frames' # << >> => frames'[1].fn = First
    BY <1>3, BottomKept
  <2>2. phase' = "builtins" => /\ calls' = {} /\ skipped' = {}
                               /\ \A f \in Fn : direct'[f] = {}
    <3>1. SUFFICES ASSUME phase' = "builtins"
                   PROVE  UNCHANGED <<phase, calls, skipped, direct>>
      BY DEF SInv
    <3>2. MakeBuiltin \/ UNCHANGED vars
      BY <1>3, <3>1 DEF Next, MakeFirst, CallExisting, CallNew, MayCall, FillArg, RevisitCallee,
             SkipCallee, ArgsComplete, StartBody, MakeStatement, InBody, RemoveStatement,
             FinishBody, FinishFirst, WorklistStep, WorklistEnd, Abandon, Stop, progress
    <3> QED BY <3>2 DEF MakeBuiltin, progress, vars
  <2>3. \A e \in calls' : e[2] # First
    <3>1. CASE RevisitCallee \/ SkipCallee
      <4>1. calls' \subseteq calls \cup {<<Top.caller, Top.fn>>}
        BY <3>1 DEF RevisitCallee, SkipCallee
      <4>2. Top.fn # First
        BY <3>1, CalleeFacts DEF RevisitCallee, SkipCallee
      <4> QED BY <4>1, <4>2 DEF SInv
    <3>2. CASE FinishBody
      <4>1. calls' = calls \cup {<<Top.caller, Top.fn>>}
        BY <3>2 DEF FinishBody
      <4>2. Top.fn # First
        BY <3>2, FinishedFirst DEF FinishBody
      <4> QED BY <4>1, <4>2 DEF SInv
    <3>3. CASE calls' \subseteq calls
      BY <3>3 DEF SInv
    <3>4. RevisitCallee \/ SkipCallee \/ FinishBody \/ calls' \subseteq calls
      BY <1>3 DEF Next, MakeBuiltin, MakeFirst, CallExisting, CallNew, FillArg, StartBody,
             MakeStatement, RemoveStatement, FinishFirst, WorklistStep, WorklistEnd, Abandon,
             Stop, vars
    <3> QED BY <3>1, <3>2, <3>3, <3>4
  <2>4. \A f \in Fn : build_state'[f] = "BUILT" /\ f # First => Marked(f)'
    BY <1>3, MarkedKept
  <2>5. \A e \in skipped' : /\ build_state'[e[2]] = "BUILT"
                            /\ e[2] = FirstFunction' \/ Quiet(e[2])'
    <3> SUFFICES ASSUME NEW e \in skipped'
                 PROVE  build_state'[e[2]] = "BUILT" /\ (e[2] = FirstFunction' \/ Quiet(e[2])')
      OBVIOUS
    <3>1. e[2] \in Fn /\ build_state[e[2]] = "BUILT" /\ (e[2] = FirstFunction \/ Quiet(e[2]))
      <4>1. CASE e \in skipped
        BY <4>1 DEF SInv, IInv, TypeOK
      <4>2. CASE e \notin skipped
        <5>1. SkipCallee
          BY <1>3, <4>2 DEF Next, MakeBuiltin, MakeFirst, CallExisting, CallNew, FillArg,
                 RevisitCallee, StartBody, MakeStatement, RemoveStatement, FinishBody,
                 FinishFirst, WorklistStep, WorklistEnd, Abandon, Stop, history, vars
        <5>2. e[2] = Top.fn /\ ~NeedsRevisit(Top.fn)
          BY <4>2, <5>1 DEF SkipCallee
        <5>3. Top.fn \in Fn /\ build_state[Top.fn] = "BUILT"
          BY <5>1, CalleeFacts DEF SkipCallee
        <5> QED BY <5>2, <5>3 DEF NeedsRevisit, Quiet
      <4> QED BY <4>1, <4>2
    <3>2. /\ referenced_ptrs'[e[2]] = referenced_ptrs[e[2]]
          /\ union_field_read'[e[2]] = union_field_read[e[2]]
      BY <1>3, <3>1, FlagsKept
    <3>3. build_state'[e[2]] = "BUILT"
      <4>1. round' = round
        BY <1>3 DEF Next, MakeBuiltin, MakeFirst, CallExisting, CallNew, FillArg, RevisitCallee,
               SkipCallee, StartBody, MakeStatement, RemoveStatement, FinishBody, FinishFirst,
               WorklistStep, WorklistEnd, Abandon, Stop, progress, vars
      <4> QED BY <1>3, <3>1, <4>1, FrozenKept DEF FrozenStep, vars
    <3>4. FirstFunction' = FirstFunction
      <4>1. ~MakeBuiltin
        <5>1. MakeBuiltin => skipped' = {}
          BY DEF MakeBuiltin, SInv
        <5> QED BY <5>1
      <4>2. builtin_functions_cnt' = builtin_functions_cnt
        BY <1>3, <4>1 DEF Next, MakeFirst, CallExisting, CallNew, FillArg, RevisitCallee,
               SkipCallee, StartBody, MakeStatement, RemoveStatement, FinishBody, FinishFirst,
               WorklistStep, WorklistEnd, Abandon, Stop, vars
      <4> QED BY <4>2 DEF FirstFunction
    <3> QED BY <3>1, <3>2, <3>3, <3>4 DEF Quiet
  <2> QED BY <2>1, <2>2, <2>3, <2>4, <2>5 DEF SInv
<1> QED BY <1>1, <1>2, <1>3

\* The functions that are BUILT, quiet and not the first call only each other.
LEMMA QuietClosed ==
    ASSUME IInv, SInv, NEW f \in Fn, f # First, build_state[f] = "BUILT", Quiet(f),
           NEW g \in Reach(f)
    PROVE  "PtrAssign" \notin direct[g] /\ "UnionRead" \notin direct[g]
<1> DEFINE Q == {h \in Fn : h # First /\ build_state[h] = "BUILT" /\ Quiet(h)}
<1>1. Q \in SUBSET Fn /\ f \in Q
  OBVIOUS
<1>2. ASSUME NEW h \in Q, NEW k \in Callees(h) PROVE k \in Q
  <2>1. PICK e \in calls : e[1] = h /\ e[2] = k
    BY <1>2 DEF Callees
  <2>2. k \in Fn /\ k # First /\ build_state[k] = "BUILT"
    BY <2>1 DEF IInv, TypeOK, CallsOrdered, SInv
  <2>3. Quiet(k)
    BY <1>2 DEF SInv, Marked, Quiet
  <2> QED BY <2>2, <2>3
<1>3. g \in Q
  <2> HIDE DEF Q
  <2>1. \A h \in Q : Callees(h) \subseteq Q
    BY <1>2
  <2> QED BY <1>1, <2>1 DEF Reach
<1> QED BY <1>3 DEF SInv, Marked, Quiet

\* A call whose callee is not analysed again reaches no assignment through a pointer and
\* no read of a union field: build_invocation may trust the flags of the callee alone.
THEOREM SkippedCallsStaticHolds == Spec => []SkippedCallsStatic
<1>1. IInv /\ SInv => SkippedCallsStatic
  <2> SUFFICES ASSUME IInv, SInv, NEW e \in Skipped, NEW g \in Reach(e[2])
               PROVE  "PtrAssign" \notin direct[g] /\ "UnionRead" \notin direct[g]
    BY DEF SkippedCallsStatic, SkippedCallsKeepPointers, SkippedCallsReadNoUnion
  <2>1. e \in skipped /\ e \in calls /\ e[2] # FirstFunction
    BY DEF Skipped
  <2>2. e[2] \in Fn /\ e[2] # First /\ build_state[e[2]] = "BUILT" /\ Quiet(e[2])
    BY <2>1 DEF SInv, IInv, TypeOK
  <2> QED BY <2>2, QuietClosed
<1>2. Init => IInv /\ SInv
  BY InitIInv, InitSInv
<1>3. IInv /\ SInv /\ [Next]_vars => IInv' /\ SInv'
  BY NextIInv, NextSInv
<1> QED BY <1>1, <1>2, <1>3, PTL DEF Spec

=============================================================================
