---------------------------- MODULE DFSEnum_proofs ----------------------------
(***************************************************************************)
(* Proofs about DFSEnum for every depth and every generator: whatever it   *)
(* asks after each sequence of choices, and whatever its filters refuse.   *)
(***************************************************************************)
EXTENDS DFSEnum, SequenceTheorems, WellFoundedInduction, TLAPS

\* The choices above position n, as the states remember them.
Path(n) == [k \in 1..n |-> value[k - 1]]

\* A DEPTH_GUARD after n choices lets the generator go on to question a.
Passes(a, n) == a.need > 0 /\ n > 1 => MaxDepth - (n - 1) >= a.need

\* A node where the generator has asked.
Asked(p) == p \in DOMAIN tree /\ tree[p] # End

\* The states are those of the path to the decision, and of nothing below it.
Spine ==
    /\ \A i \in Pos : init[i] <=> i <= decision_depth
    /\ \A i \in 0..decision_depth :
          /\ Asked(Path(i)) /\ Passes(tree[Path(i)], i)
          /\ value[i] \in Valid(tree[Path(i)])
    /\ all_done => decision_depth < 0

\* A round walks down that path, to the decision or to the first node below it.
Round ==
    error = "SUCCESS" =>
        /\ current_pos = Len(seq) - 1
        /\ Len(seq) <= decision_depth + 1
        /\ seq = Path(Len(seq))
        /\ guarded => ~all_done /\ Asked(seq) /\ Passes(tree[seq], Len(seq))

\* Every choice of the round was an answer to a question asked.
Answers ==
    \A n \in 1..Len(seq) :
        LET p == SubSeq(seq, 1, n - 1) IN Asked(p) /\ seq[n] \in Valid(tree[p])

\* The last program does not come after the states.
LastBelow(e) ==
    \E i \in 1..(decision_depth + 1) :
        /\ i <= Len(e) => IF i = decision_depth + 1 THEN e[i] <= value[i - 1]
                                                    ELSE e[i] < value[i - 1]
        /\ \A j \in 1..(i - 1) : j <= Len(e) /\ e[j] = value[j - 1]

Order ==
    emitted # << >> /\ ~all_done =>
        LET e == emitted[Len(emitted)] IN
        /\ LastBelow(e)
        /\ error = "SUCCESS" /\ Len(seq) = decision_depth + 1 => Before(e, seq)

\* What an answer v at node p still has to come to.
Explored(p, v) ==
    \/ Append(p, v) \in DOMAIN tree
    \/ Len(p) + (IF tree[p].need = 0 THEN 1 ELSE tree[p].need) > MaxDepth
Ahead(p, v) == \E i \in 0..decision_depth : p = Path(i) /\ v > value[i]
AtHand(p, v) ==
    /\ error = "SUCCESS"
    /\ \/ guarded /\ p = seq /\ Len(seq) = decision_depth + 1
       \/ Append(p, v) = seq

\* A program found is written, and no answer is passed over.
Progress ==
    \A p \in DOMAIN tree :
        IF tree[p] = End
        THEN p # << >> /\ \E i \in 1..Len(emitted) : emitted[i] = p
        ELSE \A v \in Valid(tree[p]) : Explored(p, v) \/ Ahead(p, v) \/ AtHand(p, v)

EInv == TypeOK /\ Spine /\ Round /\ Answers /\ Order /\ Progress

-----------------------------------------------------------------------------
(* Questions and their answers.                                            *)

\* A set of natural numbers that is not empty has a least element.
LEMMA LeastNat ==
    ASSUME NEW T \in SUBSET Nat, T # {}
    PROVE  \E m \in T : \A n \in T : m <= n
<1>1. PICK m \in T : \A n \in T : ~(<<n, m>> \in OpToRel(<, Nat))
    BY NatLessThanWellFounded, WFMin
<1>2. \A n \in T : ~(<<n, m>> \in {ss \in Nat \X Nat : ss[1] < ss[2]})
    BY <1>1, Zenon DEF OpToRel
<1>3. ASSUME NEW n \in T PROVE m <= n
    <2>1. <<n, m>> \notin {ss \in Nat \X Nat : ss[1] < ss[2]} BY <1>2, Zenon
    <2> QED BY <2>1
<1> QED BY <1>3

LEMMA QuestionTyped ==
    /\ Numbers \subseteq Nat /\ End \notin Questions
    /\ \A a \in Questions : /\ a.bound \in Nat \ {0} /\ a.invalid \subseteq 0..(a.bound - 1)
                            /\ a.need \in Nat /\ Valid(a) \subseteq Numbers
                            /\ \A v \in Valid(a) : v \in Nat /\ v < a.bound
<1>1. \A a \in Questions : /\ a.bound \in Nat \ {0} /\ a.invalid \subseteq 0..(a.bound - 1)
                           /\ a.need \in Nat
    BY EnumAssumption DEF EnumAssumption, Questions
<1>2. Numbers \subseteq Nat BY <1>1 DEF Numbers
<1>3. End \notin Questions BY <1>1 DEF End
<1>4. \A a \in Questions : Valid(a) \subseteq Numbers BY DEF Numbers, Valid
<1>5. \A a \in Questions : \A v \in Valid(a) : v \in Nat /\ v < a.bound
    BY <1>1 DEF Valid
<1> QED BY <1>1, <1>2, <1>3, <1>4, <1>5

\* NextValid finds the first number that passes the filter.
LEMMA NextValidFirst ==
    ASSUME NEW a \in Questions, NEW v \in 0..a.bound
    PROVE  LET w == NextValid(a, v) IN
           /\ w \in v..a.bound
           /\ w = a.bound \/ w \in Valid(a)
           /\ \A x \in v..(w - 1) : x \notin Valid(a)
<1>1. a.bound \in Nat /\ v \in Nat BY QuestionTyped
<1> DEFINE T == {w \in v..a.bound : w = a.bound \/ w \in Valid(a)}
           First(w) == /\ w = a.bound \/ w \in Valid(a)
                       /\ \A x \in v..(w - 1) : x \notin Valid(a)
<1>2. a.bound \in T /\ T \in SUBSET Nat BY <1>1
<1>3. PICK m \in T : \A n \in T : m <= n BY <1>2, LeastNat
<1>4. \A x \in v..(m - 1) : x \notin Valid(a) BY <1>1, <1>3
<1>5. \E w \in v..a.bound : First(w) BY <1>3, <1>4
<1>6. NextValid(a, v) = CHOOSE w \in v..a.bound : First(w) BY DEF NextValid
<1> HIDE DEF First
<1>7. NextValid(a, v) \in v..a.bound /\ First(NextValid(a, v)) BY <1>5, <1>6
<1> QED BY <1>7 DEF First

-----------------------------------------------------------------------------
(* The path in the states.                                                 *)

LEMMA Prefixes ==
    ASSUME NEW N \in Nat, NEW f \in [0..(N - 1) -> Nat], NEW n \in 0..N
    PROVE  LET P(m) == [k \in 1..m |-> f[k - 1]] IN
           /\ P(n) \in Seq(Nat) /\ Len(P(n)) = n
           /\ n < N => P(n + 1) = Append(P(n), f[n])
<1> DEFINE P(m) == [k \in 1..m |-> f[k - 1]]
<1>1. n \in Nat BY SMT
<1>2. \A k \in 1..n : f[k - 1] \in Nat BY <1>1
<1>3. P(n) \in Seq(Nat) /\ Len(P(n)) = n /\ \A k \in 1..n : P(n)[k] = f[k - 1]
    BY <1>1, <1>2
<1>4. ASSUME n < N PROVE P(n + 1) = Append(P(n), f[n])
    <2>1. Append(P(n), f[n]) =
              [k \in 1..n + 1 |-> IF k = n + 1 THEN f[n] ELSE P(n)[k]]
        BY <1>1, <1>3
    <2>2. \A k \in 1..n + 1 : f[k - 1] = IF k = n + 1 THEN f[n] ELSE P(n)[k]
        BY <1>1, <1>3
    <2> QED BY <2>1, <2>2
<1> QED BY <1>3, <1>4

LEMMA PathIs ==
    ASSUME TypeOK, NEW n \in 0..MaxDepth
    PROVE  /\ Path(n) \in Seq(Nat) /\ Len(Path(n)) = n
           /\ \A k \in 1..n : Path(n)[k] = value[k - 1]
           /\ n < MaxDepth => Path(n + 1) = Append(Path(n), value[n])
<1>1. MaxDepth \in Nat BY EnumAssumption DEF EnumAssumption
<1>2. value \in [0..(MaxDepth - 1) -> Nat] BY DEF TypeOK, Pos
<1> QED BY ZenonT(40), <1>1, <1>2, Prefixes DEF Path

LEMMA PathKept ==
    ASSUME NEW n \in Nat, \A i \in 0..(n - 1) : value'[i] = value[i]
    PROVE  Path(n)' = Path(n)
BY DEF Path

-----------------------------------------------------------------------------
(* What every step of a round rests on.                                    *)

\* The generator asks a.
Question(a) == Generating /\ a \in Next_question(seq) /\ a # End /\ Learn(a)

LEMMA Here ==
    ASSUME EInv, Generating
    PROVE  /\ MaxDepth \in Nat /\ Len(seq) \in 0..MaxDepth /\ pos = Len(seq) /\ ~all_done
           /\ decision_depth \in -1..(MaxDepth - 1)
           /\ seq \in Seq(Numbers) /\ Numbers \subseteq Nat
           /\ Len(seq) <= decision_depth =>
                 /\ seq \in DOMAIN tree /\ tree[seq] # End
                 /\ Passes(tree[seq], Len(seq)) /\ value[Len(seq)] \in Valid(tree[seq])
<1>1. MaxDepth \in Nat BY EnumAssumption DEF EnumAssumption
<1>2. seq \in Seq(Numbers) /\ decision_depth \in -1..(MaxDepth - 1) BY DEF EInv, TypeOK
<1>3. Len(seq) \in Nat BY <1>2, LenProperties
<1>4. Len(seq) \in 0..MaxDepth /\ pos = Len(seq)
    BY <1>1, <1>2, <1>3 DEF EInv, Round, Generating, pos
<1>5. seq = Path(Len(seq)) BY DEF EInv, Round, Generating
<1>6. ASSUME Len(seq) <= decision_depth
      PROVE  /\ seq \in DOMAIN tree /\ tree[seq] # End
             /\ Passes(tree[seq], Len(seq)) /\ value[Len(seq)] \in Valid(tree[seq])
    BY <1>2, <1>3, <1>5, <1>6 DEF EInv, Spine, Asked
<1> QED BY <1>1, <1>2, <1>4, <1>6, QuestionTyped DEF Generating

LEMMA Learned ==
    ASSUME EInv, NEW a, a \in Next_question(seq), Learn(a)
    PROVE  /\ DOMAIN tree' = DOMAIN tree \cup {seq} /\ tree'[seq] = a
           /\ \A p \in DOMAIN tree : tree'[p] = tree[p]
           /\ \A p : Asked(p) => Asked(p)'
<1>1. DOMAIN tree' = DOMAIN tree \cup {seq} /\ tree'[seq] = a BY DEF Learn
<1>2. \A p \in DOMAIN tree : tree'[p] = tree[p] BY DEF Learn, Next_question
<1> QED BY <1>1, <1>2 DEF Asked

LEMMA QuestionStep ==
    ASSUME EInv, NEW a, Question(a)
    PROVE  /\ a \in Questions
           /\ Len(seq) <= decision_depth => a = tree[seq] /\ value[Len(seq)] \in Valid(a)
           /\ \A p \in DOMAIN tree' : /\ p \in Seq(Numbers) /\ Len(p) <= MaxDepth
                                      /\ tree'[p] \in Questions \cup {End}
<1>1. /\ Len(seq) \in 0..MaxDepth /\ seq \in Seq(Numbers)
      /\ Len(seq) <= decision_depth => /\ seq \in DOMAIN tree
                                       /\ value[Len(seq)] \in Valid(tree[seq])
    BY Here DEF Question
<1>2. a \in Questions
    <2>1. CASE seq \in DOMAIN tree
        BY <2>1 DEF Question, Next_question, EInv, TypeOK
    <2>2. CASE seq \notin DOMAIN tree
        <3>1. a \in Asks[Len(seq)] BY <2>2 DEF Question, Next_question
        <3> QED BY <1>1, <3>1 DEF Questions
    <2> QED BY <2>1, <2>2
<1>3. Len(seq) <= decision_depth => a = tree[seq] /\ value[Len(seq)] \in Valid(a)
    BY <1>1 DEF Question, Next_question
<1>4. DOMAIN tree' = DOMAIN tree \cup {seq} /\ tree'[seq] = a
      /\ \A p \in DOMAIN tree : tree'[p] = tree[p]
    BY Learned DEF Question
<1>5. \A p \in DOMAIN tree' : /\ p \in Seq(Numbers) /\ Len(p) <= MaxDepth
                              /\ tree'[p] \in Questions \cup {End}
    BY <1>1, <1>2, <1>4 DEF EInv, TypeOK
<1> QED BY <1>2, <1>3, <1>5

\* The path, the answers and the order of what was known are not disturbed.
LEMMA SpineKept ==
    ASSUME EInv, NEW a, a \in Next_question(seq), Learn(a),
           NEW d \in -1..decision_depth, \A i \in 0..d : value'[i] = value[i]
    PROVE  \A i \in 0..d :
              /\ Path(i)' = Path(i)
              /\ Asked(Path(i))' /\ Passes(tree'[Path(i)'], i)
              /\ value'[i] \in Valid(tree'[Path(i)'])
<1> SUFFICES ASSUME NEW i \in 0..d
             PROVE  /\ Path(i)' = Path(i)
                    /\ Asked(Path(i))' /\ Passes(tree'[Path(i)'], i)
                    /\ value'[i] \in Valid(tree'[Path(i)'])
    OBVIOUS
<1>1. decision_depth \in Int BY DEF EInv, TypeOK
<1>2. i \in Nat /\ i \in 0..decision_depth BY <1>1
<1>3. Path(i)' = Path(i) BY <1>2, PathKept
<1>4. /\ Asked(Path(i)) /\ Passes(tree[Path(i)], i) /\ value[i] \in Valid(tree[Path(i)])
    BY <1>2 DEF EInv, Spine
<1>5. tree'[Path(i)] = tree[Path(i)] /\ Path(i) \in DOMAIN tree'
    BY <1>4, Learned DEF Asked
<1> QED BY <1>3, <1>4, <1>5 DEF Asked

LEMMA AnswersKept ==
    ASSUME EInv, NEW a, a \in Next_question(seq), Learn(a), seq' = seq
    PROVE  Answers'
<1> SUFFICES ASSUME NEW n \in 1..Len(seq)
             PROVE  LET p == SubSeq(seq, 1, n - 1) IN
                    Asked(p)' /\ seq[n] \in Valid(tree'[p])
    BY DEF Answers
<1> DEFINE p == SubSeq(seq, 1, n - 1)
<1>1. Asked(p) /\ seq[n] \in Valid(tree[p]) BY DEF EInv, Answers
<1>2. tree'[p] = tree[p] /\ Asked(p)' BY <1>1, Learned DEF Asked
<1> QED BY <1>1, <1>2

\* A number that the filter accepts is one more answer.
LEMMA AnswersMore ==
    ASSUME EInv, NEW a, Question(a), NEW v \in Valid(a), seq' = Append(seq, v)
    PROVE  Answers' /\ seq' \in Seq(Numbers) /\ Len(seq') = Len(seq) + 1
<1>1. seq \in Seq(Numbers) /\ v \in Numbers
    BY Here, QuestionStep, QuestionTyped DEF Question
<1>2. /\ seq' \in Seq(Numbers) /\ Len(seq') = Len(seq) + 1
      /\ \A n \in 1..Len(seq) : seq'[n] = seq[n]
      /\ seq'[Len(seq) + 1] = v /\ Len(seq) \in Nat
    BY <1>1, AppendProperties, LenProperties
<1>3. \A n \in 1..Len(seq) : SubSeq(seq', 1, n - 1) = SubSeq(seq, 1, n - 1)
    <2> SUFFICES ASSUME NEW n \in 1..Len(seq)
                 PROVE  SubSeq(seq', 1, n - 1) = SubSeq(seq, 1, n - 1)
        OBVIOUS
    <2>1. \A k \in 1..(n - 1) : seq'[k] = seq[k] BY <1>2
    <2> QED BY <1>1, <1>2, <2>1
<1>4. SubSeq(seq', 1, Len(seq)) = seq BY <1>1, <1>2
<1>5. /\ DOMAIN tree' = DOMAIN tree \cup {seq} /\ tree'[seq] = a /\ a # End
      /\ \A p \in DOMAIN tree : tree'[p] = tree[p]
    BY Learned DEF Question
<1>6. ASSUME NEW n \in 1..Len(seq')
      PROVE  /\ SubSeq(seq', 1, n - 1) \in DOMAIN tree'
             /\ tree'[SubSeq(seq', 1, n - 1)] # End
             /\ seq'[n] \in Valid(tree'[SubSeq(seq', 1, n - 1)])
    <2>1. CASE n = Len(seq) + 1
        <3>1. n - 1 = Len(seq) BY <1>2, <2>1
        <3> QED BY <1>2, <1>4, <1>5, <2>1, <3>1
    <2>2. CASE n # Len(seq) + 1
        <3>1. n \in 1..Len(seq) BY <1>2, <2>2
        <3> DEFINE p == SubSeq(seq, 1, n - 1)
        <3>2. p \in DOMAIN tree /\ tree[p] # End /\ seq[n] \in Valid(tree[p])
            BY <3>1 DEF EInv, Answers, Asked
        <3> QED BY <1>2, <1>3, <1>5, <3>1, <3>2
    <2> QED BY <2>1, <2>2
<1> QED BY <1>2, <1>6 DEF Answers, Asked

\* Away from the node the generator is at, nothing is at hand any more; at a node it
\* has been to before, every answer but those ahead has been explored.
LEMMA ProgressKept ==
    ASSUME EInv, NEW a, a \in Next_question(seq), Learn(a), error = "SUCCESS"
    PROVE  /\ \A p \in DOMAIN tree : tree[p] = End =>
                 p # << >> /\ \E i \in 1..Len(emitted) : emitted[i] = p
           /\ \A p \in DOMAIN tree' \ {seq} : tree'[p] # End =>
                 \A v \in Valid(tree'[p]) : Explored(p, v)' \/ Ahead(p, v)
           /\ ~(guarded /\ Len(seq) = decision_depth + 1) =>
                 \A p \in DOMAIN tree : p = seq /\ tree[p] # End =>
                     \A v \in Valid(tree[p]) : Explored(p, v)' \/ Ahead(p, v)
<1>1. DOMAIN tree' = DOMAIN tree \cup {seq} /\ tree'[seq] = a
      /\ \A p \in DOMAIN tree : tree'[p] = tree[p]
    BY Learned
<1>2. ASSUME NEW p \in DOMAIN tree, tree[p] # End, NEW v \in Valid(tree[p]),
             p # seq \/ ~(guarded /\ Len(seq) = decision_depth + 1)
      PROVE  Explored(p, v)' \/ Ahead(p, v)
    <2>1. Explored(p, v) \/ Ahead(p, v) \/ AtHand(p, v) BY <1>2 DEF EInv, Progress
    <2>2. Explored(p, v) => Explored(p, v)' BY <1>1 DEF Explored
    <2>3. AtHand(p, v) => Explored(p, v)' BY <1>1, <1>2 DEF AtHand, Explored
    <2> QED BY <2>1, <2>2, <2>3
<1>3. \A p \in DOMAIN tree' \ {seq} : tree'[p] # End =>
          \A v \in Valid(tree'[p]) : Explored(p, v)' \/ Ahead(p, v)
    BY <1>1, <1>2
<1>4. ~(guarded /\ Len(seq) = decision_depth + 1) =>
          \A p \in DOMAIN tree : p = seq /\ tree[p] # End =>
              \A v \in Valid(tree[p]) : Explored(p, v)' \/ Ahead(p, v)
    BY <1>2
<1>5. \A p \in DOMAIN tree : tree[p] = End =>
          p # << >> /\ \E i \in 1..Len(emitted) : emitted[i] = p
    BY DEF EInv, Progress
<1> QED BY <1>3, <1>4, <1>5

-----------------------------------------------------------------------------
(* The steps, one kind at a time.                                          *)

\* random_choice is reached only past the DEPTH_GUARD of the node.
LEMMA PastGuard ==
    ASSUME EInv, NEW a, Question(a), a.need > 0 => guarded
    PROVE  Passes(a, Len(seq))
<1>1. CASE guarded
    <2>1. Asked(seq) /\ Passes(tree[seq], Len(seq))
        BY <1>1 DEF EInv, Round, Question, Generating
    <2>2. a = tree[seq] BY <2>1 DEF Asked, Question, Next_question
    <2> QED BY <2>1, <2>2
<1>2. CASE ~guarded BY <1>2 DEF Passes
<1> QED BY <1>1, <1>2

\* The round goes on from a node to one below it, on the path in the states.
LEMMA RoundDown ==
    ASSUME TypeOK, TypeOK', NEW n \in 0..(MaxDepth - 1), seq = Path(n),
           seq' = Append(seq, value'[n]), \A i \in 0..(n - 1) : value'[i] = value[i],
           current_pos' = n, NEW d \in n..(MaxDepth - 1), decision_depth' = d,
           guarded' = FALSE
    PROVE  Round'
<1>1. n \in Nat /\ MaxDepth \in Nat /\ n < MaxDepth /\ n \in 0..MaxDepth
    BY EnumAssumption DEF EnumAssumption
<1>2. Path(n)' = Path(n) BY <1>1, PathKept
<1>3. Path(n + 1)' = Append(Path(n)', value'[n])
    <2>1. value' \in [0..(MaxDepth - 1) -> Nat] BY DEF TypeOK, Pos
    <2> QED BY <1>1, <2>1, Prefixes DEF Path
<1>4. Len(Path(n)) = n /\ Path(n) \in Seq(Nat) BY <1>1, PathIs
<1>5. Len(seq') = n + 1 BY <1>2, <1>3, <1>4
<1>6. (seq = Path(Len(seq)))' BY <1>2, <1>3, <1>5
<1>7. Len(seq') <= d + 1 BY <1>1, <1>5
<1>8. current_pos' = Len(seq') - 1 /\ Len(seq') <= decision_depth' + 1
    BY <1>1, <1>5, <1>7
<1>9. (guarded => ~all_done /\ Asked(seq) /\ Passes(tree[seq], Len(seq)))' OBVIOUS
<1> QED BY <1>6, <1>8, <1>9 DEF Round

LEMMA TypeStep ==
    ASSUME EInv, NEW a, Question(a), seq' \in Seq(Numbers), UNCHANGED emitted,
           init' \in [Pos -> BOOLEAN], value' \in [Pos -> Nat],
           current_pos' \in -1..MaxDepth, decision_depth' \in -1..(MaxDepth - 1),
           all_done' \in BOOLEAN, guarded' \in BOOLEAN,
           error' \in {"SUCCESS", "BACKTRACKING", "EXCEED_MAX_DEPTH"}
    PROVE  TypeOK'
<1>1. \A p \in DOMAIN tree' : /\ p \in Seq(Numbers) /\ Len(p) <= MaxDepth
                              /\ tree'[p] \in Questions \cup {End}
    BY QuestionStep
<1>2. emitted' \in Seq(Seq(Numbers)) BY DEF EInv, TypeOK
<1> QED BY <1>1, <1>2 DEF TypeOK

\* An answer taken again on the way down.
LEMMA RevisitInv ==
    ASSUME EInv, NEW a, Question(a), Revisit(a)
    PROVE  EInv'
<1>0. PICK n \in 0..MaxDepth : n = Len(seq) BY Here DEF Question
<1>1. /\ MaxDepth \in Nat /\ n \in 0..MaxDepth /\ pos = n /\ ~all_done
      /\ decision_depth \in -1..(MaxDepth - 1) /\ seq \in Seq(Numbers)
    BY <1>0, Here DEF Question
<1> DEFINE v == value[n]
<1>2. n < decision_depth BY <1>1 DEF Revisit
<1>3. a = tree[seq] /\ v \in Valid(a) /\ a \in Questions /\ seq \in DOMAIN tree
    BY <1>0, <1>1, <1>2, QuestionStep, Here DEF Question
<1>4. /\ seq' = Append(seq, v) /\ current_pos' = n /\ guarded' = FALSE
      /\ UNCHANGED <<all_done, error, emitted, states, decision_depth>>
    BY <1>1 DEF Revisit, Return
<1>5. value' = value /\ init' = init BY <1>4 DEF states
<1>6. Answers' /\ seq' \in Seq(Numbers) /\ Len(seq') = n + 1
    BY <1>0, <1>3, <1>4, AnswersMore
<1>7. DOMAIN tree' = DOMAIN tree /\ \A p \in DOMAIN tree : tree'[p] = tree[p]
    BY <1>3, Learned DEF Question
<1>8. \A i \in 0..MaxDepth : Path(i)' = Path(i) BY <1>5, PathKept
<1>9. TypeOK'
    <2>1. n \in -1..MaxDepth BY <1>1
    <2> QED BY <1>1, <1>4, <1>5, <1>6, <2>1, TypeStep DEF EInv, TypeOK
<1>10. Spine'
    <2>1. \A i \in 0..decision_depth :
              /\ Path(i)' = Path(i)
              /\ Asked(Path(i))' /\ Passes(tree'[Path(i)'], i)
              /\ value'[i] \in Valid(tree'[Path(i)'])
        <3>1. decision_depth \in -1..decision_depth BY <1>1
        <3> QED BY <1>5, <3>1, SpineKept DEF Question
    <2> QED BY <1>4, <1>5, <2>1 DEF EInv, Spine
<1>11. Round'
    <2>1. seq = Path(n) BY <1>0 DEF EInv, Round, Question, Generating
    <2>2. n \in 0..(MaxDepth - 1) /\ decision_depth \in n..(MaxDepth - 1) BY <1>1, <1>2
    <2> QED BY <1>4, <1>5, <1>9, <2>1, <2>2, RoundDown DEF EInv
<1>12. Order'
    <2> SUFFICES ASSUME emitted # << >> PROVE LastBelow(emitted[Len(emitted)])'
        BY <1>1, <1>2, <1>4, <1>6 DEF Order
    <2>1. LastBelow(emitted[Len(emitted)]) BY <1>1 DEF EInv, Order
    <2> QED BY <1>4, <1>5, <2>1 DEF LastBelow
<1>13. Progress'
    <2>1. ~(guarded /\ Len(seq) = decision_depth + 1) BY <1>0, <1>1, <1>2
    <2>2. \A p, x : Ahead(p, x) => Ahead(p, x)'
        <3>1. \A i \in 0..decision_depth : Path(i)' = Path(i) BY <1>1, <1>8
        <3> QED BY <1>4, <1>5, <3>1 DEF Ahead
    <2>3. /\ \A p \in DOMAIN tree : tree[p] = End =>
                p # << >> /\ \E i \in 1..Len(emitted) : emitted[i] = p
          /\ \A p \in DOMAIN tree' \ {seq} : tree'[p] # End =>
                \A x \in Valid(tree'[p]) : Explored(p, x)' \/ Ahead(p, x)
          /\ \A p \in DOMAIN tree : p = seq /\ tree[p] # End =>
                \A x \in Valid(tree[p]) : Explored(p, x)' \/ Ahead(p, x)
        BY <2>1, ProgressKept DEF Question, Generating
    <2> QED BY <1>4, <1>7, <2>2, <2>3 DEF Progress
<1> QED BY <1>6, <1>9, <1>10, <1>11, <1>12, <1>13 DEF EInv

\* The last program written is a sequence of numbers.
LEMMA LastTyped ==
    ASSUME TypeOK, emitted # << >>
    PROVE  LET e == emitted[Len(emitted)] IN
           Len(e) \in Nat /\ \A i \in 1..Len(e) : e[i] \in Nat
<1> DEFINE e == emitted[Len(emitted)]
<1>1. emitted \in Seq(Seq(Numbers)) BY DEF TypeOK
<1>2. Len(emitted) \in 1..Len(emitted) BY <1>1
<1>3. e \in Seq(Numbers) BY <1>1, <1>2
<1>4. Numbers \subseteq Nat BY QuestionTyped
<1> HIDE DEF e
<1>5. Len(e) \in Nat /\ \A i \in 1..Len(e) : e[i] \in Numbers
    BY <1>3, LenProperties, ElementOfSeq
<1> QED BY <1>4, <1>5 DEF e

\* A number at the node below the path, or a greater one at the decision: there the
\* decision is now.
LEMMA ChoiceInv ==
    ASSUME EInv, NEW a, Question(a), Passes(a, Len(seq)),
           NEW n \in Pos, n = Len(seq), n = decision_depth \/ n = decision_depth + 1,
           NEW v \in Valid(a), seq' = Append(seq, v), current_pos' = pos, guarded' = FALSE,
           UNCHANGED <<all_done, error, emitted>>, decision_depth' = n,
           init' \in [Pos -> BOOLEAN], \A i \in Pos : init'[i] <=> i <= n,
           value' \in [Pos -> Nat], value'[n] = v, \A i \in 0..(n - 1) : value'[i] = value[i],
           n = decision_depth => v > value[n],
           \A x \in Valid(a) : x < v => n = decision_depth /\ x <= value[n]
    PROVE  EInv'
<1>1. /\ MaxDepth \in Nat /\ n \in 0..MaxDepth /\ n \in 0..(MaxDepth - 1) /\ pos = n
      /\ ~all_done /\ decision_depth \in -1..(MaxDepth - 1) /\ seq \in Seq(Numbers)
    BY Here DEF Question, Pos
<1>2. a \in Questions /\ v \in Nat BY QuestionStep, QuestionTyped
<1>3. Answers' /\ seq' \in Seq(Numbers) /\ Len(seq') = n + 1 BY AnswersMore
<1>4. DOMAIN tree' = DOMAIN tree \cup {seq} /\ tree'[seq] = a /\ a # End
      /\ \A p \in DOMAIN tree : tree'[p] = tree[p]
    BY Learned DEF Question
<1>5. seq = Path(n) /\ error = "SUCCESS" BY DEF EInv, Round, Question, Generating
<1>6. \A i \in 0..n : Path(i)' = Path(i)
    <2>1. \A i \in 0..n : i \in Nat /\ 0..(i - 1) \subseteq 0..(n - 1) BY <1>1
    <2> QED BY <2>1, PathKept
<1>7. TypeOK'
    <2>1. n \in -1..MaxDepth /\ n \in -1..(MaxDepth - 1) BY <1>1
    <2> QED BY <1>1, <1>3, <2>1, TypeStep DEF EInv, TypeOK
<1>8. Spine'
    <2>1. n - 1 \in -1..decision_depth BY <1>1
    <2>2. \A i \in 0..(n - 1) :
              /\ Path(i)' = Path(i)
              /\ Asked(Path(i))' /\ Passes(tree'[Path(i)'], i)
              /\ value'[i] \in Valid(tree'[Path(i)'])
        BY <2>1, SpineKept DEF Question
    <2>3. /\ Path(n)' = seq /\ Asked(Path(n))' /\ Passes(tree'[Path(n)'], n)
          /\ value'[n] \in Valid(tree'[Path(n)'])
        BY <1>1, <1>4, <1>5, <1>6 DEF Asked
    <2>4. ASSUME NEW i \in 0..n
          PROVE  /\ Asked(Path(i))' /\ Passes(tree'[Path(i)'], i)
                 /\ value'[i] \in Valid(tree'[Path(i)'])
        <3>1. i = n \/ i \in 0..(n - 1) BY <1>1
        <3> QED BY <2>2, <2>3, <3>1
    <2> QED BY <1>1, <2>4 DEF Spine
<1>9. Round'
    <2>1. n \in n..(MaxDepth - 1) BY <1>1
    <2> QED BY <1>1, <1>5, <1>7, <2>1, RoundDown DEF EInv
<1>10. Order'
    <2> DEFINE e == emitted[Len(emitted)]
    <2> SUFFICES ASSUME emitted # << >> PROVE LastBelow(e)' /\ Before(e, seq')
        BY <1>1 DEF Order
    <2>1. LastBelow(e) BY <1>1 DEF EInv, Order
    <2>2. n = decision_depth + 1 => Before(e, seq)
        BY <1>1, <1>5 DEF EInv, Order
    <2>3. Len(e) \in Nat /\ \A i \in 1..Len(e) : e[i] \in Nat BY LastTyped DEF EInv
    <2>4. /\ \A k \in 1..n : seq[k] = value'[k - 1] /\ seq'[k] = value'[k - 1]
          /\ seq'[n + 1] = v
        BY <1>1, <1>5 DEF Path
    <2>5. \E i \in 1..(n + 1) :
              /\ i <= Len(e) => e[i] < value'[i - 1]
              /\ \A j \in 1..(i - 1) : j <= Len(e) /\ e[j] = value'[j - 1]
        <3>1. CASE n = decision_depth
            <4>1. PICK i \in 1..(n + 1) :
                      /\ i <= Len(e) => IF i = n + 1 THEN e[i] <= value[i - 1]
                                                     ELSE e[i] < value[i - 1]
                      /\ \A j \in 1..(i - 1) : j <= Len(e) /\ e[j] = value[j - 1]
                BY <2>1, <3>1 DEF LastBelow
            <4>2. \A j \in 1..(i - 1) : value[j - 1] = value'[j - 1] BY <1>1, <4>1
            <4>3. i <= Len(e) => e[i] < value'[i - 1]
                <5>1. CASE i = n + 1
                    <6>1. i - 1 = n /\ value[n] \in Nat BY <1>1, <5>1 DEF EInv, TypeOK
                    <6>2. i <= Len(e) => e[i] \in Nat /\ e[i] <= value[n]
                        BY <2>3, <4>1, <5>1, <6>1
                    <6> QED BY <1>2, <3>1, <6>1, <6>2
                <5>2. CASE i # n + 1
                    <6>1. i - 1 \in 0..(n - 1) BY <1>1, <4>1, <5>2
                    <6> QED BY <4>1, <5>2, <6>1
                <5> QED BY <5>1, <5>2
            <4> QED BY <4>1, <4>2, <4>3
        <3>2. CASE n = decision_depth + 1
            <4>1. PICK i \in 1..n : /\ i <= Len(e) => e[i] < seq[i]
                                    /\ \A j \in 1..(i - 1) : j <= Len(e) /\ e[j] = seq[j]
                BY <2>2, <3>2 DEF Before
            <4>2. i \in 1..(n + 1) /\ \A j \in 1..i : j \in 1..n BY <1>1
            <4> HIDE DEF e
            <4>3. /\ i <= Len(e) => e[i] < value'[i - 1]
                  /\ \A j \in 1..(i - 1) : j <= Len(e) /\ e[j] = value'[j - 1]
                <5>1. seq[i] = value'[i - 1] BY <2>4
                <5>2. \A j \in 1..(i - 1) : seq[j] = value'[j - 1] BY <1>1, <2>4
                <5> QED BY <4>1, <5>1, <5>2
            <4> QED BY <4>2, <4>3
        <3> QED BY <3>1, <3>2
    <2>6. LastBelow(e)'
        <3>1. \A i \in 1..(n + 1) :
                  i <= Len(e) /\ e[i] < value'[i - 1] => e[i] <= value'[i - 1]
            <4> SUFFICES ASSUME NEW i \in 1..(n + 1), i <= Len(e), e[i] < value'[i - 1]
                         PROVE  e[i] <= value'[i - 1]
                OBVIOUS
            <4>1. i - 1 \in Pos BY <1>1 DEF Pos
            <4>2. PICK w \in Nat : w = value'[i - 1] BY <4>1
            <4>3. e[i] \in Nat BY <1>1, <2>3
            <4> QED BY <4>2, <4>3
        <3> HIDE DEF e
        <3>2. \E i \in 1..(n + 1) :
                  /\ i <= Len(e) => IF i = n + 1 THEN e[i] <= value'[i - 1]
                                                 ELSE e[i] < value'[i - 1]
                  /\ \A j \in 1..(i - 1) : j <= Len(e) /\ e[j] = value'[j - 1]
            BY <2>5, <3>1
        <3> QED BY <3>2 DEF LastBelow, e
    <2>7. Before(e, seq')
        <3>1. \A i \in 1..(n + 1) : seq'[i] = value'[i - 1]
            <4>1. \A i \in 1..(n + 1) : i \in 1..n \/ i = n + 1 BY <1>1
            <4>2. (n + 1) - 1 = n BY <1>1
            <4> QED BY <2>4, <4>1, <4>2
        <3>2. \A i \in 1..(n + 1) : \A j \in 1..(i - 1) : j \in 1..(n + 1) BY <1>1
        <3> HIDE DEF e
        <3>3. PICK i \in 1..(n + 1) :
                  /\ i <= Len(e) => e[i] < value'[i - 1]
                  /\ \A j \in 1..(i - 1) : j <= Len(e) /\ e[j] = value'[j - 1]
            BY <2>5
        <3>4. /\ i <= Len(e) => e[i] < seq'[i]
              /\ \A j \in 1..(i - 1) : j <= Len(e) /\ e[j] = seq'[j]
            BY <3>1, <3>2, <3>3
        <3>5. i \in 1..Len(seq') BY <1>3
        <3> QED BY <3>4, <3>5 DEF Before
    <2> QED BY <2>6, <2>7
<1>11. Progress'
    <2>1. /\ \A p \in DOMAIN tree : tree[p] = End =>
                p # << >> /\ \E i \in 1..Len(emitted) : emitted[i] = p
          /\ \A p \in DOMAIN tree' \ {seq} : tree'[p] # End =>
                \A x \in Valid(tree'[p]) : Explored(p, x)' \/ Ahead(p, x)
          /\ ~(guarded /\ Len(seq) = decision_depth + 1) =>
                \A p \in DOMAIN tree : p = seq /\ tree[p] # End =>
                    \A x \in Valid(tree[p]) : Explored(p, x)' \/ Ahead(p, x)
        BY <1>5, ProgressKept DEF Question
    <2>2. ASSUME NEW p \in DOMAIN tree' \ {seq}, tree'[p] # End, NEW x \in Valid(tree'[p])
          PROVE  Explored(p, x)' \/ Ahead(p, x)'
        <3>1. CASE Ahead(p, x)
            <4>1. PICK i \in 0..decision_depth : p = Path(i) /\ x > value[i]
                BY <3>1 DEF Ahead
            <4>2. i # n BY <1>5, <2>2, <4>1
            <4>3. i \in 0..n /\ i \in 0..(n - 1) BY <1>1, <4>2
            <4> QED BY <1>6, <4>1, <4>3 DEF Ahead
        <3> QED BY <2>1, <2>2, <3>1
    <2>3. ASSUME NEW x \in Valid(a), NEW p, p = seq
          PROVE  Explored(p, x)' \/ Ahead(p, x)' \/ AtHand(p, x)'
        <3>1. x \in Nat BY <1>2, QuestionTyped
        <3>2. CASE x = v BY <1>5, <2>3, <3>2 DEF AtHand
        <3>3. CASE x > v
            <4>1. n \in 0..n /\ p = Path(n)' BY <1>1, <1>5, <1>6, <2>3
            <4> QED BY <3>3, <4>1 DEF Ahead
        <3>4. CASE x < v
            <4>1. n = decision_depth /\ x <= value[n] /\ value[n] \in Nat
                BY <3>4 DEF EInv, TypeOK
            <4>2. p \in DOMAIN tree /\ tree[p] # End /\ a = tree[p]
                BY <1>1, <2>3, <4>1, Here, QuestionStep DEF Question
            <4>3. Explored(p, x)' \/ Ahead(p, x) BY <1>1, <2>1, <2>3, <4>1, <4>2
            <4>4. ~Ahead(p, x)
                <5> SUFFICES ASSUME NEW i \in 0..decision_depth, p = Path(i), x > value[i]
                             PROVE  FALSE
                    BY DEF Ahead
                <5>1. i \in 0..MaxDepth BY <1>1
                <5>2. Len(Path(i)) = i /\ Len(Path(n)) = n BY <1>1, <5>1, PathIs DEF EInv
                <5>3. i = n BY <1>5, <2>3, <5>2
                <5> QED BY <3>1, <4>1, <5>3
            <4> QED BY <4>3, <4>4
        <3> QED BY <1>2, <3>1, <3>2, <3>3, <3>4
    <2>4. \A p \in DOMAIN tree' : tree'[p] = End =>
              p # << >> /\ \E i \in 1..Len(emitted') : emitted'[i] = p
        BY <1>4, <2>1
    <2>5. \A p \in DOMAIN tree' : tree'[p] # End =>
              \A x \in Valid(tree'[p]) : Explored(p, x)' \/ Ahead(p, x)' \/ AtHand(p, x)'
        BY <1>4, <2>2, <2>3
    <2> QED BY <2>4, <2>5 DEF Progress
<1> QED BY <1>3, <1>7, <1>8, <1>9, <1>10, <1>11 DEF EInv

\* The round is given up: the decision stays, or moves up from an exhausted node.
LEMMA EndInv ==
    ASSUME EInv, NEW a, Question(a), NEW n \in 0..MaxDepth, n = Len(seq),
           NEW d \in {decision_depth, decision_depth - 1},
           d < decision_depth => n = decision_depth,
           UNCHANGED <<seq, guarded, emitted>>, decision_depth' = d,
           error' \in {"BACKTRACKING", "EXCEED_MAX_DEPTH"}, current_pos' \in -1..MaxDepth,
           d \in -1..(MaxDepth - 1), all_done' \in BOOLEAN, all_done' <=> d < 0,
           init' \in [Pos -> BOOLEAN], \A i \in Pos : init'[i] <=> i <= d,
           value' \in [Pos -> Nat], \A i \in 0..d : value'[i] = value[i],
           \A x \in Valid(a) :
              \/ n + (IF a.need = 0 THEN 1 ELSE a.need) > MaxDepth
              \/ n = decision_depth /\ x <= value[n]
    PROVE  EInv'
<1>1. /\ MaxDepth \in Nat /\ ~all_done /\ decision_depth \in -1..(MaxDepth - 1)
      /\ seq \in Seq(Numbers)
    BY Here DEF Question
<1>2. a \in Questions BY QuestionStep
<1>4. DOMAIN tree' = DOMAIN tree \cup {seq} /\ tree'[seq] = a /\ a # End
      /\ \A p \in DOMAIN tree : tree'[p] = tree[p]
    BY Learned DEF Question
<1>5. seq = Path(n) /\ error = "SUCCESS" BY DEF EInv, Round, Question, Generating
<1>6. \A i \in 0..d : Path(i)' = Path(i)
    <2>1. \A i \in 0..d : i \in Nat /\ 0..(i - 1) \subseteq 0..d BY <1>1
    <2> QED BY <2>1, PathKept
<1>7. TypeOK' BY <1>1, TypeStep DEF EInv, TypeOK
<1>8. Spine'
    <2>1. d \in -1..decision_depth BY <1>1
    <2>2. \A i \in 0..d :
              /\ Asked(Path(i))' /\ Passes(tree'[Path(i)'], i)
              /\ value'[i] \in Valid(tree'[Path(i)'])
        BY <2>1, SpineKept DEF Question
    <2> QED BY <2>2 DEF Spine
<1>9. Round' BY DEF Round
<1>10. Answers' BY AnswersKept DEF Question
<1>11. Order'
    <2> DEFINE e == emitted[Len(emitted)]
    <2> SUFFICES ASSUME emitted # << >>, d >= 0 PROVE LastBelow(e)'
        BY <1>1 DEF Order
    <2>1. LastBelow(e) BY <1>1 DEF EInv, Order
    <2>2. Len(e) \in Nat /\ \A i \in 1..Len(e) : e[i] \in Nat BY LastTyped DEF EInv
    <2> HIDE DEF e
    <2>3. PICK i \in 1..(decision_depth + 1) :
              /\ i <= Len(e) => IF i = decision_depth + 1 THEN e[i] <= value[i - 1]
                                                          ELSE e[i] < value[i - 1]
              /\ \A j \in 1..(i - 1) : j <= Len(e) /\ e[j] = value[j - 1]
        BY <2>1 DEF LastBelow
    <2>4. \A j \in 1..(d + 1) : value'[j - 1] = value[j - 1] /\ value[j - 1] \in Nat
        <3>1. \A j \in 1..(d + 1) : j - 1 \in 0..d /\ j - 1 \in Pos BY <1>1 DEF Pos
        <3> QED BY <3>1 DEF EInv, TypeOK
    <2>5. CASE i <= d + 1
        <3>1. i \in 1..(d + 1) /\ \A j \in 1..(i - 1) : j \in 1..(d + 1) BY <1>1, <2>5
        <3>2. i <= Len(e) => IF i = d + 1 THEN e[i] <= value[i - 1] ELSE e[i] < value[i - 1]
            <4> SUFFICES ASSUME i <= Len(e)
                         PROVE  IF i = d + 1 THEN e[i] <= value[i - 1] ELSE e[i] < value[i - 1]
                OBVIOUS
            <4>1. e[i] \in Nat /\ value[i - 1] \in Nat BY <1>1, <2>2, <2>4, <3>1
            <4> QED BY <1>1, <2>3, <2>5, <4>1
        <3>3. /\ i <= Len(e) => IF i = d + 1 THEN e[i] <= value'[i - 1]
                                             ELSE e[i] < value'[i - 1]
              /\ \A j \in 1..(i - 1) : j <= Len(e) /\ e[j] = value'[j - 1]
            BY <2>3, <2>4, <3>1, <3>2
        <3> QED BY <3>1, <3>3 DEF LastBelow, e
    <2>6. CASE i > d + 1
        <3>1. d + 1 \in 1..(i - 1) /\ \A j \in 1..d : j \in 1..(i - 1) /\ j \in 1..(d + 1)
            BY <1>1, <2>6
        <3>2. e[d + 1] = value[d] /\ value[d] \in Nat /\ value'[d] = value[d]
            <4>1. (d + 1) - 1 = d /\ d + 1 \in 1..(d + 1) BY <1>1
            <4>2. e[d + 1] = value[(d + 1) - 1] BY <2>3, <3>1
            <4>3. value'[(d + 1) - 1] = value[(d + 1) - 1] /\ value[(d + 1) - 1] \in Nat
                BY <2>4, <4>1
            <4> QED BY <4>1, <4>2, <4>3
        <3>3. /\ e[d + 1] <= value'[(d + 1) - 1]
              /\ \A j \in 1..((d + 1) - 1) : j <= Len(e) /\ e[j] = value'[j - 1]
            <4>1. (d + 1) - 1 = d BY <1>1
            <4>2. e[d + 1] <= value'[d] BY <3>2
            <4>3. \A j \in 1..d : j <= Len(e) /\ e[j] = value'[j - 1] BY <2>3, <2>4, <3>1
            <4> QED BY <4>1, <4>2, <4>3
        <3>4. d + 1 \in 1..(d + 1) BY <1>1
        <3> QED BY <3>3, <3>4 DEF LastBelow, e
    <2> QED BY <1>1, <2>3, <2>5, <2>6
<1>12. Progress'
    <2>1. /\ \A p \in DOMAIN tree : tree[p] = End =>
                p # << >> /\ \E i \in 1..Len(emitted) : emitted[i] = p
          /\ \A p \in DOMAIN tree' \ {seq} : tree'[p] # End =>
                \A x \in Valid(tree'[p]) : Explored(p, x)' \/ Ahead(p, x)
          /\ ~(guarded /\ Len(seq) = decision_depth + 1) =>
                \A p \in DOMAIN tree : p = seq /\ tree[p] # End =>
                    \A x \in Valid(tree[p]) : Explored(p, x)' \/ Ahead(p, x)
        BY <1>5, ProgressKept DEF Question
    <2>2. ASSUME NEW p \in DOMAIN tree' \ {seq}, tree'[p] # End, NEW x \in Valid(tree'[p])
          PROVE  Explored(p, x)' \/ Ahead(p, x)'
        <3>1. CASE Ahead(p, x)
            <4>1. PICK i \in 0..decision_depth : p = Path(i) /\ x > value[i]
                BY <3>1 DEF Ahead
            <4>2. i # decision_depth \/ d = decision_depth BY <1>1, <1>5, <2>2, <4>1
            <4>3. i \in 0..d BY <1>1, <4>2
            <4> QED BY <1>6, <4>1, <4>3 DEF Ahead
        <3> QED BY <2>1, <2>2, <3>1
    <2>3. ASSUME NEW x \in Valid(a), NEW p, p = seq
          PROVE  Explored(p, x)'
        <3>1. x \in Nat BY <1>2, QuestionTyped
        <3>2. CASE n + (IF a.need = 0 THEN 1 ELSE a.need) > MaxDepth
            BY <1>4, <2>3, <3>2 DEF Explored
        <3>3. CASE n = decision_depth /\ x <= value[n]
            <4>1. value[n] \in Nat BY <1>1, <3>3 DEF EInv, TypeOK, Pos
            <4>2. p \in DOMAIN tree /\ tree[p] # End /\ a = tree[p]
                BY <1>1, <2>3, <3>3, Here, QuestionStep DEF Question
            <4>3. Explored(p, x)' \/ Ahead(p, x) BY <1>1, <2>1, <2>3, <3>3, <4>2
            <4>4. ~Ahead(p, x)
                <5> SUFFICES ASSUME NEW i \in 0..decision_depth, p = Path(i), x > value[i]
                             PROVE  FALSE
                    BY DEF Ahead
                <5>1. i \in 0..MaxDepth BY <1>1
                <5>2. Len(Path(i)) = i /\ Len(Path(n)) = n BY <1>1, <5>1, PathIs DEF EInv
                <5>3. i = n BY <1>5, <2>3, <5>2
                <5> QED BY <3>1, <3>3, <4>1, <5>3
            <4> QED BY <4>3, <4>4
        <3> QED BY <3>2, <3>3
    <2>4. \A p \in DOMAIN tree' : tree'[p] = End =>
              p # << >> /\ \E i \in 1..Len(emitted') : emitted'[i] = p
        BY <1>4, <2>1
    <2>5. \A p \in DOMAIN tree' : tree'[p] # End =>
              \A x \in Valid(tree'[p]) : Explored(p, x)' \/ Ahead(p, x)' \/ AtHand(p, x)'
        BY <1>4, <2>2, <2>3
    <2> QED BY <2>4, <2>5 DEF Progress
<1> QED BY <1>7, <1>8, <1>9, <1>10, <1>11, <1>12 DEF EInv

LEMMA PassGuardInv ==
    ASSUME EInv, NEW a, Question(a), PassGuard(a)
    PROVE  EInv'
<1>0. PICK n \in 0..MaxDepth : n = Len(seq) BY Here DEF Question
<1>1. /\ MaxDepth \in Nat /\ ~all_done /\ decision_depth \in -1..(MaxDepth - 1)
      /\ seq \in Seq(Numbers) /\ n <= decision_depth + 1 /\ n \in Nat
    BY <1>0, Here DEF Question, EInv, Round, Generating
<1>2. /\ guarded = FALSE /\ guarded' = TRUE /\ seq' = seq /\ init' = init /\ value' = value
      /\ UNCHANGED <<current_pos, decision_depth, all_done, error, emitted>>
    BY DEF PassGuard, states, EInv, TypeOK
<1>3. DOMAIN tree' = DOMAIN tree \cup {seq} /\ tree'[seq] = a /\ a # End
      /\ \A p \in DOMAIN tree : tree'[p] = tree[p]
    BY Learned DEF Question
<1>4. seq = Path(n) /\ error = "SUCCESS" /\ current_pos = n - 1
    BY <1>0 DEF EInv, Round, Question, Generating
<1>5. \A i \in Nat : Path(i)' = Path(i) BY <1>2, PathKept
<1>6. TypeOK'
    BY <1>1, <1>2, TypeStep DEF EInv, TypeOK
<1>7. Spine'
    <2>1. \A i \in 0..decision_depth :
              /\ Asked(Path(i))' /\ Passes(tree'[Path(i)'], i)
              /\ value'[i] \in Valid(tree'[Path(i)'])
        <3>1. decision_depth \in -1..decision_depth BY <1>1
        <3> QED BY <1>2, <3>1, SpineKept DEF Question
    <2> QED BY <1>2, <2>1 DEF EInv, Spine
<1>8. Round'
    <2>1. Passes(a, n)
        <3>1. n - 1 <= 0 \/ MaxDepth - (n - 1) >= a.need
            BY <1>4 DEF PassGuard, remain_depth
        <3> QED BY <1>1, <3>1 DEF Passes
    <2>2. seq' \in DOMAIN tree' /\ tree'[seq'] # End /\ Passes(tree'[seq'], Len(seq'))
        BY <1>0, <1>2, <1>3, <2>1
    <2>3. (seq = Path(Len(seq)))' BY <1>0, <1>1, <1>2, <1>4, <1>5
    <2>4. current_pos' = Len(seq') - 1 /\ Len(seq') <= decision_depth' + 1
        BY <1>0, <1>1, <1>2, <1>4
    <2> QED BY <1>1, <1>2, <2>2, <2>3, <2>4 DEF Round, Asked, Passes
<1>9. Answers' BY <1>2, AnswersKept DEF Question
<1>10. Order'
    BY <1>2 DEF EInv, Order, LastBelow, Before
<1>11. Progress'
    <2>1. /\ \A p \in DOMAIN tree : tree[p] = End =>
                p # << >> /\ \E i \in 1..Len(emitted) : emitted[i] = p
          /\ \A p \in DOMAIN tree' \ {seq} : tree'[p] # End =>
                \A x \in Valid(tree'[p]) : Explored(p, x)' \/ Ahead(p, x)
          /\ \A p \in DOMAIN tree : p = seq /\ tree[p] # End =>
                \A x \in Valid(tree[p]) : Explored(p, x)' \/ Ahead(p, x)
        BY <1>2, <1>4, ProgressKept DEF Question
    <2>2. \A p, x : Ahead(p, x) => Ahead(p, x)'
        <3>1. \A i \in 0..decision_depth : Path(i)' = Path(i) BY <1>1, <1>5
        <3> QED BY <1>2, <3>1 DEF Ahead
    <2>3. ASSUME NEW x \in Valid(a), NEW p, p = seq
          PROVE  Explored(p, x)' \/ Ahead(p, x)' \/ AtHand(p, x)'
        <3>1. CASE n = decision_depth + 1
            BY <1>0, <1>2, <1>4, <2>3, <3>1 DEF AtHand
        <3>2. CASE n <= decision_depth
            <4>1. p \in DOMAIN tree /\ tree[p] # End /\ a = tree[p]
                BY <1>0, <2>3, <3>2, Here, QuestionStep DEF Question
            <4> QED BY <2>1, <2>2, <2>3, <4>1
        <3> QED BY <1>1, <3>1, <3>2
    <2>4. \A p \in DOMAIN tree' : tree'[p] = End =>
              p # << >> /\ \E i \in 1..Len(emitted') : emitted'[i] = p
        BY <1>2, <1>3, <2>1
    <2>5. \A p \in DOMAIN tree' : tree'[p] # End =>
              \A x \in Valid(tree'[p]) : Explored(p, x)' \/ Ahead(p, x)' \/ AtHand(p, x)'
        BY <1>3, <2>1, <2>2, <2>3
    <2> QED BY <2>4, <2>5 DEF Progress
<1> QED BY <1>6, <1>7, <1>8, <1>9, <1>10, <1>11 DEF EInv

\* A program is complete only below the decision.
LEMMA EmitHere ==
    ASSUME EInv, Emit
    PROVE  /\ Len(seq) = decision_depth + 1 /\ seq # << >> /\ seq \in Seq(Numbers)
           /\ emitted' = Append(emitted, seq) /\ Generating
<1>1. Generating /\ End \in Next_question(seq) /\ emitted' = Append(emitted, seq)
    BY DEF Emit
<1>2. /\ MaxDepth \in Nat /\ Len(seq) \in 0..MaxDepth /\ seq \in Seq(Numbers)
      /\ decision_depth \in -1..(MaxDepth - 1)
    BY <1>1, Here
<1>3. Len(seq) = decision_depth + 1
    <2>1. Len(seq) <= decision_depth + 1 BY <1>1 DEF EInv, Round, Generating
    <2>2. ~(Len(seq) <= decision_depth)
        <3> SUFFICES ASSUME Len(seq) <= decision_depth PROVE FALSE OBVIOUS
        <3>1. seq \in DOMAIN tree /\ tree[seq] # End BY <1>1, Here
        <3> QED BY <1>1, <3>1 DEF Next_question
    <2> QED BY <1>2, <2>1, <2>2
<1>4. seq # << >>
    <2>1. CASE seq \in DOMAIN tree
        <3>1. tree[seq] = End BY <1>1, <2>1 DEF Next_question
        <3> QED BY <2>1, <3>1 DEF EInv, Progress
    <2>2. CASE seq \notin DOMAIN tree
        <3>1. End \notin Asks[Len(seq)] BY <1>2, QuestionTyped DEF Questions
        <3>2. MayEnd(seq) BY <1>1, <2>2, <3>1 DEF Next_question
        <3> QED BY <3>2 DEF MayEnd
    <2> QED BY <2>1, <2>2
<1> QED BY <1>1, <1>2, <1>3, <1>4

\* A round that starts again finds the states as the last one left them.
LEMMA RoundStarts ==
    ASSUME TypeOK, NewRound, UNCHANGED <<states, decision_depth>>
    PROVE  Round' /\ Answers' /\ seq' \in Seq(Numbers) /\ \A i \in Nat : Path(i)' = Path(i)
<1>1. seq' = << >> /\ current_pos' = -1 /\ guarded' = FALSE /\ value' = value
    BY DEF NewRound, states
<1>2. Len(seq') = 0 /\ seq' \in Seq(Numbers) BY <1>1
<1>3. \A i \in Nat : Path(i)' = Path(i) BY <1>1, PathKept
<1>4. Path(0) = << >> BY DEF Path
<1>5. (seq = Path(Len(seq)))' BY <1>1, <1>2, <1>3, <1>4
<1>6. current_pos' = Len(seq') - 1 BY <1>1, <1>2
<1>7. Len(seq') <= decision_depth' + 1
    <2>1. decision_depth \in -1..(MaxDepth - 1) /\ MaxDepth \in Nat
        BY EnumAssumption DEF TypeOK, EnumAssumption
    <2>2. 0 <= decision_depth + 1 BY <2>1
    <2> QED BY <1>2, <2>2
<1>8. Round' BY <1>1, <1>5, <1>6, <1>7 DEF Round
<1>9. Answers' BY <1>2 DEF Answers
<1> QED BY <1>2, <1>3, <1>8, <1>9

LEMMA EmitInv ==
    ASSUME EInv, Emit
    PROVE  EInv'
<1> DEFINE d == decision_depth
<1>0. PICK n \in 0..MaxDepth : n = Len(seq) BY EmitHere, Here
<1>1. /\ MaxDepth \in Nat /\ n \in Nat /\ n = d + 1 /\ n > 0 /\ seq \in Seq(Numbers)
      /\ d \in -1..(MaxDepth - 1) /\ seq # << >> /\ ~all_done /\ error = "SUCCESS"
    <2>1. seq \in Seq(Numbers) /\ seq # << >> /\ Generating /\ Len(seq) = d + 1 BY EmitHere
    <2>2. Len(seq) # 0 BY <2>1, EmptySeq
    <2>3. MaxDepth \in Nat /\ d \in -1..(MaxDepth - 1) BY <2>1, Here
    <2> QED BY <1>0, <2>1, <2>2, <2>3 DEF Generating
<1>2. /\ emitted' = Append(emitted, seq) /\ NewRound /\ ~guarded
      /\ UNCHANGED <<states, decision_depth, all_done>> /\ value' = value /\ init' = init
    BY DEF Emit, states
<1>3. DOMAIN tree' = DOMAIN tree \cup {seq} /\ tree'[seq] = End
      /\ \A p \in DOMAIN tree : tree'[p] = tree[p]
    BY Learned DEF Emit
<1>4. Round' /\ Answers' /\ seq' \in Seq(Numbers) /\ \A i \in Nat : Path(i)' = Path(i)
    BY <1>2, RoundStarts DEF EInv
<1> PICK m \in Nat : m = Len(emitted)
    <2>1. emitted \in Seq(Seq(Numbers)) BY DEF EInv, TypeOK
    <2> QED BY <2>1, LenProperties
<1>5. /\ emitted' \in Seq(Seq(Numbers)) /\ emitted'[Len(emitted')] = seq
      /\ Len(emitted') = m + 1 /\ \A i \in 1..m : emitted'[i] = emitted[i]
    <2>1. emitted \in Seq(Seq(Numbers)) BY DEF EInv, TypeOK
    <2>2. emitted' \in Seq(Seq(Numbers)) BY <1>1, <1>2, <2>1, AppendProperties
    <2> QED BY <1>1, <1>2, <2>1, <2>2, AppendProperties, LenProperties
<1>6. TypeOK'
    <2>1. \A p \in DOMAIN tree' : /\ p \in Seq(Numbers) /\ Len(p) <= MaxDepth
                                  /\ tree'[p] \in Questions \cup {End}
        <3>1. Len(seq) <= MaxDepth BY <1>0, <1>1
        <3>2. \A p \in DOMAIN tree : /\ p \in Seq(Numbers) /\ Len(p) <= MaxDepth
                                     /\ tree[p] \in Questions \cup {End}
            BY DEF EInv, TypeOK
        <3> QED BY <1>1, <1>3, <3>1, <3>2
    <2>2. -1 \in -1..MaxDepth BY <1>1
    <2>3. /\ init' \in [Pos -> BOOLEAN] /\ value' \in [Pos -> Nat] /\ all_done' \in BOOLEAN
          /\ decision_depth' \in -1..(MaxDepth - 1)
        BY <1>2 DEF EInv, TypeOK
    <2>4. error' = "SUCCESS" /\ guarded' \in BOOLEAN /\ current_pos' \in -1..MaxDepth
        BY <1>2, <2>2 DEF NewRound
    <2> QED BY <1>4, <1>5, <2>1, <2>3, <2>4 DEF TypeOK
<1>7. Spine'
    <2>1. \A i \in 0..d :
              /\ Asked(Path(i))' /\ Passes(tree'[Path(i)'], i)
              /\ value'[i] \in Valid(tree'[Path(i)'])
        <3>1. d \in -1..d BY <1>1
        <3> QED BY <1>2, <3>1, SpineKept DEF Emit
    <2> QED BY <1>2, <2>1 DEF EInv, Spine
<1>8. seq = Path(n) BY <1>0, <1>1 DEF EInv, Round
<1>9. Order'
    <2> SUFFICES LastBelow(emitted[Len(emitted)])' /\ Len(seq') # decision_depth' + 1
        BY DEF Order
    <2>1. \A j \in 1..n : seq[j] = value[j - 1] BY <1>8 DEF Path
    <2>2. value[n - 1] \in Nat
        <3>1. n - 1 \in Pos BY <1>1 DEF Pos
        <3> QED BY <3>1 DEF EInv, TypeOK
    <2>3. n \in 1..n /\ seq[n] <= value[n - 1] /\ \A j \in 1..(n - 1) : j \in 1..n
        BY <1>1, <2>1, <2>2
    <2>4. /\ n <= Len(seq) => IF n = d + 1 THEN seq[n] <= value[n - 1]
                                           ELSE seq[n] < value[n - 1]
          /\ \A j \in 1..(n - 1) : j <= Len(seq) /\ seq[j] = value[j - 1]
        BY <1>0, <1>1, <2>1, <2>3
    <2>5. n \in 1..(d + 1) BY <1>1
    <2>6. \A e : e = seq => LastBelow(e)' BY <1>2, <2>4, <2>5 DEF LastBelow
    <2>7. decision_depth' + 1 # 0 BY <1>1, <1>2
    <2>8. Len(seq') = 0 BY <1>2 DEF NewRound
    <2>9. \A e : e = emitted'[Len(emitted')] => LastBelow(e)' BY <1>5, <2>6
    <2>10. LastBelow(emitted[Len(emitted)])' BY <2>9 DEF LastBelow
    <2> QED BY <2>7, <2>8, <2>10
<1>10. Progress'
    <2>1. /\ \A p \in DOMAIN tree : tree[p] = End =>
                p # << >> /\ \E i \in 1..Len(emitted) : emitted[i] = p
          /\ \A p \in DOMAIN tree' \ {seq} : tree'[p] # End =>
                \A x \in Valid(tree'[p]) : Explored(p, x)' \/ Ahead(p, x)
        BY <1>1, ProgressKept DEF Emit
    <2>2. \A p, x : Ahead(p, x) => Ahead(p, x)'
        <3>1. \A i \in 0..d : Path(i)' = Path(i) BY <1>1, <1>4
        <3> QED BY <1>2, <3>1 DEF Ahead
    <2>3. ASSUME NEW p \in DOMAIN tree', tree'[p] = End
          PROVE  p # << >> /\ \E i \in 1..Len(emitted') : emitted'[i] = p
        <3>1. CASE p = seq
            <4>1. m + 1 \in 1..(m + 1) OBVIOUS
            <4> QED BY <1>1, <1>5, <3>1, <4>1
        <3>2. CASE p # seq
            <4>1. p \in DOMAIN tree /\ tree[p] = End BY <1>3, <2>3, <3>2
            <4>2. PICK i \in 1..Len(emitted) : emitted[i] = p BY <2>1, <4>1
            <4>3. i \in 1..(m + 1) /\ emitted'[i] = p
                <5>1. i \in 1..m BY <4>2
                <5>2. i \in 1..(m + 1) BY <5>1
                <5> QED BY <1>5, <4>2, <5>1, <5>2
            <4> QED BY <1>5, <2>1, <4>1, <4>3
        <3> QED BY <3>1, <3>2
    <2>4. \A p \in DOMAIN tree' : tree'[p] # End =>
              \A x \in Valid(tree'[p]) : Explored(p, x)' \/ Ahead(p, x)' \/ AtHand(p, x)'
        BY <1>3, <2>1, <2>2
    <2> QED BY <2>3, <2>4 DEF Progress
<1> QED BY <1>4, <1>6, <1>7, <1>9, <1>10 DEF EInv

LEMMA AbandonedInv ==
    ASSUME EInv, Abandoned
    PROVE  EInv'
<1>1. /\ NewRound /\ error # "SUCCESS"
      /\ UNCHANGED <<tree, states, decision_depth, all_done, emitted>>
      /\ value' = value /\ init' = init
    BY DEF Abandoned, states
<1>2. Round' /\ Answers' /\ seq' \in Seq(Numbers) /\ \A i \in Nat : Path(i)' = Path(i)
    BY <1>1, RoundStarts DEF EInv
<1>3. decision_depth \in -1..(MaxDepth - 1) /\ MaxDepth \in Nat
    BY EnumAssumption DEF EInv, TypeOK, EnumAssumption
<1>4. TypeOK'
    <2>1. -1 \in -1..MaxDepth BY <1>3
    <2> QED BY <1>1, <1>2, <2>1 DEF EInv, TypeOK, NewRound
<1>5. \A i \in 0..decision_depth : i \in Nat BY <1>3
<1>6. Spine' BY <1>1, <1>2, <1>5 DEF EInv, Spine, Asked
<1>7. Order'
    <2>1. Len(seq') = 0 BY <1>1 DEF NewRound
    <2> SUFFICES ASSUME emitted # << >>, ~all_done
                 PROVE  LastBelow(emitted[Len(emitted)])' /\ Len(seq') # decision_depth' + 1
        BY <1>1 DEF Order
    <2>2. LastBelow(emitted[Len(emitted)]) BY DEF EInv, Order
    <2>3. decision_depth + 1 # 0 BY <1>3, <2>2 DEF LastBelow
    <2> QED BY <1>1, <2>1, <2>2, <2>3 DEF LastBelow
<1>8. Progress' BY <1>1, <1>2, <1>5 DEF EInv, Progress, Explored, Ahead, AtHand
<1> QED BY <1>2, <1>4, <1>6, <1>7, <1>8 DEF EInv

LEMMA TruthValue ==
    ASSUME NEW P \in BOOLEAN, NEW x, x = P
    PROVE  x \in BOOLEAN /\ (x <=> P)
BY Zenon

\* What is left when random_choice has been reached.
LEMMA AtQuestion ==
    ASSUME EInv, NEW a, a \in Next_question(seq), Asking(a), Learn(a)
    PROVE  Question(a) /\ Passes(a, Len(seq))
BY PastGuard DEF Asking, Question

LEMMA EagerBacktrackInv ==
    ASSUME EInv, NEW a, a \in Next_question(seq), EagerBacktrack(a)
    PROVE  EInv'
<1>0. Question(a) BY DEF EagerBacktrack, Question
<1>1. PICK n \in 0..MaxDepth : n = Len(seq) BY <1>0, Here DEF Question
<1>2. /\ MaxDepth \in Nat /\ decision_depth \in -1..(MaxDepth - 1) /\ a \in Questions
      /\ a.need \in Nat /\ n <= decision_depth + 1 /\ current_pos = n - 1 /\ ~all_done
      /\ value \in [Pos -> Nat] /\ init \in [Pos -> BOOLEAN]
    BY <1>0, <1>1, Here, QuestionStep, QuestionTyped
    DEF Question, EInv, Round, Generating, TypeOK
<1>3. n > 1 /\ MaxDepth - (n - 1) < a.need
    BY <1>2 DEF EagerBacktrack, remain_depth
<1>4. n = decision_depth + 1
    <2> SUFFICES ASSUME n <= decision_depth PROVE FALSE BY <1>2
    <2>1. Passes(tree[seq], n) /\ a = tree[seq]
        BY <1>0, <1>1, Here, QuestionStep DEF Question
    <2> QED BY <1>2, <1>3, <2>1 DEF Passes
<1> DEFINE d == decision_depth
<1>5. \A i \in Pos : init[i] <=> i <= d BY DEF EInv, Spine
<1>6. decision_depth' = d /\ init' \in [Pos -> BOOLEAN] /\ \A i \in Pos : init'[i] <=> i <= d
    <2>1. current_pos = d BY <1>2, <1>4
    <2> QED BY <1>2, <1>5, <2>1 DEF EagerBacktrack
<1>7. \A x \in Valid(a) : n + (IF a.need = 0 THEN 1 ELSE a.need) > MaxDepth
    BY <1>2, <1>3
<1>8. /\ UNCHANGED <<seq, value, current_pos, all_done, guarded, emitted>>
      /\ error' = "BACKTRACKING"
    BY DEF EagerBacktrack
<1>9. current_pos' \in -1..MaxDepth /\ all_done' \in BOOLEAN /\ (all_done' <=> d < 0)
    BY <1>2, <1>3, <1>4, <1>8 DEF EInv, TypeOK
<1> QED BY <1>0, <1>1, <1>2, <1>6, <1>7, <1>8, <1>9, EndInv

LEMMA ExceedDepthInv ==
    ASSUME EInv, NEW a, a \in Next_question(seq), ExceedDepth(a)
    PROVE  EInv'
<1>0. Question(a) BY AtQuestion DEF ExceedDepth
<1>1. PICK n \in 0..MaxDepth : n = Len(seq) BY <1>0, Here DEF Question
<1> DEFINE d == decision_depth
<1>2. /\ MaxDepth \in Nat \ {0} /\ d \in -1..(MaxDepth - 1) /\ a \in Questions
      /\ a.need \in Nat /\ n <= d + 1 /\ pos = n /\ ~all_done
      /\ value \in [Pos -> Nat] /\ init \in [Pos -> BOOLEAN]
    BY <1>0, <1>1, Here, QuestionStep, QuestionTyped, EnumAssumption
    DEF Question, EInv, Round, Generating, TypeOK, EnumAssumption
<1>3. n = MaxDepth /\ d = MaxDepth - 1 BY <1>2 DEF ExceedDepth
<1>4. \A i \in Pos : init[i] <=> i <= d BY DEF EInv, Spine
<1>5. \A x \in Valid(a) : n + (IF a.need = 0 THEN 1 ELSE a.need) > MaxDepth
    BY <1>2, <1>3
<1>6. /\ UNCHANGED <<seq, states, decision_depth, all_done, guarded, emitted>>
      /\ error' = "EXCEED_MAX_DEPTH" /\ current_pos' = n /\ value' = value /\ init' = init
    BY <1>2 DEF ExceedDepth, states
<1>7. current_pos' \in -1..MaxDepth /\ all_done' \in BOOLEAN /\ (all_done' <=> d < 0)
    BY <1>2, <1>3, <1>6 DEF EInv, TypeOK
<1> QED BY <1>0, <1>1, <1>2, <1>4, <1>5, <1>6, <1>7, EndInv

\* What random_choice knows of its position, and of the number to go on from.
LEMMA AtPosition ==
    ASSUME EInv, NEW a, Question(a), pos < MaxDepth, NEW n, n = Len(seq)
    PROVE  /\ MaxDepth \in Nat /\ n \in Pos /\ n \in Nat /\ n \in 0..MaxDepth /\ pos = n
           /\ ~all_done /\ error = "SUCCESS" /\ a \in Questions
           /\ decision_depth \in -1..(MaxDepth - 1) /\ n <= decision_depth + 1
           /\ value \in [Pos -> Nat] /\ init \in [Pos -> BOOLEAN]
           /\ \A i \in Pos : init[i] <=> i <= decision_depth
           /\ init[n] => value[n] \in Valid(a) /\ value[n] + 1 \in 0..a.bound
<1>1. /\ MaxDepth \in Nat /\ n \in Nat /\ n \in 0..MaxDepth /\ pos = n
      /\ ~all_done /\ error = "SUCCESS" /\ a \in Questions
      /\ decision_depth \in -1..(MaxDepth - 1) /\ n <= decision_depth + 1
      /\ value \in [Pos -> Nat] /\ init \in [Pos -> BOOLEAN]
    BY Here, QuestionStep DEF Question, EInv, Round, Generating, TypeOK
<1>2. n \in Pos BY <1>1 DEF Pos
<1>3. \A i \in Pos : init[i] <=> i <= decision_depth BY DEF EInv, Spine
<1>4. init[n] => value[n] \in Valid(a) /\ value[n] + 1 \in 0..a.bound
    <2> SUFFICES ASSUME init[n] PROVE value[n] \in Valid(a) /\ value[n] + 1 \in 0..a.bound
        OBVIOUS
    <2>1. value[n] \in Valid(a) BY <1>2, <1>3, QuestionStep
    <2>2. value[n] \in Nat /\ value[n] < a.bound /\ a.bound \in Nat
        BY <1>1, <2>1, QuestionTyped
    <2> QED BY <2>1, <2>2
<1> QED BY <1>1, <1>2, <1>3, <1>4

LEMMA BacktrackInv ==
    ASSUME EInv, NEW a, a \in Next_question(seq), Backtrack(a)
    PROVE  EInv'
<1>0. Question(a) BY AtQuestion DEF Backtrack, GiveUp
<1>1. PICK n \in 0..MaxDepth : n = Len(seq) BY <1>0, Here DEF Question
<1> DEFINE d == decision_depth - 1
<1>2. /\ MaxDepth \in Nat /\ n \in Pos /\ n \in Nat /\ pos = n
      /\ ~all_done /\ a \in Questions
      /\ decision_depth \in -1..(MaxDepth - 1) /\ n <= decision_depth + 1
      /\ value \in [Pos -> Nat] /\ init \in [Pos -> BOOLEAN]
      /\ \A i \in Pos : init[i] <=> i <= decision_depth
      /\ init[n] => value[n] \in Valid(a) /\ value[n] + 1 \in 0..a.bound
    BY <1>0, <1>1, AtPosition DEF Backtrack
<1>3. init[n] /\ ~(n < decision_depth) /\ NextValid(a, value[n] + 1) = a.bound
    BY <1>2 DEF Backtrack
<1>4. n = decision_depth BY <1>2, <1>3
<1>5. a.bound \in Nat BY <1>2, QuestionTyped
<1>6. /\ value' = [value EXCEPT ![n] = a.bound] /\ current_pos' = n
      /\ init' = [i \in Pos |-> i < n /\ init[i]] /\ decision_depth' = d
      /\ all_done' = (d < 0) /\ error' = "BACKTRACKING"
      /\ UNCHANGED <<seq, guarded, emitted>>
    BY <1>2 DEF Backtrack, GiveUp
<1>7. value' \in [Pos -> Nat] /\ \A i \in 0..d : value'[i] = value[i]
    BY <1>2, <1>4, <1>5, <1>6 DEF Pos
<1>8. init' \in [Pos -> BOOLEAN] /\ \A i \in Pos : init'[i] <=> i <= d
    <2>1. \A i \in Pos : i < n <=> i <= d BY <1>2, <1>4 DEF Pos
    <2>2. \A i \in Pos : i < n => init[i] BY <1>2, <1>4 DEF Pos
    <2>3. \A i \in Pos : init'[i] = (i < n /\ init[i]) BY <1>6
    <2>4. init' \in [Pos -> BOOLEAN] BY <1>6
    <2> HIDE DEF d
    <2> QED BY <2>1, <2>2, <2>3, <2>4
<1>9. current_pos' \in -1..MaxDepth /\ all_done' \in BOOLEAN /\ (all_done' <=> d < 0)
    <2>0. d \in Int BY <1>2
    <2>1. n \in -1..MaxDepth BY <1>2 DEF Pos
    <2>2. all_done' = (d < 0) BY <1>6
    <2> HIDE DEF d
    <2>3. (d < 0) \in BOOLEAN BY <2>0
    <2>4. all_done' \in BOOLEAN /\ (all_done' <=> d < 0) BY <2>2, <2>3, TruthValue, Zenon
    <2> QED BY <1>6, <2>1, <2>4
<1>10. \A x \in Valid(a) : x <= value[n]
    <2> SUFFICES ASSUME NEW x \in Valid(a), x > value[n] PROVE FALSE
        <3>1. \A x \in Valid(a) : x \in Nat BY <1>2, QuestionTyped
        <3> QED BY <1>2, <3>1
    <2>1. x \in Nat /\ x < a.bound BY <1>2, QuestionTyped
    <2>2. \A y \in (value[n] + 1)..(a.bound - 1) : y \notin Valid(a)
        BY <1>2, <1>3, NextValidFirst
    <2>3. value[n] \in Nat BY <1>2
    <2> QED BY <1>5, <2>1, <2>2, <2>3
<1>11. d \in -1..(MaxDepth - 1) BY <1>2, <1>3, <1>4
<1> HIDE DEF d
<1>12. d \in {decision_depth, decision_depth - 1} BY DEF d
<1> QED BY <1>0, <1>1, <1>4, <1>6, <1>7, <1>8, <1>9, <1>10, <1>11, <1>12, EndInv

LEMMA FirstVisitFailsInv ==
    ASSUME EInv, NEW a, a \in Next_question(seq), FirstVisitFails(a)
    PROVE  EInv'
<1>0. Question(a) BY AtQuestion DEF FirstVisitFails, GiveUp
<1>1. PICK n \in 0..MaxDepth : n = Len(seq) BY <1>0, Here DEF Question
<1> DEFINE d == decision_depth
<1>2. /\ MaxDepth \in Nat /\ n \in Pos /\ n \in Nat /\ pos = n
      /\ ~all_done /\ a \in Questions
      /\ decision_depth \in -1..(MaxDepth - 1) /\ n <= decision_depth + 1
      /\ value \in [Pos -> Nat] /\ init \in [Pos -> BOOLEAN]
      /\ \A i \in Pos : init[i] <=> i <= decision_depth
    BY <1>0, <1>1, AtPosition DEF FirstVisitFails
<1>3. ~init[n] /\ NextValid(a, 0) = a.bound BY <1>2 DEF FirstVisitFails
<1>4. n = d + 1 /\ n - 1 = d BY <1>2, <1>3
<1>5. /\ value' = Zeroed(a) /\ current_pos' = n
      /\ init' = [i \in Pos |-> i < n /\ init[i]] /\ decision_depth' = d
      /\ all_done' = (d < 0) /\ error' = "BACKTRACKING"
      /\ UNCHANGED <<seq, guarded, emitted>>
    BY <1>2, <1>4 DEF FirstVisitFails, GiveUp
<1>6. value' \in [Pos -> Nat] /\ \A i \in 0..d : value'[i] = value[i]
    <2>1. \A i \in 0..d : i \in Pos /\ i # n /\ ~(i > n) BY <1>2, <1>4 DEF Pos
    <2> QED BY <1>2, <1>5, <2>1 DEF Zeroed
<1>7. init' \in [Pos -> BOOLEAN] /\ \A i \in Pos : init'[i] <=> i <= d
    <2>1. \A i \in Pos : i \in Int BY DEF Pos
    <2> QED BY <1>2, <1>4, <1>5, <2>1
<1>8. current_pos' \in -1..MaxDepth /\ all_done' \in BOOLEAN /\ (all_done' <=> d < 0)
    <2>0. d \in Int BY <1>2
    <2>1. n \in -1..MaxDepth BY <1>2 DEF Pos
    <2>2. all_done' = (d < 0) BY <1>5
    <2> HIDE DEF d
    <2>3. (d < 0) \in BOOLEAN BY <2>0
    <2>4. all_done' \in BOOLEAN /\ (all_done' <=> d < 0) BY <2>2, <2>3, TruthValue, Zenon
    <2> QED BY <1>5, <2>1, <2>4
<1>9. \A x \in Valid(a) : FALSE
    <2> SUFFICES ASSUME NEW x \in Valid(a) PROVE FALSE OBVIOUS
    <2>1. x \in Nat /\ x < a.bound /\ a.bound \in Nat BY <1>2, QuestionTyped
    <2>2. \A y \in 0..(a.bound - 1) : y \notin Valid(a)
        BY <1>2, <1>3, <2>1, NextValidFirst
    <2> QED BY <2>1, <2>2
<1> HIDE DEF d
<1>10. d \in {decision_depth, decision_depth - 1} /\ d = decision_depth BY DEF d
<1>11. ~(d < decision_depth) /\ d \in -1..(MaxDepth - 1) BY <1>2, <1>10
<1> QED BY <1>0, <1>1, <1>5, <1>6, <1>7, <1>8, <1>9, <1>10, <1>11, EndInv

LEMMA SwitchBranchInv ==
    ASSUME EInv, NEW a, a \in Next_question(seq), SwitchBranch(a)
    PROVE  EInv'
<1>0. Question(a) /\ Passes(a, Len(seq)) BY AtQuestion DEF SwitchBranch, Return
<1>1. PICK n \in 0..MaxDepth : n = Len(seq) BY <1>0, Here DEF Question
<1>2. /\ MaxDepth \in Nat /\ n \in Pos /\ n \in Nat /\ pos = n /\ a \in Questions
      /\ decision_depth \in -1..(MaxDepth - 1) /\ n <= decision_depth + 1
      /\ value \in [Pos -> Nat] /\ init \in [Pos -> BOOLEAN]
      /\ \A i \in Pos : init[i] <=> i <= decision_depth
      /\ init[n] => value[n] \in Valid(a) /\ value[n] + 1 \in 0..a.bound
    BY <1>0, <1>1, AtPosition DEF SwitchBranch
<1> DEFINE v == NextValid(a, value[n] + 1)
<1>3. /\ init[n] /\ ~(n < decision_depth) /\ v < a.bound
      /\ value' = [value EXCEPT ![n] = v] /\ Return(a, v)
      /\ UNCHANGED <<init, decision_depth>>
    BY <1>2 DEF SwitchBranch
<1>4. n = decision_depth BY <1>2, <1>3
<1>5. /\ v \in (value[n] + 1)..a.bound /\ v \in Valid(a)
      /\ \A y \in (value[n] + 1)..(v - 1) : y \notin Valid(a)
    <2>1. a.bound \in Nat BY <1>2, QuestionTyped
    <2> QED BY <1>2, <1>3, <2>1, NextValidFirst
<1> HIDE DEF v
<1>6. v \in Nat /\ v > value[n] /\ value[n] \in Nat BY <1>2, <1>5, QuestionTyped
<1>7. \A x \in Valid(a) : x < v => x <= value[n]
    <2> SUFFICES ASSUME NEW x \in Valid(a), x < v, x > value[n] PROVE FALSE
        <3>1. \A x \in Valid(a) : x \in Nat BY <1>2, QuestionTyped
        <3> QED BY <1>6, <3>1
    <2>1. x \in Nat BY <1>2, QuestionTyped
    <2>2. x \in (value[n] + 1)..(v - 1) BY <1>6, <2>1
    <2> QED BY <1>5, <2>2
<1>8. value' \in [Pos -> Nat] /\ value'[n] = v /\ \A i \in 0..(n - 1) : value'[i] = value[i]
    BY <1>2, <1>3, <1>6 DEF Pos
<1>9. init' \in [Pos -> BOOLEAN] /\ \A i \in Pos : init'[i] <=> i <= n
    BY <1>2, <1>3, <1>4
<1>10. /\ seq' = Append(seq, v) /\ current_pos' = pos /\ guarded' = FALSE
       /\ UNCHANGED <<all_done, error, emitted>> /\ decision_depth' = n
    BY <1>3, <1>4 DEF Return
<1> QED BY <1>0, <1>1, <1>2, <1>4, <1>5, <1>6, <1>7, <1>8, <1>9, <1>10, ChoiceInv

LEMMA FirstVisitInv ==
    ASSUME EInv, NEW a, a \in Next_question(seq), FirstVisit(a)
    PROVE  EInv'
<1>0. Question(a) /\ Passes(a, Len(seq)) BY AtQuestion DEF FirstVisit, Return
<1>1. PICK n \in 0..MaxDepth : n = Len(seq) BY <1>0, Here DEF Question
<1>2. /\ MaxDepth \in Nat /\ n \in Pos /\ n \in Nat /\ pos = n /\ a \in Questions
      /\ decision_depth \in -1..(MaxDepth - 1) /\ n <= decision_depth + 1
      /\ value \in [Pos -> Nat] /\ init \in [Pos -> BOOLEAN]
      /\ \A i \in Pos : init[i] <=> i <= decision_depth
    BY <1>0, <1>1, AtPosition DEF FirstVisit
<1> DEFINE v == NextValid(a, 0)
<1>3. /\ ~init[n] /\ v < a.bound /\ init' = [init EXCEPT ![n] = TRUE]
      /\ value' = [Zeroed(a) EXCEPT ![n] = v] /\ Return(a, v) /\ decision_depth' = n
    BY <1>2 DEF FirstVisit
<1>4. n = decision_depth + 1 BY <1>2, <1>3
<1>5. /\ v \in 0..a.bound /\ v \in Valid(a) /\ \A y \in 0..(v - 1) : y \notin Valid(a)
    <2>1. a.bound \in Nat BY <1>2, QuestionTyped
    <2>2. 0 \in 0..a.bound BY <2>1
    <2> QED BY <1>2, <1>3, <2>1, <2>2, NextValidFirst
<1> HIDE DEF v
<1>6. v \in Nat BY <1>2, <1>5, QuestionTyped
<1>7. \A x \in Valid(a) : ~(x < v)
    <2> SUFFICES ASSUME NEW x \in Valid(a), x < v PROVE FALSE OBVIOUS
    <2>1. x \in Nat BY <1>2, QuestionTyped
    <2> QED BY <1>5, <1>6, <2>1
<1>8. value' \in [Pos -> Nat] /\ value'[n] = v /\ \A i \in 0..(n - 1) : value'[i] = value[i]
    <2>1. Zeroed(a) \in [Pos -> Nat] BY <1>2 DEF Zeroed
    <2>2. \A i \in 0..(n - 1) : i \in Pos /\ i # n /\ ~(i > n) BY <1>2 DEF Pos
    <2>3. \A i \in 0..(n - 1) : Zeroed(a)[i] = value[i] BY <1>2, <2>2 DEF Zeroed
    <2> QED BY <1>2, <1>3, <1>6, <2>1, <2>2, <2>3
<1>9. init' \in [Pos -> BOOLEAN] /\ \A i \in Pos : init'[i] <=> i <= n
    <2>1. \A i \in Pos : i <= n <=> (i = n \/ i <= decision_depth) BY <1>2, <1>4 DEF Pos
    <2> QED BY <1>2, <1>3, <2>1
<1>10. /\ seq' = Append(seq, v) /\ current_pos' = pos /\ guarded' = FALSE
       /\ UNCHANGED <<all_done, error, emitted>>
    BY <1>3 DEF Return
<1>11. n # decision_depth BY <1>2, <1>4
<1> QED BY <1>0, <1>1, <1>2, <1>3, <1>4, <1>5, <1>7, <1>8, <1>9, <1>10, <1>11, ChoiceInv

-----------------------------------------------------------------------------

LEMMA InitInv ==
    ASSUME Init
    PROVE  EInv
<1>1. MaxDepth \in Nat \ {0} BY EnumAssumption DEF EnumAssumption
<1>2. /\ DOMAIN tree = {} /\ seq = << >> /\ emitted = << >> /\ decision_depth = -1
      /\ current_pos = -1 /\ all_done = FALSE /\ guarded = FALSE /\ error = "SUCCESS"
      /\ init = [i \in Pos |-> FALSE] /\ value = [i \in Pos |-> 0]
    BY DEF Init
<1>3. -1 \in -1..MaxDepth /\ -1 \in -1..(MaxDepth - 1) BY <1>1
<1>4. TypeOK
    <2>1. << >> \in Seq(Numbers) /\ << >> \in Seq(Seq(Numbers)) OBVIOUS
    <2>2. init \in [Pos -> BOOLEAN] /\ value \in [Pos -> Nat] BY <1>2
    <2> QED BY <1>2, <1>3, <2>1, <2>2 DEF TypeOK
<1>5. Spine
    <2>1. \A i \in Pos : ~(i <= -1) BY <1>1 DEF Pos
    <2> QED BY <1>2, <2>1 DEF Spine
<1>6. Round
    <2>1. Len(seq) = 0 /\ Path(0) = << >> BY <1>2 DEF Path
    <2> QED BY <1>2, <2>1 DEF Round
<1>7. Answers BY <1>2 DEF Answers
<1>8. Order BY <1>2 DEF Order
<1>9. Progress BY <1>2 DEF Progress
<1> QED BY <1>4, <1>5, <1>6, <1>7, <1>8, <1>9 DEF EInv

LEMMA StutterInv ==
    ASSUME EInv, UNCHANGED vars
    PROVE  EInv'
<1>1. /\ tree' = tree /\ seq' = seq /\ init' = init /\ value' = value
      /\ current_pos' = current_pos /\ decision_depth' = decision_depth
      /\ all_done' = all_done /\ error' = error /\ guarded' = guarded
      /\ emitted' = emitted
    BY DEF vars, states
<1>2. TypeOK' BY <1>1 DEF EInv, TypeOK
<1>3. Spine' BY <1>1 DEF EInv, Spine, Asked, Path, Passes
<1>4. Round' BY <1>1 DEF EInv, Round, Asked, Path, Passes
<1>5. Answers' BY <1>1 DEF EInv, Answers, Asked
<1>6. Order' BY <1>1 DEF EInv, Order, LastBelow
<1>7. Progress' BY <1>1 DEF EInv, Progress, Explored, Ahead, AtHand, Path
<1> QED BY <1>2, <1>3, <1>4, <1>5, <1>6, <1>7 DEF EInv

LEMMA NextInv ==
    ASSUME EInv, [Next]_vars
    PROVE  EInv'
<1>1. ASSUME NEW a \in Next_question(seq), PassGuard(a) PROVE EInv'
    <2>1. Question(a) BY <1>1 DEF PassGuard, Question
    <2> QED BY <1>1, <2>1, PassGuardInv
<1>2. ASSUME NEW a \in Next_question(seq), Revisit(a) PROVE EInv'
    <2>1. Question(a) BY <1>2, AtQuestion DEF Revisit, Return
    <2> QED BY <1>2, <2>1, RevisitInv
<1>3. ASSUME NEW a \in Next_question(seq), EagerBacktrack(a) \/ Random_choice(a) PROVE EInv'
    BY <1>2, <1>3, EagerBacktrackInv, ExceedDepthInv, SwitchBranchInv, BacktrackInv,
       FirstVisitInv, FirstVisitFailsInv DEF Random_choice
<1>4. CASE Emit BY <1>4, EmitInv
<1>5. CASE Abandoned BY <1>5, AbandonedInv
<1>6. CASE UNCHANGED vars BY <1>6, StutterInv
<1> QED BY <1>1, <1>3, <1>4, <1>5, <1>6 DEF Next, Stop

\* The states of the enumerating source are those of one path through the tree of
\* choices, and every number it has returned is one that its filter accepts: for every
\* generator, every depth and every filter.
THEOREM StatesFitHolds == Spec => []StatesFit
<1>1. Init => EInv BY InitInv
<1>2. EInv /\ [Next]_vars => EInv' BY NextInv
<1>3. EInv => StatesFit
    <2> SUFFICES ASSUME EInv PROVE StatesFit OBVIOUS
    <2>1. TypeOK /\ PathConsistent BY DEF EInv, Spine, PathConsistent
    <2>2. ChoicesValid BY DEF EInv, Answers, ChoicesValid
    <2> QED BY <2>1, <2>2 DEF StatesFit
<1> QED BY <1>1, <1>2, <1>3, PTL DEF Spec

\* No program is written twice: each one comes after the one before it, in the order of
\* their choices.
THEOREM AscendingHolds == Spec => Ascending
<1>1. Init => EInv BY InitInv
<1>2. EInv /\ [Next]_vars => EInv' BY NextInv
<1>3. EInv /\ [Next]_vars =>
          [emitted' # emitted /\ emitted # << >> =>
              Before(emitted[Len(emitted)], emitted'[Len(emitted')])]_vars
    <2> SUFFICES ASSUME EInv, Next, emitted' # emitted, emitted # << >>
                 PROVE  Before(emitted[Len(emitted)], emitted'[Len(emitted')])
        BY DEF vars
    <2>1. Emit
        BY DEF Next, PassGuard, EagerBacktrack, Random_choice, ExceedDepth, Revisit,
               SwitchBranch, Backtrack, FirstVisit, FirstVisitFails, Return, GiveUp, Abandoned,
               Stop, vars
    <2>2. /\ Len(seq) = decision_depth + 1 /\ emitted' = Append(emitted, seq) /\ Generating
          /\ seq \in Seq(Numbers)
        BY <2>1, EmitHere
    <2>3. Before(emitted[Len(emitted)], seq) BY <2>2 DEF EInv, Order, Generating
    <2>4. emitted \in Seq(Seq(Numbers)) BY DEF EInv, TypeOK
    <2>5. emitted'[Len(emitted')] = seq
        <3>1. Len(emitted') = Len(emitted) + 1 /\ emitted'[Len(emitted) + 1] = seq
            BY <2>2, <2>4, AppendProperties
        <3> QED BY <3>1
    <2> QED BY <2>3, <2>5
<1> QED BY <1>1, <1>2, <1>3, PTL DEF Spec, Ascending

\* When get_all_done() says so, every program that fits in max_exhaustive_depth has been
\* written: no branch of the tree is passed over but those that are too deep.
THEOREM ExhaustiveHolds == Spec => []Exhaustive
<1>1. Init => EInv BY InitInv
<1>2. EInv /\ [Next]_vars => EInv' BY NextInv
<1>3. EInv => Exhaustive
    <2> SUFFICES ASSUME EInv, all_done, NEW p \in DOMAIN tree, tree[p] # End,
                        NEW v \in Valid(tree[p])
                 PROVE  Explored(p, v)
        BY DEF EInv, Progress, Exhaustive, Explored
    <2>1. decision_depth < 0 /\ decision_depth \in Int BY DEF EInv, Spine, TypeOK
    <2>2. ~Ahead(p, v) BY <2>1 DEF Ahead
    <2>3. ~AtHand(p, v)
        <3> SUFFICES ASSUME error = "SUCCESS", Append(p, v) = seq PROVE FALSE
            BY DEF AtHand, EInv, Round
        <3>1. Len(seq) <= decision_depth + 1 BY DEF EInv, Round
        <3>2. p \in Seq(Numbers) /\ v \in Numbers
            BY QuestionTyped DEF EInv, TypeOK
        <3>3. Len(seq) = Len(p) + 1 /\ Len(p) \in Nat
            BY <3>2, AppendProperties, LenProperties
        <3> QED BY <2>1, <3>1, <3>3
    <2> QED BY <2>2, <2>3 DEF EInv, Progress
<1> QED BY <1>1, <1>2, <1>3, PTL DEF Spec

=============================================================================
