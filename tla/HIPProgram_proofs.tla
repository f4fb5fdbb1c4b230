-------------------------- MODULE HIPProgram_proofs --------------------------
(***************************************************************************)
(* Proofs about the hipsmith process and the program it writes.            *)
(*                                                                         *)
(* HIPKernel: for every program text and every set of options, when the    *)
(* generated binary is run without arguments (argc = 1), which is what     *)
(* README.md and the driver's comments ask for.                            *)
(*                                                                         *)
(* HIPMain: for every command line, every meaning of its words and any     *)
(* number of variables, func_1 is the entry, no name is given out twice    *)
(* although gensym starts again between the kinds, and the command line is *)
(* obeyed.                                                                 *)
(***************************************************************************)
EXTENDS HIPKernel, HIPMain, SequenceTheorems, WellFoundedInduction, TLAPS

(***************************************************************************)
(* The generated program: HIPKernel.                                       *)
(***************************************************************************)

Accessed == Stored \cup {"const"}

\* Whoever touched a place did so with an access that the options allow.
TouchedOK ==
    \A p \in Places : \A t \in touched[p] :
        \E k \in Accessed : OptionOf(k) \subseteq flags /\ p = Place(k, t)

KInv ==
    /\ flags \subseteq Options
    /\ \A i \in 1..Len(program) : OptionOf(program[i]) \subseteq flags
    /\ touched \in [Places -> SUBSET Thread]
    /\ TouchedOK

-----------------------------------------------------------------------------
(* The launch sizes.                                                       *)

\* With one argument the three cases of OutputEntryFunction are one thread, four
\* blocks of one thread, and one block of four.
LEMMA Sizes ==
    ASSUME Argc = 1
    PROVE  /\ flags \cap ThreadOptions # {} => NumThreads = 1 /\ BlockSize = 1 /\ GridSize = 1
           /\ flags \cap BlockOptions # {} => BlockSize = 1
           /\ \/ NumThreads = 1 /\ BlockSize = 1 /\ GridSize = 1
              \/ NumThreads = 4 /\ BlockSize = 1 /\ GridSize = 4
              \/ NumThreads = 4 /\ BlockSize = 4 /\ GridSize = 1
<1>1. CASE flags \cap ThreadOptions # {}
    <2>1. flags \cap BlockOptions # {} BY <1>1 DEF BlockOptions
    <2>2. NumThreads = 1 /\ BlockSize = 1 BY <1>1, <2>1 DEF NumThreads, BlockSize
    <2>3. GridSize = 1 BY <2>2, (1 + 1 - 1) \div 1 = 1 DEF GridSize
    <2> QED BY <2>2, <2>3
<1>2. CASE flags \cap ThreadOptions = {} /\ flags \cap BlockOptions # {}
    <2>1. NumThreads = 4 /\ BlockSize = 1 BY <1>2 DEF NumThreads, BlockSize
    <2>2. GridSize = 4 BY <2>1, (4 + 1 - 1) \div 1 = 4 DEF GridSize
    <2> QED BY <1>2, <2>1, <2>2
<1>3. CASE flags \cap ThreadOptions = {} /\ flags \cap BlockOptions = {}
    <2>1. NumThreads = 4 /\ BlockSize = 4 BY <1>3 DEF NumThreads, BlockSize
    <2>2. GridSize = 1 BY <2>1, (4 + 4 - 1) \div 4 = 1 DEF GridSize
    <2> QED BY <1>3, <2>1, <2>2
<1> QED BY <1>1, <1>2, <1>3

\* The launched threads are the slots of d_results.
LEMMA Layout ==
    ASSUME Argc = 1
    PROVE  Thread = 0..NumThreads - 1 /\ \A t \in Thread : tid(t) = t
<1>1. CASE NumThreads = 1 /\ BlockSize = 1 /\ GridSize = 1
    <2>1. Thread = 0..0 BY <1>1, 1 * 1 - 1 = 0 DEF Thread
    <2>2. \A t \in Thread : t = 0 BY <2>1
    <2>3. \A t \in Thread : tid(t) = 0
        BY <1>1, <2>2, 0 % 1 = 0, 0 \div 1 = 0 DEF tid, threadIdx, blockIdx
    <2> QED BY <1>1, <2>1, <2>2, <2>3
<1>2. CASE NumThreads = 4 /\ BlockSize = 1 /\ GridSize = 4
    <2>1. Thread = 0..3 BY <1>2 DEF Thread
    <2>2. \A t \in 0..3 : t % 1 = 0 /\ t \div 1 = t OBVIOUS
    <2>3. \A t \in Thread : tid(t) = t
        BY <1>2, <2>1, <2>2 DEF tid, threadIdx, blockIdx
    <2> QED BY <1>2, <2>1, <2>3
<1>3. CASE NumThreads = 4 /\ BlockSize = 4 /\ GridSize = 1
    <2>1. Thread = 0..3 BY <1>3 DEF Thread
    <2>2. \A t \in 0..3 : t % 4 = t /\ t \div 4 = 0 OBVIOUS
    <2>3. \A t \in Thread : tid(t) = t
        BY <1>3, <2>1, <2>2 DEF tid, threadIdx, blockIdx
    <2> QED BY <1>3, <2>1, <2>3
<1> QED BY <1>1, <1>2, <1>3, Sizes

\* No launch has a thread without a slot of its own.
LEMMA SlotsInBounds ==
    ASSUME Argc = 1
    PROVE  ResultsInBounds
BY Layout DEF ResultsInBounds

-----------------------------------------------------------------------------
(* What is touched.                                                        *)

\* Two threads that the options let meet at a place are one thread, unless the
\* place is a constant.
LEMMA PlacesApart ==
    ASSUME Argc = 1,
           NEW t \in Thread, NEW u \in Thread, NEW j \in Accessed, NEW k \in Accessed,
           OptionOf(j) \subseteq flags, OptionOf(k) \subseteq flags,
           Place(j, t) = Place(k, u), k # "const"
    PROVE  t = u
<1>1. \A x \in Accessed, v \in Thread : Place(x, v)[1] = x
    BY DEF Place, Accessed, Stored
<1>2. j = k BY <1>1
<1>3. CASE k = "global"
    <2>1. Place(j, t)[2] = t /\ Place(k, u)[2] = u BY <1>2, <1>3 DEF Place
    <2> QED BY <2>1
<1>4. CASE k = "shared"
    <2>1. "hip_shared" \in flags BY <1>4 DEF OptionOf
    <2>2. BlockSize = 1 BY <2>1, Sizes DEF BlockOptions
    <2>3. Place(j, t)[2] = blockIdx(t) /\ Place(k, u)[2] = blockIdx(u)
        BY <1>2, <1>4 DEF Place
    <2>4. t \in Int /\ u \in Int BY DEF Thread
    <2>5. blockIdx(t) = t /\ blockIdx(u) = u BY <2>2, <2>4 DEF blockIdx
    <2> QED BY <2>3, <2>5
<1>5. CASE k \in {"managed", "device"}
    <2>1. flags \cap ThreadOptions # {}
        BY <1>5 DEF OptionOf, ThreadOptions, Options
    <2>2. BlockSize = 1 /\ GridSize = 1 BY <2>1, Sizes
    <2>3. Thread = 0..0 BY <2>2, 1 * 1 - 1 = 0 DEF Thread
    <2> QED BY <2>3
<1> QED BY <1>3, <1>4, <1>5 DEF Accessed, Stored

LEMMA KInvRaceFree ==
    ASSUME Argc = 1, KInv
    PROVE  RaceFree
<1> SUFFICES ASSUME NEW p \in Places, p[1] # "const",
                    NEW t \in touched[p], NEW u \in touched[p]
             PROVE  t = u
    BY DEF RaceFree
<1>1. t \in Thread /\ u \in Thread BY DEF KInv
<1>2. PICK j \in Accessed : OptionOf(j) \subseteq flags /\ p = Place(j, t)
    BY DEF KInv, TouchedOK
<1>3. PICK k \in Accessed : OptionOf(k) \subseteq flags /\ p = Place(k, u)
    BY DEF KInv, TouchedOK
<1>4. p[1] = k BY <1>3 DEF Place
<1> QED BY <1>1, <1>2, <1>3, <1>4, PlacesApart

-----------------------------------------------------------------------------
(* KInv is an invariant.                                                   *)

\* Thread and Places depend on the generated program only.
LEMMA SamePlaces ==
    ASSUME UNCHANGED generated
    PROVE  /\ flags' = flags /\ program' = program
           /\ Thread' = Thread /\ Places' = Places
           /\ \A k, t : Place(k, t)' = Place(k, t)
BY DEF generated, Thread, GridSize, NumThreads, BlockSize, Places, Place, blockIdx

LEMMA InitKInv ==
    ASSUME Init
    PROVE  KInv
<1>1. flags \subseteq Options BY KernelAssumption DEF Init
<1>2. \A i \in 1..Len(program) : OptionOf(program[i]) \subseteq flags BY DEF Init
<1>3. touched = [p \in Places |-> {}] BY DEF Init
<1>4. touched \in [Places -> SUBSET Thread] BY <1>3
<1>5. TouchedOK BY <1>3 DEF TouchedOK
<1> QED BY <1>1, <1>2, <1>4, <1>5 DEF KInv

\* Steps of the host, and steps of a thread in its own registers.
LEMMA QuietStep ==
    ASSUME KInv, UNCHANGED generated, UNCHANGED touched
    PROVE  KInv'
BY SamePlaces DEF KInv, TouchedOK

\* A thread touches the places of some accesses that the options allow.
LEMMA TouchStep ==
    ASSUME KInv, UNCHANGED generated, NEW t \in Thread,
           NEW K \in SUBSET Accessed, \A k \in K : OptionOf(k) \subseteq flags,
           touched' = [p \in Places |->
                          IF \E k \in K : p = Place(k, t)
                          THEN touched[p] \cup {t} ELSE touched[p]]
    PROVE  KInv'
<1>1. touched' \in [Places -> SUBSET Thread] BY DEF KInv
<1>2. ASSUME NEW p \in Places, NEW u \in touched'[p]
      PROVE  \E k \in Accessed : OptionOf(k) \subseteq flags /\ p = Place(k, u)
    <2>1. CASE u \in touched[p] BY <2>1 DEF KInv, TouchedOK
    <2>2. CASE u \notin touched[p]
        <3>1. u = t /\ \E k \in K : p = Place(k, t) BY <2>2
        <3> QED BY <3>1
    <2> QED BY <2>1, <2>2
<1>3. TouchedOK' BY <1>2, SamePlaces DEF TouchedOK
<1> QED BY <1>1, <1>3, SamePlaces DEF KInv

\* Touch, the form of one access.
LEMMA TouchOne ==
    ASSUME KInv, UNCHANGED generated, NEW t \in Thread, NEW k \in Accessed,
           OptionOf(k) \subseteq flags, Touch(t, Place(k, t))
    PROVE  KInv'
<1>1. touched' = [touched EXCEPT ![Place(k, t)] = @ \cup {t}] BY DEF Touch
<1>2. touched' = [p \in Places |->
                     IF \E j \in {k} : p = Place(j, t)
                     THEN touched[p] \cup {t} ELSE touched[p]]
    BY <1>1 DEF KInv
<1>3. {k} \in SUBSET Accessed /\ \A j \in {k} : OptionOf(j) \subseteq flags OBVIOUS
<1> QED BY <1>2, <1>3, TouchStep

LEMMA ThreadKInv ==
    ASSUME KInv, NEW t \in Thread, ThreadStep(t)
    PROVE  KInv'
<1>1. CASE InitGlobals(t)
    <2>1. "global" \in Accessed /\ OptionOf("global") \subseteq flags
        BY DEF Accessed, Stored, OptionOf
    <2> QED BY <1>1, <2>1, TouchOne DEF InitGlobals
<1>2. CASE InitShared(t)
    <2>1. "shared" \in Accessed BY DEF Accessed, Stored
    <2>2. OptionOf("shared") \subseteq flags BY <1>2 DEF InitShared, AtOp, KInv
    <2> QED BY <1>2, <2>1, <2>2, TouchOne DEF InitShared
<1>3. CASE Load(t)
    <2>1. program[pc[t]] \in Accessed BY <1>3 DEF Load, AtOp, Accessed
    <2>2. OptionOf(program[pc[t]]) \subseteq flags BY <1>3 DEF Load, AtOp, KInv
    <2>3. Touch(t, Place(program[pc[t]], t)) BY <1>3 DEF Load
    <2>4. UNCHANGED generated BY <1>3 DEF Load
    <2> QED BY <2>1, <2>2, <2>3, <2>4, TouchOne
<1>4. CASE HashGlobals(t)
    <2>1. Hashed \in SUBSET Accessed BY DEF Hashed, Accessed, Stored
    <2>2. \A k \in Hashed : OptionOf(k) \subseteq flags BY DEF Hashed, OptionOf
    <2> QED BY <1>4, <2>1, <2>2, TouchStep DEF HashGlobals
<1>5. CASE Store(t) BY <1>5, QuietStep DEF Store
<1>6. CASE Branch(t) BY <1>6, QuietStep DEF Branch
<1>7. CASE Barrier(t) BY <1>7, QuietStep DEF Barrier
<1>8. CASE StoreResult(t) BY <1>8, QuietStep DEF StoreResult
<1> QED BY <1>1, <1>2, <1>3, <1>4, <1>5, <1>6, <1>7, <1>8 DEF ThreadStep

LEMMA NextKInv ==
    ASSUME KInv, [Next]_vars
    PROVE  KInv'
<1>1. CASE UNCHANGED vars BY <1>1, QuietStep DEF vars, generated
<1>2. CASE HostStep
    <2>1. UNCHANGED generated /\ UNCHANGED touched
        BY <1>2 DEF HostStep, SetupHipGlobals, DeviceAlloc, Launch, DeviceSynchronize,
                    CopyBack, PrintLine, Return
    <2> QED BY <2>1, QuietStep
<1>3. CASE HipCheckFails BY <1>3, QuietStep DEF HipCheckFails
<1>4. CASE \E t \in Thread : ThreadStep(t) BY <1>4, ThreadKInv
<1>5. CASE Stop BY <1>5, QuietStep DEF Stop, vars, generated
<1> QED BY <1>1, <1>2, <1>3, <1>4, <1>5 DEF Next

-----------------------------------------------------------------------------

\* Run without arguments, a generated program has no two threads at a variable that
\* may be written: any body of func_1, any options, any schedule.
THEOREM RaceFreedom ==
    ASSUME Argc = 1
    PROVE  Spec => []RaceFree
<1>1. Init => KInv BY InitKInv
<1>2. KInv /\ [Next]_vars => KInv' BY NextKInv
<1>3. KInv => RaceFree BY KInvRaceFree
<1> QED BY <1>1, <1>2, <1>3, PTL DEF Spec

\* ... and every thread that OutputEntryFunction launches has a slot of d_results
\* to itself.
THEOREM ResultSlots ==
    ASSUME Argc = 1
    PROVE  Spec => []ResultsInBounds
<1>1. ResultsInBounds BY SlotsInBounds
<1> QED BY <1>1, PTL

-----------------------------------------------------------------------------
(* What the program text determines.                                       *)

\* A set that holds 0 and with n holds n + 1 holds every natural number: induction in
\* the form in which the provers can use it.
LEMMA SetInduction ==
    ASSUME NEW S, 0 \in S, \A n \in Nat : n \in S => n + 1 \in S
    PROVE  Nat \subseteq S
<1> DEFINE T == Nat \ S
<1> SUFFICES ASSUME T # {} PROVE FALSE OBVIOUS
<1>1. PICK m \in T : \A n \in T : ~(<<n, m>> \in OpToRel(<, Nat))
    BY NatLessThanWellFounded, WFMin
<1>2. \A n \in T : ~(<<n, m>> \in {ss \in Nat \X Nat : ss[1] < ss[2]})
    BY <1>1, Zenon DEF OpToRel
<1>3. m \in Nat /\ m # 0 OBVIOUS
<1>4. m - 1 \in Nat BY <1>3
<1>5. CASE m - 1 \in S
    <2>1. m - 1 + 1 \in S BY <1>4, <1>5
    <2>2. m - 1 + 1 = m BY <1>3
    <2> QED BY <2>1, <2>2
<1>6. CASE m - 1 \notin S
    <2>1. m - 1 \in T BY <1>4, <1>6
    <2>2. <<m - 1, m>> \notin {ss \in Nat \X Nat : ss[1] < ss[2]} BY <1>2, <2>1, Zenon
    <2>3. <<m - 1, m>> \in {ss \in Nat \X Nat : ss[1] < ss[2]} BY <1>3, <1>4
    <2> QED BY <2>2, <2>3
<1> QED BY <1>5, <1>6

\* The run of a body exists: each statement gives the state after it.
LEMMA RunSteps ==
    ASSUME NEW body \in Seq(Kinds), NEW first
    PROVE  /\ Run(body, first)[0] = Begin
           /\ \A i \in 1..Len(body) :
                 Run(body, first)[i] = Statement(Run(body, first)[i - 1], body[i], first)
<1> DEFINE Next_(f, i) == IF i = 0 THEN Begin ELSE Statement(f[i - 1], body[i], first)
           IsRun(f, n) == f = [i \in 0..n |-> Next_(f, i)]
           S == {n \in Nat : \E f : IsRun(f, n)}
<1> HIDE DEF Next_
<1>1. 0 \in S
    <2> DEFINE f == [i \in 0..0 |-> Begin]
    <2>1. \A i \in 0..0 : f[i] = Next_(f, i) BY DEF Next_
    <2>2. f = [i \in 0..0 |-> Next_(f, i)] BY <2>1
    <2> QED BY <2>2
<1>2. ASSUME NEW n \in Nat, n \in S PROVE n + 1 \in S
    <2>1. PICK f : IsRun(f, n) BY <1>2
    <2> DEFINE g == [i \in 0..n + 1 |-> IF i = n + 1 THEN Next_(f, n + 1) ELSE f[i]]
    <2>2. ASSUME NEW i \in 0..n + 1 PROVE g[i] = Next_(g, i)
        <3>1. CASE i = 0
            <4>1. g[0] = f[0] OBVIOUS
            <4>2. f[0] = Next_(f, 0) BY <2>1
            <4> QED BY <3>1, <4>1, <4>2 DEF Next_
        <3>2. CASE i # 0
            <4>1. i - 1 \in 0..n /\ i \in Int BY <3>2
            <4>2. g[i - 1] = f[i - 1] BY <4>1
            <4>3. g[i] = Next_(f, i)
                <5>1. CASE i = n + 1 BY <5>1
                <5>2. CASE i # n + 1
                    <6>1. i \in 0..n BY <5>2
                    <6>2. g[i] = f[i] BY <5>2
                    <6> QED BY <6>1, <6>2, <2>1
                <5> QED BY <5>1, <5>2
            <4> QED BY <3>2, <4>2, <4>3 DEF Next_
        <3> QED BY <3>1, <3>2
    <2>3. g = [i \in 0..n + 1 |-> Next_(g, i)] BY <2>2
    <2>4. IsRun(g, n + 1) BY <2>3
    <2> HIDE DEF g
    <2>5. \E f_1 : IsRun(f_1, n + 1) BY <2>4
    <2> QED BY <2>5
<1>3. Len(body) \in S
    <2>1. Nat \subseteq S BY <1>1, <1>2, SetInduction
    <2> QED BY <2>1, LenProperties
<1>4. \E f : IsRun(f, Len(body)) BY <1>3
<1> DEFINE R == CHOOSE f : IsRun(f, Len(body))
<1>5. IsRun(R, Len(body)) BY <1>4
<1>6. R = Run(body, first) BY DEF Run, Next_
<1> HIDE DEF R
<1>7. \A i \in 0..Len(body) : R[i] = Next_(R, i) BY <1>5
<1>8. Len(body) \in Nat BY LenProperties
<1> QED BY <1>6, <1>7, <1>8 DEF Next_

RunState == [sum : Nat, skip : BOOLEAN, val : [Kinds -> Value]]

LEMMA ValueArithmetic ==
    /\ InitValue \in Value /\ InitValue % Modulus = InitValue /\ 0 \in Value
    /\ \A v \in Value : v \in Nat /\ Up(v) \in Value
    /\ \A n \in Nat : ResultOf(n) \in Value
<1>1. Modulus \in Nat /\ Modulus > 1 BY KernelAssumption DEF KernelAssumption
<1>2. \A m \in Nat : m > 1 => 1 % m = 1 OBVIOUS
<1>3. \A n \in Int : n % Modulus \in 0..Modulus - 1 BY <1>1
<1>4. InitValue \in Value /\ InitValue % Modulus = InitValue /\ 0 \in Value
    BY <1>1, <1>2 DEF InitValue, Value
<1>5. ASSUME NEW v \in Value PROVE v \in Nat /\ Up(v) \in Value
    BY <1>1, <1>3 DEF Value, Up
<1>6. ASSUME NEW n \in Nat PROVE ResultOf(n) \in Value
    <2>1. n % Modulus \in 0..Modulus - 1 BY <1>3
    <2>2. Modulus - (n % Modulus) \in Int BY <1>1, <2>1
    <2> QED BY <1>3, <2>2 DEF ResultOf, Value
<1> QED BY <1>4, <1>5, <1>6

LEMMA AccessTyped ==
    ASSUME NEW s \in RunState, NEW k \in Kinds
    PROVE  Access(s, k) \in RunState
<1>1. s.val[k] \in Value BY DEF RunState
<1>2. s.sum + s.val[k] \in Nat BY <1>1, ValueArithmetic DEF RunState
<1>3. (IF k = "const" THEN s.val[k] ELSE Up(s.val[k])) \in Value BY <1>1, ValueArithmetic
<1>4. [s.val EXCEPT ![k] = IF k = "const" THEN @ ELSE Up(@)] \in [Kinds -> Value]
    BY <1>3 DEF RunState
<1> QED BY <1>2, <1>4 DEF RunState, Access

LEMMA StatementTyped ==
    ASSUME NEW s \in RunState, NEW k \in Kinds, NEW first \in BOOLEAN
    PROVE  Statement(s, k, first) \in RunState
<1>1. CASE s.skip BY <1>1 DEF Statement, RunState
<1>2. CASE ~s.skip /\ k = "barrier" BY <1>2 DEF Statement
<1>3. CASE ~s.skip /\ k = "branch" BY <1>3 DEF Statement, RunState
<1>4. CASE ~s.skip /\ k = "shared"
    <2>1. [s EXCEPT !.val[k] = InitValue] \in RunState BY ValueArithmetic DEF RunState
    <2> QED BY <1>4, <2>1, AccessTyped DEF Statement
<1>5. CASE ~s.skip /\ k \notin {"barrier", "branch", "shared"}
    BY <1>5, AccessTyped DEF Statement
<1> QED BY <1>1, <1>2, <1>3, <1>4, <1>5

LEMMA RunTyped ==
    ASSUME NEW body \in Seq(Kinds), NEW first \in BOOLEAN
    PROVE  \A i \in 0..Len(body) : Run(body, first)[i] \in RunState
<1> DEFINE R == Run(body, first)
           S == {n \in Nat : n <= Len(body) => R[n] \in RunState}
<1>1. Len(body) \in Nat /\ \A i \in 1..Len(body) : body[i] \in Kinds
    BY LenProperties, ElementOfSeq
<1>2. /\ R[0] = Begin
      /\ \A i \in 1..Len(body) : R[i] = Statement(R[i - 1], body[i], first)
    BY RunSteps
<1> HIDE DEF R
<1>3. 0 \in S
    <2>1. Begin \in RunState BY ValueArithmetic DEF Begin, RunState
    <2> QED BY <1>2, <2>1
<1>4. ASSUME NEW n \in Nat, n \in S PROVE n + 1 \in S
    <2> SUFFICES ASSUME n + 1 <= Len(body) PROVE R[n + 1] \in RunState OBVIOUS
    <2>1. R[n] \in RunState BY <1>1, <1>4
    <2>2. R[n + 1] = Statement(R[n], body[n + 1], first) /\ body[n + 1] \in Kinds
        BY <1>1, <1>2
    <2> QED BY <2>1, <2>2, StatementTyped
<1>5. Nat \subseteq S BY <1>3, <1>4, SetInduction
<1> QED BY <1>1, <1>5 DEF R

-----------------------------------------------------------------------------
(* Type correctness.                                                       *)

\* What depends on the generated program only.
LEMMA SameTexts ==
    ASSUME UNCHANGED generated
    PROVE  /\ NumThreads' = NumThreads /\ Hashed' = Hashed
           /\ \A t : threadIdx(t)' = threadIdx(t) /\ tid(t)' = tid(t) /\ Expected(t)' = Expected(t)
<1>1. flags' = flags /\ program' = program BY DEF generated
<1>2. BlockSize' = BlockSize /\ NumThreads' = NumThreads BY <1>1 DEF BlockSize, NumThreads
<1>3. Hashed' = Hashed BY <1>1 DEF Hashed
<1>4. \A t : threadIdx(t)' = threadIdx(t) /\ tid(t)' = tid(t)
    BY <1>2 DEF threadIdx, tid, blockIdx
<1>5. \A t : Expected(t)' = Expected(t) BY <1>1, <1>3, <1>4 DEF Expected, HashOf
<1> QED BY <1>2, <1>3, <1>4, <1>5

LEMMA HashNat ==
    ASSUME NEW v, \A k \in Hashed : v[k] \in Nat
    PROVE  HashOf(v) \in Nat
<1>1. \A k : (IF k \in Hashed THEN v[k] ELSE 0) \in Nat OBVIOUS
<1> QED BY <1>1 DEF HashOf

LEMMA HashSame ==
    ASSUME NEW v, NEW w, \A k \in Hashed : v[k] = w[k]
    PROVE  HashOf(v) = HashOf(w)
<1>1. \A k : (IF k \in Hashed THEN v[k] ELSE 0) = (IF k \in Hashed THEN w[k] ELSE 0) OBVIOUS
<1> QED BY <1>1 DEF HashOf

LEMMA PlaceKnown ==
    ASSUME NEW k \in Accessed, NEW t \in Thread
    PROVE  Place(k, t) \in Places
BY DEF Accessed, Places

LEMMA HashedAccessed == Hashed \subseteq Accessed BY DEF Hashed, Accessed, Stored

LEMMA ProgramKnown ==
    ASSUME TypeOK
    PROVE  /\ program \in Seq(Kinds) /\ Len(program) \in Nat
           /\ \A i \in 1..Len(program) : program[i] \in Kinds
<1>1. program \in Seq(Kinds) BY KernelAssumption DEF KernelAssumption, TypeOK
<1> QED BY <1>1, LenProperties, ElementOfSeq

LEMMA ThreadsCounted == NumThreads \in Nat /\ NumThreads > 0
BY KernelAssumption DEF KernelAssumption, NumThreads

LEMMA InitType ==
    ASSUME Init
    PROVE  TypeOK
<1>1. program \in Programs /\ Len(program) \in Nat
    BY KernelAssumption, LenProperties DEF Init, KernelAssumption
<1>2. mem \in [Places -> Value] BY ValueArithmetic DEF Init
<1>3. pc \in [Thread -> 0..(Len(program) + 3)] BY <1>1 DEF Init
<1>4. stage \in [Thread -> {"start", "ready", "loaded"}] BY DEF Init
<1>5. reg \in [Thread -> Value] /\ crc \in [Thread -> Nat] BY ValueArithmetic DEF Init
<1>6. results \in [0..(NumThreads - 1) -> Value] /\ h_results \in [0..(NumThreads - 1) -> Value]
    BY ValueArithmetic DEF Init
<1>7. printed \in Seq(Value) BY DEF Init
<1>8. touched \in [Places -> SUBSET Thread] BY DEF Init
<1>9. flags \in FlagSets /\ host = "setup" BY DEF Init
<1> QED BY <1>1, <1>2, <1>3, <1>4, <1>5, <1>6, <1>7, <1>8, <1>9 DEF TypeOK

LEMMA HostType ==
    ASSUME TypeOK, HostStep \/ HipCheckFails
    PROVE  TypeOK'
<1>1. UNCHANGED generated /\ UNCHANGED thread /\ UNCHANGED touched
    BY DEF HostStep, HipCheckFails, SetupHipGlobals, DeviceAlloc, Launch, DeviceSynchronize,
           CopyBack, PrintLine, Return
<1>2. /\ flags' = flags /\ program' = program /\ Thread' = Thread /\ Places' = Places
      /\ NumThreads' = NumThreads
    BY <1>1, SamePlaces, SameTexts
<1>3. host' \in {"setup", "alloc", "launch", "sync", "copy", "print", "done", "failed"}
    BY DEF HostStep, HipCheckFails, SetupHipGlobals, DeviceAlloc, Launch, DeviceSynchronize,
           CopyBack, PrintLine, Return, TypeOK
<1>4. mem' \in [Places -> Value]
    BY ValueArithmetic
    DEF HostStep, HipCheckFails, SetupHipGlobals, DeviceAlloc, Launch, DeviceSynchronize,
        CopyBack, PrintLine, Return, TypeOK
<1>5. results' \in [0..(NumThreads - 1) -> Value]
    BY ValueArithmetic
    DEF HostStep, HipCheckFails, SetupHipGlobals, DeviceAlloc, Launch, DeviceSynchronize,
        CopyBack, PrintLine, Return, TypeOK
<1>6. h_results' \in [0..(NumThreads - 1) -> Value]
    BY DEF HostStep, HipCheckFails, SetupHipGlobals, DeviceAlloc, Launch, DeviceSynchronize,
           CopyBack, PrintLine, Return, TypeOK
<1>7. printed' \in Seq(Value)
    <2>1. CASE PrintLine
        <3>1. Len(printed) \in Nat /\ Len(printed) < NumThreads
            BY <2>1, LenProperties DEF PrintLine, TypeOK
        <3>2. h_results[Len(printed)] \in Value BY <3>1, ThreadsCounted DEF TypeOK
        <3> QED BY <2>1, <3>2, AppendProperties DEF PrintLine, TypeOK
    <2>2. CASE UNCHANGED printed BY <2>2 DEF TypeOK
    <2> QED
        BY <2>1, <2>2 DEF HostStep, HipCheckFails, SetupHipGlobals, DeviceAlloc, Launch,
                          DeviceSynchronize, CopyBack, Return
<1> QED BY <1>1, <1>2, <1>3, <1>4, <1>5, <1>6, <1>7 DEF TypeOK, thread

LEMMA ThreadType ==
    ASSUME TypeOK, NEW t \in Thread, ThreadStep(t)
    PROVE  TypeOK'
<1>1. UNCHANGED generated /\ UNCHANGED <<host, h_results, printed>>
    BY DEF ThreadStep, InitGlobals, InitShared, Load, Store, Branch, Barrier, HashGlobals,
           StoreResult
<1>2. /\ flags' = flags /\ program' = program /\ Thread' = Thread /\ Places' = Places
      /\ NumThreads' = NumThreads
    BY <1>1, SamePlaces, SameTexts
<1>3. /\ program \in Seq(Kinds) /\ Len(program) \in Nat
      /\ \A i \in 1..Len(program) : program[i] \in Kinds
    BY ProgramKnown
<1>4. "global" \in Accessed /\ "shared" \in Accessed BY DEF Accessed, Stored
<1>5. \A k \in Accessed : Place(k, t) \in Places /\ mem[Place(k, t)] \in Value
    BY PlaceKnown DEF TypeOK
<1>6. \A v \in Value : v \in Nat /\ Up(v) \in Value BY ValueArithmetic
<1>7. pc[t] \in Nat /\ reg[t] \in Value /\ crc[t] \in Nat BY <1>3 DEF TypeOK
<1> SUFFICES /\ mem' \in [Places -> Value] /\ pc' \in [Thread -> 0..(Len(program) + 3)]
             /\ stage' \in [Thread -> {"start", "ready", "loaded"}] /\ reg' \in [Thread -> Value]
             /\ crc' \in [Thread -> Nat] /\ results' \in [0..(NumThreads - 1) -> Value]
             /\ touched' \in [Places -> SUBSET Thread]
    BY <1>1, <1>2 DEF TypeOK
<1>8. CASE InitGlobals(t)
    <2>1. 1 \in 0..(Len(program) + 3) BY <1>3
    <2> QED BY <1>4, <1>5, <1>8, <2>1, ValueArithmetic DEF InitGlobals, Touch, TypeOK
<1>9. CASE InitShared(t)
    BY <1>4, <1>5, <1>9, ValueArithmetic DEF InitShared, Touch, TypeOK
<1>10. CASE Load(t)
    <2>1. program[pc[t]] \in Accessed BY <1>10 DEF Load, AtOp, Accessed
    <2> QED BY <1>5, <1>10, <2>1 DEF Load, Touch, TypeOK
<1>11. CASE Store(t)
    <2>1. program[pc[t]] \in Accessed BY <1>11 DEF Store, AtOp, Accessed
    <2>2. Up(reg[t]) \in Value /\ crc[t] + reg[t] \in Nat BY <1>6, <1>7
    <2>3. pc[t] + 1 \in 0..(Len(program) + 3) BY <1>3, <1>7, <1>11 DEF Store, AtOp
    <2> QED BY <1>11, <2>2, <2>3 DEF Store, TypeOK
<1>12. CASE Branch(t)
    <2>1. pc[t] + 1 \in 0..(Len(program) + 3) /\ pc[t] + 2 \in 0..(Len(program) + 3)
        BY <1>3, <1>7, <1>12 DEF Branch, AtOp
    <2> QED BY <1>12, <2>1 DEF Branch, TypeOK
<1>13. CASE Barrier(t)
    <2>1. pc[t] + 1 \in 0..(Len(program) + 3) BY <1>3, <1>7, <1>13 DEF Barrier, AtOp
    <2>2. pc' \in [Thread -> 0..(Len(program) + 3)] BY <1>13, <2>1 DEF Barrier, TypeOK
    <2> QED BY <1>13, <2>2 DEF Barrier, TypeOK
<1>14. CASE HashGlobals(t)
    <2>1. \A k \in Hashed : mem[Place(k, t)] \in Nat BY <1>5, <1>6, HashedAccessed
    <2>2. HashOf([k \in Hashed |-> mem[Place(k, t)]]) \in Nat BY <2>1, HashNat
    <2>3. crc[t] + HashOf([k \in Hashed |-> mem[Place(k, t)]]) \in Nat BY <1>7, <2>2
    <2>4. pc[t] + 1 \in 0..(Len(program) + 3) BY <1>3, <1>7, <1>14 DEF HashGlobals
    <2>5. touched' \in [Places -> SUBSET Thread] BY <1>14 DEF HashGlobals, TypeOK
    <2> HIDE DEF HashOf
    <2> QED BY <1>14, <2>3, <2>4, <2>5 DEF HashGlobals, TypeOK
<1>15. CASE StoreResult(t)
    <2>1. ResultOf(crc[t]) \in Value BY <1>7, ValueArithmetic
    <2>2. pc[t] + 1 \in 0..(Len(program) + 3) BY <1>3, <1>7, <1>15 DEF StoreResult
    <2> QED BY <1>15, <2>1, <2>2 DEF StoreResult, TypeOK
<1> QED BY <1>8, <1>9, <1>10, <1>11, <1>12, <1>13, <1>14, <1>15 DEF ThreadStep

LEMMA NextType ==
    ASSUME TypeOK, [Next]_vars
    PROVE  TypeOK'
<1>1. CASE HostStep \/ HipCheckFails BY <1>1, HostType
<1>2. CASE \E t \in Thread : ThreadStep(t) BY <1>2, ThreadType
<1>3. CASE UNCHANGED vars
    <2>1. UNCHANGED generated BY <1>3 DEF vars, generated
    <2>2. Thread' = Thread /\ Places' = Places /\ NumThreads' = NumThreads
        BY <2>1, SamePlaces, SameTexts
    <2> QED BY <1>3, <2>2 DEF TypeOK, vars
<1> QED BY <1>1, <1>2, <1>3 DEF Next, Stop

-----------------------------------------------------------------------------
(* The report is the one the program text determines.                      *)

R(t) == Run(program, threadIdx(t) = 0)

\* Statements thread t has finished or skipped.
Done(t) == IF pc[t] > Len(program) THEN Len(program) ELSE pc[t] - 1

\* Memory that outlives a statement, and exists under the options.
Kept == {k \in {"global", "const", "managed", "device"} : OptionOf(k) \subseteq flags}

\* Before its first step a thread finds what main has initialised.
Fresh(t) ==
    pc[t] = 0 =>
        /\ stage[t] = "start" /\ crc[t] = 0
        /\ \A k \in Kept \ {"global"} :
              k = "managed" \/ host \in {"alloc", "launch", "sync"}
                  => mem[Place(k, t)] = InitValue

\* Then its variables and its sum are those of a run on its own.
OnCourse(t) ==
    /\ pc[t] > 0 => \A k \in Kept : mem[Place(k, t)] = R(t)[Done(t)].val[k]
    /\ pc[t] \in 1..Len(program) => ~R(t)[pc[t] - 1].skip
    /\ pc[t] \in 1..Len(program) + 1 => crc[t] = R(t)[pc[t] - 1].sum
    /\ pc[t] = Len(program) + 2 =>
          crc[t] = R(t)[Len(program)].sum + HashOf(R(t)[Len(program)].val)
    /\ Exited(t) => results[t] = Expected(t)

\* In the middle of an access the register holds what the run reads.
Midway(t) ==
    /\ stage[t] # "start" => pc[t] \in 1..Len(program) /\ program[pc[t]] \in Accessed
    /\ stage[t] = "ready" =>
          program[pc[t]] = "shared" /\ mem[Place("shared", t)] = InitValue
    /\ stage[t] = "loaded" =>
          reg[t] = IF program[pc[t]] = "shared" THEN InitValue
                   ELSE R(t)[pc[t] - 1].val[program[pc[t]]]

ThreadInv(t) == Fresh(t) /\ OnCourse(t) /\ Midway(t)

HostInv ==
    /\ host \in {"setup", "alloc", "launch"} => \A t \in Thread : pc[t] = 0
    /\ host \in {"copy", "print", "done"} => \A t \in Thread : Exited(t)
    /\ host \in {"print", "done"} => \A t \in Thread : h_results[t] = Expected(t)

PInv == TypeOK /\ KInv /\ HostInv /\ \A t \in Thread : ThreadInv(t)

LEMMA SameRuns ==
    ASSUME UNCHANGED generated
    PROVE  Kept' = Kept /\ \A t : R(t)' = R(t)
<1>1. flags' = flags /\ program' = program BY DEF generated
<1>2. \A t : threadIdx(t)' = threadIdx(t) BY SameTexts
<1> QED BY <1>1, <1>2 DEF Kept, R

LEMMA PlaceKind ==
    /\ \A k \in Accessed, t \in Thread : Place(k, t)[1] = k
    /\ Kept \subseteq Accessed /\ "shared" \notin Kept
BY DEF Place, Accessed, Stored, Kept

\* The run of a thread, one statement at a time.
LEMMA RunOfThread ==
    ASSUME TypeOK, NEW t \in Thread
    PROVE  /\ R(t)[0] = Begin
           /\ \A i \in 0..Len(program) : R(t)[i] \in RunState
           /\ \A i \in 1..Len(program) :
                 R(t)[i] = Statement(R(t)[i - 1], program[i], threadIdx(t) = 0)
<1>1. program \in Seq(Kinds) BY ProgramKnown
<1>2. (threadIdx(t) = 0) \in BOOLEAN OBVIOUS
<1> QED BY <1>1, <1>2, RunSteps, RunTyped DEF R

\* A thread that writes only its own places leaves the others on their course.
LEMMA Undisturbed ==
    ASSUME Argc = 1, PInv, UNCHANGED generated, host' = host,
           NEW t \in Thread, NEW u \in Thread, u # t,
           pc'[u] = pc[u], stage'[u] = stage[u], reg'[u] = reg[u], crc'[u] = crc[u],
           results'[u] = results[u],
           NEW k \in Stored, OptionOf(k) \subseteq flags,
           \A p \in Places : p # Place(k, t) => mem'[p] = mem[p]
    PROVE  ThreadInv(u)'
<1>1. /\ flags' = flags /\ program' = program /\ Kept' = Kept /\ R(u)' = R(u)
      /\ Hashed' = Hashed /\ Expected(u)' = Expected(u)
      /\ \A j : Place(j, u)' = Place(j, u)
    BY SamePlaces, SameRuns, SameTexts
<1>2. ASSUME NEW j \in Accessed, OptionOf(j) \subseteq flags
      PROVE  mem'[Place(j, u)] = mem[Place(j, u)]
    <2>1. k \in Accessed /\ k # "const" BY DEF Stored, Accessed
    <2>2. Place(j, u) # Place(k, t) BY <1>2, <2>1, PlacesApart
    <2> QED BY <2>2, PlaceKnown
<1>3. \A j \in Kept : mem'[Place(j, u)] = mem[Place(j, u)]
    BY <1>2, PlaceKind DEF Kept
<1>4. program[pc[u]] = "shared" /\ pc[u] \in 1..Len(program)
          => mem'[Place("shared", u)] = mem[Place("shared", u)]
    BY <1>2 DEF PInv, KInv, Accessed, Stored
<1>5. ThreadInv(u) BY DEF PInv
<1>6. Fresh(u)' BY <1>1, <1>3, <1>5 DEF ThreadInv, Fresh
<1>7. OnCourse(u)' BY <1>1, <1>3, <1>5 DEF ThreadInv, OnCourse, Done, Exited, HashOf
<1>8. Midway(u)' BY <1>1, <1>4, <1>5 DEF ThreadInv, Midway
<1> QED BY <1>6, <1>7, <1>8 DEF ThreadInv

\* A thread between two statements, with the variables and the sum of its run.
LEMMA Arrived ==
    ASSUME TypeOK, UNCHANGED generated, NEW t \in Thread, NEW n \in 0..Len(program),
           pc'[t] = n + 1, stage'[t] = "start",
           \A k \in Kept : mem'[Place(k, t)] = R(t)[n].val[k],
           crc'[t] = R(t)[n].sum, n < Len(program) => ~R(t)[n].skip
    PROVE  ThreadInv(t)'
<1>1. /\ flags' = flags /\ program' = program /\ Kept' = Kept /\ R(t)' = R(t)
      /\ \A j : Place(j, t)' = Place(j, t)
    BY SamePlaces, SameRuns
<1>2. Len(program) \in Nat /\ n \in Nat BY ProgramKnown
<1>3. Done(t)' = n BY <1>1, <1>2 DEF Done
<1>4. Fresh(t)' BY <1>1, <1>2 DEF Fresh
<1>5. OnCourse(t)' BY <1>1, <1>2, <1>3 DEF OnCourse, Exited
<1>6. Midway(t)' BY <1>1 DEF Midway
<1> QED BY <1>4, <1>5, <1>6 DEF ThreadInv

\* A step of t that touches one of its own places and none of the others' registers.
LEMMA OthersUndisturbed ==
    ASSUME Argc = 1, PInv, UNCHANGED generated, host' = host, NEW t \in Thread,
           \A u \in Thread \ {t} : /\ pc'[u] = pc[u] /\ stage'[u] = stage[u]
                                   /\ reg'[u] = reg[u] /\ crc'[u] = crc[u]
                                   /\ results'[u] = results[u],
           NEW k \in Stored, OptionOf(k) \subseteq flags,
           \A p \in Places : p # Place(k, t) => mem'[p] = mem[p],
           ThreadInv(t)'
    PROVE  \A u \in Thread : ThreadInv(u)'
<1>1. ASSUME NEW u \in Thread, u # t PROVE ThreadInv(u)'
    BY <1>1, Undisturbed
<1> QED BY <1>1

LEMMA InitGlobalsRun ==
    ASSUME Argc = 1, PInv, NEW t \in Thread, InitGlobals(t)
    PROVE  \A u \in Thread : ThreadInv(u)'
<1>1. pc[t] = 0 /\ host = "sync" BY DEF InitGlobals, Running
<1>2. /\ stage[t] = "start" /\ crc[t] = 0
      /\ \A k \in Kept \ {"global"} : mem[Place(k, t)] = InitValue
    BY <1>1 DEF PInv, ThreadInv, Fresh
<1>3. "global" \in Accessed BY DEF Accessed, Stored
<1>4. /\ mem' = [mem EXCEPT ![Place("global", t)] = InitValue]
      /\ Place("global", t) \in Places
    BY <1>3, PlaceKnown, ValueArithmetic DEF InitGlobals
<1>5. R(t)[0] = Begin BY RunOfThread DEF PInv
<1>6. \A k \in Kept : mem'[Place(k, t)] = R(t)[0].val[k]
    <2> SUFFICES ASSUME NEW k \in Kept PROVE mem'[Place(k, t)] = InitValue
        BY <1>5 DEF Begin, Kept, Kinds
    <2>1. CASE k = "global" BY <2>1, <1>4 DEF PInv, TypeOK
    <2>2. CASE k # "global"
        <3>1. Place(k, t) # Place("global", t) BY <2>2, <1>3, PlaceKind
        <3>2. Place(k, t) \in Places BY PlaceKnown, PlaceKind
        <3> QED BY <2>2, <3>1, <3>2, <1>2, <1>4 DEF PInv, TypeOK
    <2> QED BY <2>1, <2>2
<1>7. ThreadInv(t)'
    <2>1. 0 \in 0..Len(program) BY ProgramKnown DEF PInv
    <2>2. pc'[t] = 0 + 1 /\ stage'[t] = "start" /\ crc'[t] = 0
        BY <1>1, <1>2 DEF InitGlobals, PInv, TypeOK
    <2>3. R(t)[0].sum = 0 /\ ~R(t)[0].skip BY <1>5 DEF Begin
    <2>4. UNCHANGED generated BY DEF InitGlobals
    <2> QED BY <1>6, <2>1, <2>2, <2>3, <2>4, Arrived DEF PInv
<1>8. "global" \in Stored /\ OptionOf("global") \subseteq flags BY DEF Stored, OptionOf
<1>9. \A p \in Places : p # Place("global", t) => mem'[p] = mem[p]
    BY <1>4 DEF PInv, TypeOK
<1>10. \A u \in Thread \ {t} : pc'[u] = pc[u] BY DEF InitGlobals, PInv, TypeOK
<1> QED BY <1>7, <1>8, <1>9, <1>10, OthersUndisturbed DEF InitGlobals

\* A step in the middle of an access: program counter and sum stay.
LEMMA StillOnCourse ==
    ASSUME TypeOK, UNCHANGED generated, NEW t \in Thread, OnCourse(t),
           pc[t] \in 1..Len(program), pc'[t] = pc[t], crc'[t] = crc[t],
           \A k \in Kept : mem'[Place(k, t)] = mem[Place(k, t)]
    PROVE  Fresh(t)' /\ OnCourse(t)'
<1>1. /\ flags' = flags /\ program' = program /\ Kept' = Kept /\ R(t)' = R(t)
      /\ \A j : Place(j, t)' = Place(j, t)
    BY SamePlaces, SameRuns
<1>2. Len(program) \in Nat BY ProgramKnown
<1>3. Fresh(t)' BY DEF Fresh
<1>4. OnCourse(t)' BY <1>1, <1>2 DEF OnCourse, Done, Exited
<1> QED BY <1>3, <1>4

LEMMA InitSharedRun ==
    ASSUME Argc = 1, PInv, NEW t \in Thread, InitShared(t)
    PROVE  \A u \in Thread : ThreadInv(u)'
<1>1. pc[t] \in 1..Len(program) /\ program[pc[t]] = "shared" BY DEF InitShared, AtOp
<1>2. "shared" \in Accessed BY DEF Accessed, Stored
<1>3. /\ mem' = [mem EXCEPT ![Place("shared", t)] = InitValue]
      /\ Place("shared", t) \in Places
    BY <1>2, PlaceKnown, ValueArithmetic DEF InitShared
<1>4. \A p \in Places : p # Place("shared", t) => mem'[p] = mem[p]
    BY <1>3 DEF PInv, TypeOK
<1>5. \A k \in Kept : mem'[Place(k, t)] = mem[Place(k, t)]
    BY <1>2, <1>4, PlaceKind, PlaceKnown
<1>6. ThreadInv(t)'
    <2>1. Fresh(t)' /\ OnCourse(t)'
        BY <1>1, <1>5, StillOnCourse DEF PInv, ThreadInv, InitShared
    <2>2. stage'[t] = "ready" BY DEF InitShared, PInv, TypeOK
    <2>3. mem'[Place("shared", t)] = InitValue BY <1>3 DEF PInv, TypeOK
    <2>4. program' = program /\ Place("shared", t)' = Place("shared", t)
        BY SamePlaces DEF InitShared
    <2>5. Midway(t)' BY <1>1, <1>2, <2>2, <2>3, <2>4 DEF Midway, InitShared
    <2> QED BY <2>1, <2>5 DEF ThreadInv
<1>7. "shared" \in Stored /\ OptionOf("shared") \subseteq flags
    BY <1>1 DEF Stored, PInv, KInv
<1>8. \A u \in Thread \ {t} : stage'[u] = stage[u] BY DEF InitShared, PInv, TypeOK
<1> QED BY <1>4, <1>6, <1>7, <1>8, OthersUndisturbed DEF InitShared

LEMMA LoadRun ==
    ASSUME Argc = 1, PInv, NEW t \in Thread, Load(t)
    PROVE  \A u \in Thread : ThreadInv(u)'
<1> DEFINE k == program[pc[t]]
<1>1. pc[t] \in 1..Len(program) /\ k \in Accessed /\ OptionOf(k) \subseteq flags
    BY DEF Load, AtOp, Accessed, PInv, KInv
<1>2. ThreadInv(t) BY DEF PInv
<1>3. reg'[t] = mem[Place(k, t)] /\ stage'[t] = "loaded" BY DEF Load, PInv, TypeOK
<1>4. ThreadInv(t)'
    <2>1. Fresh(t)' /\ OnCourse(t)' BY <1>1, <1>2, StillOnCourse DEF PInv, ThreadInv, Load
    <2>2. program' = program /\ R(t)' = R(t) BY SamePlaces, SameRuns DEF Load
    <2>3. reg'[t] = IF k = "shared" THEN InitValue ELSE R(t)[pc[t] - 1].val[k]
        <3>1. CASE k = "shared"
            <4>1. stage[t] = "ready" BY <3>1 DEF Load
            <4> QED BY <3>1, <4>1, <1>2, <1>3 DEF ThreadInv, Midway
        <3>2. CASE k # "shared"
            <4>1. k \in Kept BY <1>1, <3>2 DEF Kept, Accessed, Stored
            <4>2. Done(t) = pc[t] - 1 /\ pc[t] > 0 BY <1>1 DEF Done
            <4> QED BY <3>2, <4>1, <4>2, <1>2, <1>3 DEF ThreadInv, OnCourse
        <3> QED BY <3>1, <3>2
    <2>4. Midway(t)' BY <1>1, <1>3, <2>2, <2>3 DEF Midway, Load
    <2> QED BY <2>1, <2>4 DEF ThreadInv
<1>5. "global" \in Stored /\ OptionOf("global") \subseteq flags BY DEF Stored, OptionOf
<1>6. \A u \in Thread \ {t} : stage'[u] = stage[u] /\ reg'[u] = reg[u]
    BY DEF Load, PInv, TypeOK
<1> QED BY <1>4, <1>5, <1>6, OthersUndisturbed DEF Load

\* What Access does to the sum and the variables of a run.
LEMMA AccessEffect ==
    ASSUME NEW s \in RunState, NEW k \in Kinds
    PROVE  /\ Access(s, k).sum = s.sum + s.val[k] /\ Access(s, k).skip = s.skip
           /\ \A j \in Kinds : Access(s, k).val[j] =
                 IF j = k /\ k # "const" THEN Up(s.val[k]) ELSE s.val[j]
BY DEF Access, RunState

LEMMA StoreRun ==
    ASSUME Argc = 1, PInv, NEW t \in Thread, Store(t)
    PROVE  \A u \in Thread : ThreadInv(u)'
<1> DEFINE k == program[pc[t]]
           n == pc[t]
           s == R(t)[n - 1]
<1>1. n \in 1..Len(program) /\ k \in Accessed /\ k \in Kinds /\ OptionOf(k) \subseteq flags
    BY ProgramKnown DEF Store, AtOp, Accessed, PInv, KInv
<1>2. ThreadInv(t) BY DEF PInv
<1>3. s \in RunState /\ R(t)[n] = Statement(s, k, threadIdx(t) = 0) /\ ~s.skip
    BY <1>1, <1>2, RunOfThread DEF PInv, ThreadInv, OnCourse
<1>4. crc[t] = s.sum
    BY <1>1, <1>2 DEF ThreadInv, OnCourse
<1>5. \A j \in Kept : mem[Place(j, t)] = s.val[j]
    <2>1. Done(t) = n - 1 /\ n > 0 BY <1>1 DEF Done
    <2> QED BY <1>2, <2>1 DEF ThreadInv, OnCourse
<1>6. reg[t] = IF k = "shared" THEN InitValue ELSE s.val[k]
    BY <1>2 DEF Store, ThreadInv, Midway
<1>7. /\ R(t)[n].sum = s.sum + reg[t] /\ ~R(t)[n].skip
      /\ \A j \in Kept : R(t)[n].val[j] =
            IF j = k /\ k # "const" THEN Up(reg[t]) ELSE s.val[j]
    <2>1. \A j \in Kept : j \in Kinds /\ j # "shared" BY DEF Kept, Kinds
    <2>2. CASE k = "shared"
        <3> DEFINE s0 == [s EXCEPT !.val[k] = InitValue]
        <3>1. /\ s0 \in RunState /\ s0.val[k] = InitValue /\ s0.sum = s.sum /\ s0.skip = s.skip
              /\ \A j \in Kinds \ {k} : s0.val[j] = s.val[j]
            BY <1>1, <1>3, ValueArithmetic DEF RunState
        <3>2. R(t)[n] = Access(s0, k) BY <1>3, <2>2 DEF Statement
        <3>3. reg[t] = InitValue BY <1>6, <2>2
        <3> HIDE DEF s0
        <3>4. /\ R(t)[n].sum = s0.sum + s0.val[k] /\ R(t)[n].skip = s0.skip
              /\ \A j \in Kinds \ {k} : R(t)[n].val[j] = s0.val[j]
            BY <1>1, <3>1, <3>2, AccessEffect
        <3>5. \A j \in Kept : j \in Kinds /\ j # k BY <2>1, <2>2
        <3> HIDE DEF s, k
        <3> QED BY <1>3, <3>1, <3>3, <3>4, <3>5
    <2>3. CASE k # "shared"
        <3>1. R(t)[n] = Access(s, k) BY <1>1, <1>3, <2>3 DEF Statement, Accessed, Stored
        <3> HIDE DEF s, k
        <3> QED BY <1>1, <1>3, <1>6, <2>1, <2>3, <3>1, AccessEffect
    <2> QED BY <2>2, <2>3
<1>8. mem' = IF k = "const" THEN mem ELSE [mem EXCEPT ![Place(k, t)] = Up(reg[t])]
    BY DEF Store
<1>9. \A j \in Kept : mem'[Place(j, t)] = R(t)[n].val[j]
    <2> SUFFICES ASSUME NEW j \in Kept
                 PROVE  mem'[Place(j, t)] =
                           IF j = k /\ k # "const" THEN Up(reg[t]) ELSE s.val[j]
        BY <1>7
    <2>1. Place(j, t) \in Places /\ (Place(j, t) = Place(k, t) => j = k)
        BY <1>1, PlaceKind, PlaceKnown
    <2> HIDE DEF s, k
    <2> QED BY <1>5, <1>8, <2>1 DEF PInv, TypeOK
<1>10. ThreadInv(t)'
    <2>1. pc'[t] = n + 1 /\ stage'[t] = "start" /\ crc'[t] = R(t)[n].sum
        BY <1>4, <1>7 DEF Store, PInv, TypeOK
    <2>2. UNCHANGED generated /\ n \in 0..Len(program) BY <1>1 DEF Store
    <2> HIDE DEF n
    <2> QED BY <1>7, <1>9, <2>1, <2>2, Arrived DEF PInv
<1>11. /\ UNCHANGED generated /\ host' = host
       /\ \A u \in Thread \ {t} : /\ pc'[u] = pc[u] /\ stage'[u] = stage[u]
                                  /\ reg'[u] = reg[u] /\ crc'[u] = crc[u]
                                  /\ results'[u] = results[u]
    BY DEF Store, PInv, TypeOK
<1>12. CASE k = "const"
    <2>1. "global" \in Stored /\ OptionOf("global") \subseteq flags BY DEF Stored, OptionOf
    <2>2. mem' = mem BY <1>8, <1>12
    <2> QED BY <1>10, <1>11, <2>1, <2>2, OthersUndisturbed
<1>13. CASE k # "const"
    <2>1. k \in Stored BY <1>1, <1>13 DEF Accessed
    <2>2. \A p \in Places : p # Place(k, t) => mem'[p] = mem[p]
        BY <1>8 DEF PInv, TypeOK
    <2> HIDE DEF k
    <2> QED BY <1>1, <1>10, <1>11, <2>1, <2>2, OthersUndisturbed
<1> QED BY <1>12, <1>13

LEMMA BranchRun ==
    ASSUME Argc = 1, PInv, NEW t \in Thread, Branch(t)
    PROVE  \A u \in Thread : ThreadInv(u)'
<1> DEFINE n == pc[t]
           s == R(t)[n - 1]
           first == threadIdx(t) = 0
<1>1. n \in 1..Len(program) /\ program[n] = "branch" /\ Len(program) \in Nat
    BY ProgramKnown DEF Branch, AtOp, PInv
<1>2. ThreadInv(t) BY DEF PInv
<1>3. s \in RunState /\ R(t)[n] = Statement(s, program[n], first) /\ ~s.skip
    BY <1>1, <1>2, RunOfThread DEF PInv, ThreadInv, OnCourse
<1>4. R(t)[n] = [s EXCEPT !.skip = ~first] BY <1>1, <1>3 DEF Statement
<1>5. R(t)[n].sum = s.sum /\ R(t)[n].val = s.val /\ R(t)[n].skip = ~first
    BY <1>3, <1>4 DEF RunState
<1>6. stage[t] = "start" /\ crc[t] = s.sum /\ UNCHANGED generated
    BY <1>1, <1>2 DEF ThreadInv, OnCourse, Midway, Branch, Accessed, Stored, PInv, TypeOK
<1>7. \A j \in Kept : mem'[Place(j, t)] = s.val[j]
    <2>1. Done(t) = n - 1 /\ n > 0 BY <1>1 DEF Done
    <2> QED BY <1>2, <2>1 DEF ThreadInv, OnCourse, Branch
<1>8. ThreadInv(t)'
    <2>1. CASE first \/ n = Len(program)
        <3>1. pc'[t] = n + 1 BY <2>1 DEF Branch, PInv, TypeOK
        <3>2. n < Len(program) => ~R(t)[n].skip
            <4>1. CASE first
                <5>1. R(t)[n] = [s EXCEPT !.skip = FALSE] BY <1>4, <4>1
                <5> QED BY <1>3, <5>1 DEF RunState
            <4>2. CASE n = Len(program) BY <1>1, <4>2
            <4> QED BY <2>1, <4>1, <4>2
        <3>3. n \in 0..Len(program) BY <1>1
        <3> HIDE DEF n
        <3> QED BY <1>5, <1>6, <1>7, <3>1, <3>2, <3>3, Arrived DEF PInv, Branch
    <2>2. CASE ~first /\ n # Len(program)
        <3>1. pc'[t] = (n + 1) + 1 BY <1>1, <2>2 DEF Branch, PInv, TypeOK
        <3>2. n + 1 \in 1..Len(program) /\ n + 1 - 1 = n BY <1>1, <2>2
        <3>3. R(t)[n] \in RunState /\ R(t)[n + 1] = Statement(R(t)[n], program[n + 1], first)
            BY <1>1, <3>2, RunOfThread DEF PInv
        <3>4. R(t)[n + 1] = [R(t)[n] EXCEPT !.skip = FALSE]
            BY <1>5, <2>2, <3>3 DEF Statement
        <3>5. /\ R(t)[n + 1].sum = R(t)[n].sum /\ R(t)[n + 1].val = R(t)[n].val
              /\ ~R(t)[n + 1].skip
            BY <3>3, <3>4 DEF RunState
        <3>6. n + 1 \in 0..Len(program) BY <3>2
        <3>7. stage'[t] = "start" /\ crc'[t] = R(t)[n + 1].sum
              /\ \A j \in Kept : mem'[Place(j, t)] = R(t)[n + 1].val[j]
            BY <1>5, <1>6, <1>7, <3>5 DEF Branch
        <3> HIDE DEF n
        <3> QED BY <1>6, <3>1, <3>5, <3>6, <3>7, Arrived DEF PInv
    <2> QED BY <2>1, <2>2
<1>9. "global" \in Stored /\ OptionOf("global") \subseteq flags BY DEF Stored, OptionOf
<1>10. \A u \in Thread \ {t} : pc'[u] = pc[u] BY DEF Branch, PInv, TypeOK
<1> QED BY <1>8, <1>9, <1>10, OthersUndisturbed DEF Branch

LEMMA BarrierRun ==
    ASSUME Argc = 1, PInv, NEW t \in Thread, Barrier(t)
    PROVE  \A u \in Thread : ThreadInv(u)'
<1> DEFINE n == pc[t]
           team == {u \in Thread : blockIdx(u) = blockIdx(t)}
<1>1. n \in 1..Len(program) /\ program[n] = "barrier" /\ Len(program) \in Nat
    BY ProgramKnown DEF Barrier, AtOp, PInv
<1>2. /\ \A u \in team : pc[u] = n
      /\ pc' = [u \in Thread |-> IF u \in team THEN pc[u] + 1 ELSE pc[u]]
      /\ UNCHANGED generated
      /\ UNCHANGED <<host, mem, stage, reg, crc, results, h_results, printed, touched>>
    BY DEF Barrier
<1>3. ASSUME NEW u \in team PROVE ThreadInv(u)'
    <2> DEFINE s == R(u)[n - 1]
    <2>1. u \in Thread /\ pc[u] = n /\ ThreadInv(u) BY <1>2, <1>3 DEF PInv
    <2>2. R(u)[n] = Statement(s, program[n], threadIdx(u) = 0) /\ ~s.skip
        BY <1>1, <2>1, RunOfThread DEF PInv, ThreadInv, OnCourse
    <2>3. R(u)[n] = s BY <1>1, <2>2 DEF Statement
    <2>4. stage[u] = "start" /\ crc[u] = s.sum
        BY <1>1, <2>1 DEF ThreadInv, OnCourse, Midway, Accessed, Stored, PInv, TypeOK
    <2>5. \A j \in Kept : mem[Place(j, u)] = s.val[j]
        <3>1. Done(u) = n - 1 /\ n > 0 BY <1>1, <2>1 DEF Done
        <3> QED BY <2>1, <3>1 DEF ThreadInv, OnCourse
    <2>6. /\ pc'[u] = n + 1 /\ stage'[u] = "start" /\ crc'[u] = R(u)[n].sum
          /\ \A j \in Kept : mem'[Place(j, u)] = R(u)[n].val[j]
          /\ ~R(u)[n].skip /\ n \in 0..Len(program)
        BY <1>1, <1>2, <1>3, <2>1, <2>2, <2>3, <2>4, <2>5
    <2> HIDE DEF n
    <2> QED BY <1>2, <2>1, <2>6, Arrived DEF PInv
<1>4. ASSUME NEW u \in Thread, u \notin team PROVE ThreadInv(u)'
    <2>1. u # t /\ pc'[u] = pc[u] BY <1>2, <1>4
    <2>2. "global" \in Stored /\ OptionOf("global") \subseteq flags BY DEF Stored, OptionOf
    <2> QED BY <1>2, <2>1, <2>2, Undisturbed
<1> QED BY <1>3, <1>4

LEMMA HashGlobalsRun ==
    ASSUME Argc = 1, PInv, NEW t \in Thread, HashGlobals(t)
    PROVE  \A u \in Thread : ThreadInv(u)'
<1> DEFINE n == Len(program)
           end == R(t)[n]
<1>1. pc[t] = n + 1 /\ n \in Nat /\ t \in Thread
    BY ProgramKnown DEF HashGlobals, PInv
<1>2. ThreadInv(t) BY DEF PInv
<1>3. \A k \in Kept : mem[Place(k, t)] = end.val[k]
    <2>1. Done(t) = n BY <1>1 DEF Done
    <2> QED BY <1>1, <1>2, <2>1 DEF ThreadInv, OnCourse
<1>4. Hashed \subseteq Kept BY DEF Hashed, Kept, OptionOf
<1>5. HashOf([k \in Hashed |-> mem[Place(k, t)]]) = HashOf(end.val)
    <2>1. \A k \in Hashed : [j \in Hashed |-> mem[Place(j, t)]][k] = end.val[k]
        BY <1>3, <1>4
    <2> HIDE DEF end
    <2> QED BY <2>1, HashSame
<1>6. crc[t] = end.sum
    <2>1. pc[t] - 1 = n /\ pc[t] \in 1..n + 1 BY <1>1
    <2> QED BY <1>2, <2>1 DEF ThreadInv, OnCourse
<1>7. /\ pc'[t] = n + 2 /\ stage'[t] = "start" /\ mem' = mem
      /\ crc'[t] = end.sum + HashOf(end.val) /\ UNCHANGED generated
    <2>1. stage[t] = "start" BY <1>1, <1>2 DEF ThreadInv, Midway, PInv, TypeOK
    <2>2. crc'[t] = crc[t] + HashOf([k \in Hashed |-> mem[Place(k, t)]])
        BY DEF HashGlobals, PInv, TypeOK
    <2>3. crc'[t] = end.sum + HashOf(end.val) BY <1>5, <1>6, <2>2
    <2> QED BY <1>1, <2>1, <2>3 DEF HashGlobals, PInv, TypeOK
<1>8. ThreadInv(t)'
    <2>1. /\ flags' = flags /\ program' = program /\ Kept' = Kept /\ R(t)' = R(t)
          /\ \A j : Place(j, t)' = Place(j, t)
        BY <1>7, SamePlaces, SameRuns
    <2>2. \A v : HashOf(v)' = HashOf(v) BY <1>7, SameTexts DEF HashOf
    <2>3. Fresh(t)' BY <1>1, <1>7 DEF Fresh
    <2>4. Done(t)' = n BY <1>1, <1>7, <2>1 DEF Done
    <2>5. OnCourse(t)'
        <3>1. \A k \in Kept : mem'[Place(k, t)] = end.val[k] BY <1>3, <1>7
        <3>2. crc'[t] = end.sum + HashOf(end.val)' BY <1>7, <2>1, <2>2
        <3> QED BY <1>1, <1>7, <2>1, <2>4, <3>1, <3>2 DEF OnCourse, Exited
    <2>6. Midway(t)' BY <1>7 DEF Midway
    <2> QED BY <2>3, <2>5, <2>6 DEF ThreadInv
<1>9. "global" \in Stored /\ OptionOf("global") \subseteq flags BY DEF Stored, OptionOf
<1>10. /\ UNCHANGED generated /\ host' = host /\ mem' = mem
       /\ \A u \in Thread \ {t} : /\ pc'[u] = pc[u] /\ stage'[u] = stage[u]
                                  /\ reg'[u] = reg[u] /\ crc'[u] = crc[u]
                                  /\ results'[u] = results[u]
    BY DEF HashGlobals, PInv, TypeOK
<1> QED BY <1>8, <1>9, <1>10, OthersUndisturbed

LEMMA StoreResultRun ==
    ASSUME Argc = 1, PInv, NEW t \in Thread, StoreResult(t)
    PROVE  \A u \in Thread : ThreadInv(u)'
<1> DEFINE n == Len(program)
           end == R(t)[n]
<1>1. pc[t] = n + 2 /\ n \in Nat BY ProgramKnown DEF StoreResult, PInv
<1>2. ThreadInv(t) BY DEF PInv
<1>3. crc[t] = end.sum + HashOf(end.val) BY <1>1, <1>2 DEF ThreadInv, OnCourse
<1>4. Expected(t) = ResultOf(crc[t]) BY <1>3 DEF Expected, R
<1>5. Thread = 0..NumThreads - 1 /\ tid(t) = t BY Layout
<1>6. results' = [results EXCEPT ![t] = Expected(t)] /\ UNCHANGED generated
    BY <1>4, <1>5 DEF StoreResult
<1>7. results'[t] = Expected(t) /\ \A u \in Thread \ {t} : results'[u] = results[u]
    BY <1>5, <1>6 DEF PInv, TypeOK
<1>8. pc'[t] = n + 3 /\ stage'[t] = "start" /\ mem' = mem
    BY <1>1, <1>2 DEF StoreResult, ThreadInv, Midway, PInv, TypeOK
<1>9. ThreadInv(t)'
    <2>1. /\ flags' = flags /\ program' = program /\ Kept' = Kept /\ R(t)' = R(t)
          /\ Expected(t)' = Expected(t) /\ \A j : Place(j, t)' = Place(j, t)
        BY <1>6, SamePlaces, SameRuns, SameTexts
    <2>2. Fresh(t)' BY <1>1, <1>8 DEF Fresh
    <2>3. Done(t)' = n /\ Done(t) = n BY <1>1, <1>8, <2>1 DEF Done
    <2>4. OnCourse(t)'
        <3>1. \A k \in Kept : mem'[Place(k, t)] = end.val[k]
            BY <1>1, <1>2, <1>8, <2>3 DEF ThreadInv, OnCourse
        <3> QED BY <1>1, <1>7, <1>8, <2>1, <2>3, <3>1 DEF OnCourse, Exited
    <2>5. Midway(t)' BY <1>8 DEF Midway
    <2> QED BY <2>2, <2>4, <2>5 DEF ThreadInv
<1>10. "global" \in Stored /\ OptionOf("global") \subseteq flags BY DEF Stored, OptionOf
<1>11. \A u \in Thread \ {t} : pc'[u] = pc[u] BY DEF StoreResult, PInv, TypeOK
<1> QED BY <1>7, <1>9, <1>10, <1>11, OthersUndisturbed DEF StoreResult

LEMMA ThreadPInv ==
    ASSUME Argc = 1, PInv, NEW t \in Thread, ThreadStep(t)
    PROVE  PInv'
<1>1. TypeOK' /\ KInv' BY ThreadType, ThreadKInv DEF PInv
<1>2. \A u \in Thread : ThreadInv(u)'
    BY InitGlobalsRun, InitSharedRun, LoadRun, StoreRun, BranchRun, BarrierRun,
       HashGlobalsRun, StoreResultRun DEF ThreadStep
<1>3. host = "sync" /\ host' = host /\ UNCHANGED generated
    BY DEF ThreadStep, InitGlobals, InitShared, Load, Store, Branch, Barrier, HashGlobals,
           StoreResult, AtOp, Running
<1>4. Thread' = Thread BY <1>3, SamePlaces
<1>5. HostInv' BY <1>3 DEF HostInv
<1> QED BY <1>1, <1>2, <1>4, <1>5 DEF PInv

\* A step of main that leaves the threads and their memory alone.
LEMMA HostAside ==
    ASSUME PInv, UNCHANGED generated, UNCHANGED thread, UNCHANGED <<mem, results>>,
           host' \in {"alloc", "launch", "sync"} => host' = host \/ host \in {"alloc", "launch"}
    PROVE  (\A t \in Thread : ThreadInv(t))'
<1>1. /\ flags' = flags /\ program' = program /\ Thread' = Thread /\ Kept' = Kept
      /\ Hashed' = Hashed /\ \A t : R(t)' = R(t) /\ Expected(t)' = Expected(t)
      /\ \A j, t : Place(j, t)' = Place(j, t)
    BY SamePlaces, SameRuns, SameTexts
<1>2. ASSUME NEW t \in Thread PROVE ThreadInv(t)'
    <2>1. ThreadInv(t) BY DEF PInv
    <2>2. pc' = pc /\ stage' = stage /\ reg' = reg /\ crc' = crc BY DEF thread
    <2>3. Fresh(t)' BY <1>1, <2>1, <2>2 DEF ThreadInv, Fresh
    <2>4. OnCourse(t)' BY <1>1, <2>1, <2>2 DEF ThreadInv, OnCourse, Done, Exited, HashOf
    <2>5. Midway(t)' BY <1>1, <2>1, <2>2 DEF ThreadInv, Midway
    <2> QED BY <2>3, <2>4, <2>5 DEF ThreadInv
<1> QED BY <1>1, <1>2

LEMMA SetupPInv ==
    ASSUME PInv, SetupHipGlobals
    PROVE  HostInv' /\ (\A t \in Thread : ThreadInv(t))'
<1>1. /\ flags' = flags /\ program' = program /\ Thread' = Thread /\ Kept' = Kept
      /\ \A j, t : Place(j, t)' = Place(j, t)
    BY SamePlaces, SameRuns DEF SetupHipGlobals
<1>2. \A t \in Thread : pc[t] = 0 BY DEF PInv, HostInv, SetupHipGlobals
<1>3. pc' = pc /\ stage' = stage /\ crc' = crc /\ host' = "alloc"
    BY DEF SetupHipGlobals, thread
<1>4. HostInv' BY <1>1, <1>2, <1>3 DEF HostInv
<1>5. ASSUME NEW t \in Thread PROVE ThreadInv(t)'
    <2>1. Fresh(t) BY DEF PInv, ThreadInv
    <2>2. \A k \in Kept \ {"global"} : mem'[Place(k, t)] = InitValue
        <3> SUFFICES ASSUME NEW k \in Kept, k # "global" PROVE mem'[Place(k, t)] = InitValue
            OBVIOUS
        <3>1. Place(k, t) \in Places /\ Place(k, t)[1] = k BY PlaceKind, PlaceKnown
        <3>2. CASE k = "managed"
            BY <1>2, <2>1, <3>1, <3>2 DEF Fresh, SetupHipGlobals
        <3>3. CASE k # "managed"
            <4>1. k \in {"const", "device"} BY <3>3 DEF Kept
            <4> QED BY <3>1, <4>1, ValueArithmetic DEF SetupHipGlobals
        <3> QED BY <3>2, <3>3
    <2>3. Fresh(t)' BY <1>1, <1>2, <1>3, <2>1, <2>2 DEF Fresh
    <2>4. Len(program) \in Nat BY ProgramKnown DEF PInv
    <2>5. OnCourse(t)' BY <1>1, <1>2, <1>3, <2>4 DEF OnCourse, Exited
    <2>6. Midway(t)' BY <1>2, <1>3, <2>1 DEF Fresh, Midway
    <2> QED BY <2>3, <2>5, <2>6 DEF ThreadInv
<1> QED BY <1>1, <1>4, <1>5

LEMMA HostPInv ==
    ASSUME Argc = 1, PInv, HostStep \/ HipCheckFails
    PROVE  PInv'
<1>1. TypeOK' /\ KInv' BY HostType, NextKInv DEF PInv, Next
<1>2. UNCHANGED generated /\ UNCHANGED thread
    BY DEF HostStep, HipCheckFails, SetupHipGlobals, DeviceAlloc, Launch, DeviceSynchronize,
           CopyBack, PrintLine, Return
<1>3. /\ Thread' = Thread /\ program' = program /\ \A t : Expected(t)' = Expected(t)
    BY <1>2, SamePlaces, SameTexts
<1>4. pc' = pc BY <1>2 DEF thread
<1>5. CASE SetupHipGlobals BY <1>1, <1>5, SetupPInv DEF PInv
<1>6. CASE DeviceAlloc
    <2>1. \A t \in Thread : pc[t] = 0 BY <1>6 DEF PInv, HostInv, DeviceAlloc
    <2>2. HostInv' BY <1>3, <1>4, <1>6, <2>1 DEF HostInv, DeviceAlloc
    <2>3. ASSUME NEW t \in Thread PROVE ThreadInv(t)'
        <3>1. /\ Kept' = Kept /\ \A j : Place(j, t)' = Place(j, t)
            BY <1>2, SamePlaces, SameRuns
        <3>2. Fresh(t) BY DEF PInv, ThreadInv
        <3>3. stage' = stage /\ crc' = crc BY <1>2 DEF thread
        <3>4. Fresh(t)' BY <1>4, <1>6, <3>1, <3>2, <3>3 DEF Fresh, DeviceAlloc
        <3>5. Len(program) \in Nat BY ProgramKnown DEF PInv
        <3>6. OnCourse(t)' BY <1>3, <1>4, <2>1, <3>5 DEF OnCourse, Exited
        <3>7. Midway(t)' BY <1>4, <2>1, <3>2, <3>3 DEF Fresh, Midway
        <3> QED BY <3>4, <3>6, <3>7 DEF ThreadInv
    <2> QED BY <1>1, <1>3, <2>2, <2>3 DEF PInv
<1>7. CASE Launch
    <2>1. HostInv' BY <1>7 DEF HostInv, Launch
    <2>2. (\A t \in Thread : ThreadInv(t))' BY <1>2, <1>7, HostAside DEF Launch
    <2> QED BY <1>1, <2>1, <2>2 DEF PInv
<1>8. CASE DeviceSynchronize
    <2>1. HostInv' BY <1>3, <1>4, <1>8 DEF HostInv, DeviceSynchronize, Exited
    <2>2. (\A t \in Thread : ThreadInv(t))' BY <1>2, <1>8, HostAside DEF DeviceSynchronize
    <2> QED BY <1>1, <2>1, <2>2 DEF PInv
<1>9. CASE CopyBack
    <2>1. \A t \in Thread : Exited(t) /\ results[t] = Expected(t)
        BY <1>9 DEF PInv, HostInv, ThreadInv, OnCourse, CopyBack
    <2>2. h_results' = results /\ host' = "print" BY <1>9 DEF CopyBack
    <2>3. HostInv' BY <1>3, <1>4, <2>1, <2>2 DEF HostInv, Exited
    <2>4. (\A t \in Thread : ThreadInv(t))' BY <1>2, <1>9, HostAside DEF CopyBack
    <2> QED BY <1>1, <2>3, <2>4 DEF PInv
<1>10. CASE PrintLine \/ Return
    <2>1. /\ host = "print" /\ host' \in {"print", "done"}
          /\ UNCHANGED <<mem, results, h_results>>
        BY <1>10 DEF PrintLine, Return
    <2>2. HostInv' BY <1>3, <1>4, <2>1 DEF PInv, HostInv, Exited
    <2>3. (\A t \in Thread : ThreadInv(t))' BY <1>2, <2>1, HostAside
    <2> QED BY <1>1, <2>2, <2>3 DEF PInv
<1>11. CASE HipCheckFails
    <2>1. HostInv' BY <1>11 DEF HostInv, HipCheckFails
    <2>2. (\A t \in Thread : ThreadInv(t))' BY <1>2, <1>11, HostAside DEF HipCheckFails
    <2> QED BY <1>1, <2>1, <2>2 DEF PInv
<1> QED BY <1>5, <1>6, <1>7, <1>8, <1>9, <1>10, <1>11 DEF HostStep

LEMMA InitPInv ==
    ASSUME Init
    PROVE  PInv
<1>1. TypeOK /\ KInv BY InitType, InitKInv
<1>2. \A t \in Thread : pc[t] = 0 /\ stage[t] = "start" /\ crc[t] = 0 BY DEF Init
<1>3. host = "setup" BY DEF Init
<1>4. HostInv BY <1>2, <1>3 DEF HostInv
<1>5. ASSUME NEW t \in Thread PROVE ThreadInv(t)
    <2>1. \A k \in Kept : k = "managed" => mem[Place(k, t)] = InitValue
        BY PlaceKind, PlaceKnown, ValueArithmetic DEF Init
    <2>2. Fresh(t) BY <1>2, <1>3, <2>1 DEF Fresh
    <2>3. Len(program) \in Nat BY <1>1, ProgramKnown
    <2>4. OnCourse(t) BY <1>2, <2>3 DEF OnCourse, Exited
    <2>5. Midway(t) BY <1>2 DEF Midway
    <2> QED BY <2>2, <2>4, <2>5 DEF ThreadInv
<1> QED BY <1>1, <1>4, <1>5 DEF PInv

LEMMA NextPInv ==
    ASSUME Argc = 1, PInv, [Next]_vars
    PROVE  PInv'
<1>1. CASE HostStep \/ HipCheckFails BY <1>1, HostPInv
<1>2. CASE \E t \in Thread : ThreadStep(t) BY <1>2, ThreadPInv
<1>3. CASE UNCHANGED vars
    <2>1. UNCHANGED generated /\ UNCHANGED thread /\ UNCHANGED <<mem, results>> /\ host' = host
        BY <1>3 DEF vars, generated, thread
    <2>2. TypeOK' /\ KInv' BY NextType, NextKInv DEF PInv
    <2>3. (\A t \in Thread : ThreadInv(t))' BY <2>1, HostAside
    <2>4. Thread' = Thread /\ program' = program /\ \A t : Expected(t)' = Expected(t)
        BY <2>1, SamePlaces, SameTexts
    <2>5. HostInv' BY <1>3, <2>4 DEF PInv, HostInv, Exited, vars
    <2> QED BY <2>2, <2>3, <2>5 DEF PInv
<1> QED BY <1>1, <1>2, <1>3 DEF Next, Stop

\* A step of the program prints a line of the report, the next one, or none.
LEMMA PrintsContract ==
    ASSUME Argc = 1, PInv, [Next]_vars
    PROVE  [Contract!PrintNext]_<<[i \in 1..NumThreads |-> Expected(i - 1)], printed>>
<1> DEFINE lines == [i \in 1..NumThreads |-> Expected(i - 1)]
<1>1. UNCHANGED generated
    BY DEF Next, HostStep, HipCheckFails, SetupHipGlobals, DeviceAlloc, Launch,
           DeviceSynchronize, CopyBack, PrintLine, Return, Stop, ThreadStep, InitGlobals,
           InitShared, Load, Store, Branch, Barrier, HashGlobals, StoreResult, vars, generated
<1>2. lines' = lines
    <2>1. NumThreads' = NumThreads /\ \A t : Expected(t)' = Expected(t) BY <1>1, SameTexts
    <2> QED BY <2>1
<1>3. CASE PrintLine
    <2> DEFINE n == Len(printed)
    <2>1. n \in Nat /\ n < NumThreads BY <1>3, LenProperties DEF PrintLine, PInv, TypeOK
    <2>2. n \in Thread BY <2>1, Layout, ThreadsCounted
    <2>3. h_results[n] = Expected(n) BY <1>3, <2>2 DEF PInv, HostInv, PrintLine
    <2>4. n + 1 \in 1..NumThreads /\ n + 1 - 1 = n BY <2>1, ThreadsCounted
    <2>5. lines[n + 1] = Expected(n) BY <2>4
    <2>6. Len(lines) = NumThreads BY ThreadsCounted
    <2>7. printed' = Append(printed, lines[n + 1]) BY <1>3, <2>3, <2>5 DEF PrintLine
    <2> HIDE DEF lines
    <2> QED BY <1>2, <2>1, <2>6, <2>7 DEF Contract!PrintNext, lines
<1>4. CASE UNCHANGED printed BY <1>2, <1>4
<1>5. PrintLine \/ UNCHANGED printed
    BY DEF Next, HostStep, HipCheckFails, SetupHipGlobals, DeviceAlloc, Launch,
           DeviceSynchronize, CopyBack, Return, Stop, ThreadStep, InitGlobals,
           InitShared, Load, Store, Branch, Barrier, HashGlobals, StoreResult, vars
<1> QED BY <1>3, <1>4, <1>5

-----------------------------------------------------------------------------

\* Every state of a generated program's run is well typed: an access stays inside the
\* memory spaces, a program counter inside func_1 and what follows it.
THEOREM KernelTypes == Spec => []TypeOK
<1>1. Init => TypeOK BY InitType
<1>2. TypeOK /\ [Next]_vars => TypeOK' BY NextType
<1> QED BY <1>1, <1>2, PTL DEF Spec

\* Run without arguments, a generated program prints the report that its text
\* determines, line by line: whatever func_1 is made of, under every set of options
\* and every schedule of the threads.
THEOREM ReportRefined ==
    ASSUME Argc = 1
    PROVE  Spec => ReportDeterminate
<1>1. Init => PInv BY InitPInv
<1>2. PInv /\ [Next]_vars => PInv' BY NextPInv
<1>3. Init => Contract!Init BY DEF Init, Contract!Init
<1>4. PInv /\ [Next]_vars
          => [Contract!PrintNext]_<<[i \in 1..NumThreads |-> Expected(i - 1)], printed>>
    BY PrintsContract
<1> QED BY <1>1, <1>2, <1>3, <1>4, PTL DEF Spec, ReportDeterminate, Contract!Spec

(***************************************************************************)
(* The process that writes it: HIPMain.                                    *)
(***************************************************************************)

AllPrefixes == {Prefix[k] : k \in GlobalPhases} \cup BodyPrefixes

BeforeNames == {"start", "parse", "create", "header"}
Bodies == {"bodies", "finalize"}

\* The prefixes that may have been used when main is in a phase.
Used ==
    [ph \in Phases |->
        CASE ph \in BeforeNames -> {}
          [] ph = "hip_consts" -> {"hip_const_"}
          [] ph = "hip_managed" -> {"hip_const_", "hip_managed_"}
          [] ph \in {"hip_device", "first"} -> {"hip_const_", "hip_managed_", "hip_device_"}
          [] OTHER -> AllPrefixes]

\* The prefixes that gensym counts on with in a phase.
Live ==
    [ph \in Phases |->
        CASE ph \in GlobalPhases -> {Prefix[ph]}
          [] ph = "bodies" -> BodyPrefixes
          [] OTHER -> {}]

UsedOK == \A i \in 1..Len(names) : names[i].prefix \in Used[phase]

\* What the names of the live prefixes have been given so far lies below the counter.
BelowCounter ==
    \A i \in 1..Len(names) :
        names[i].prefix \in Live[phase] => names[i].number <= gensym_count

\* A kind starts to count from zero, and stays there while its option is off.
CounterClear ==
    /\ phase \in BeforeNames \cup {"first"} => gensym_count = 0
    /\ phase \in GlobalPhases /\ phase \notin options => gensym_count = 0

FirstFunc ==
    phase \in Bodies =>
        \E i \in 1..Len(names) :
            /\ names[i] = [prefix |-> "func_", number |-> 1]
            /\ \A j \in 1..i - 1 : names[j].prefix # "func_"

NInv == MainTypeOK /\ UsedOK /\ BelowCounter /\ CounterClear /\ FirstFunc /\ NamesDistinct

-----------------------------------------------------------------------------
(* The initial state.                                                      *)

LEMMA OffKnown == SwitchesOff \subseteq DOMAIN Switches
BY DEF SwitchesOff, Switches, SwitchTable

LEMMA PowerHalves ==
    \E h \in Nat \ {0} : 2^(Width - 1) = h /\ 2^Width = 2 * h /\ 2^Width \in Int /\ 2^Width > 0
<1>1. 2^Width = 2 * 2^(Width - 1) /\ 2^(Width - 1) \in Nat \ {0}
    BY MainAssumption DEF MainAssumption
<1>2. PICK h \in Nat \ {0} : 2^(Width - 1) = h BY <1>1
<1> QED BY <1>1, <1>2

\* A word is never given a seed that unsigned long cannot hold.
LEMMA SeedInRange ==
    ASSUME NEW w \in Words
    PROVE  SeedOf(w) \in Seeds
<1>1. Strtoll[w].value \in Int BY MainAssumption DEF MainAssumption
<1>2. 2^Width \in Int /\ 2^Width > 0 BY PowerHalves
<1>3. \A m, v \in Int : m > 0 => v % m \in 0..m - 1 OBVIOUS
<1> QED BY <1>1, <1>2, <1>3 DEF SeedOf, Seeds

LEMMA InitNInv == MainInit => NInv
<1> SUFFICES ASSUME MainInit PROVE NInv OBVIOUS
<1>1. argv \in Seq(Words) /\ idx \in 1..Len(argv) + 1
    <2>1. PICK n \in 0..MaxArgs : argv \in [1..n -> Words] BY DEF MainInit
    <2>2. n \in Nat BY MainAssumption DEF MainAssumption
    <2> QED BY <2>1, <2>2 DEF MainInit
<1>2. options \subseteq OptionNames BY OffKnown DEF MainInit, OptionNames
<1>3. cg \in [SmallSettings \cup HipSettings -> {"unset", "default", "hip", "small"}]
    BY DEF MainInit
<1>4. 0 \in Seeds BY MainAssumption DEF MainAssumption, Seeds
<1>5. MainTypeOK BY <1>1, <1>2, <1>3, <1>4 DEF MainInit, MainTypeOK, Phases
<1>6. names = << >> /\ phase = "start" /\ gensym_count = 0 BY DEF MainInit
<1> QED BY <1>5, <1>6 DEF NInv, UsedOK, BelowCounter, CounterClear, FirstFunc, NamesDistinct,
                         GlobalPhases, Bodies

-----------------------------------------------------------------------------
(* Type correctness, one step per action.                                  *)

LEMMA PhasesUsed ==
    /\ \A ph \in BeforeNames : Used[ph] = {} /\ Live[ph] = {}
    /\ \A ph \in GlobalPhases : ph \in Phases /\ Live[ph] = {Prefix[ph]} /\ Prefix[ph] \in Used[ph]
    /\ Live["first"] = {} /\ Used["first"] \cap BodyPrefixes = {}
    /\ Live["bodies"] = BodyPrefixes /\ Used["bodies"] = AllPrefixes
    /\ Live["finalize"] = {} /\ Used["finalize"] = AllPrefixes
    /\ Live["exit"] = {} /\ Used["exit"] = AllPrefixes
    /\ \A ph \in GlobalPhases : "func_" \notin Used[ph]
BY DEF BeforeNames, Used, Live, GlobalPhases, Phases, Prefix, AllPrefixes, BodyPrefixes

LEMMA PrefixKnown ==
    /\ \A ph \in GlobalPhases : Prefix[ph] \in AllPrefixes
    /\ BodyPrefixes \subseteq AllPrefixes
BY DEF AllPrefixes

\* What gensym does to the list of names.
LEMMA NameAppended ==
    ASSUME MainTypeOK, NEW b \in AllPrefixes, gensym(b)
    PROVE  /\ gensym_count' \in Nat /\ gensym_count' = gensym_count + 1
           /\ names' \in Seq(Names) /\ Len(names') = Len(names) + 1 /\ Len(names) \in Nat
           /\ \A i \in 1..Len(names) : names'[i] = names[i]
           /\ names'[Len(names) + 1] = [prefix |-> b, number |-> gensym_count + 1]
<1>1. gensym_count \in Nat /\ names \in Seq(Names) BY DEF MainTypeOK
<1>2. gensym_count' = gensym_count + 1 /\ gensym_count' \in Nat BY <1>1 DEF gensym
<1> DEFINE n == [prefix |-> b, number |-> gensym_count + 1]
<1>3. n \in Names BY <1>1, <1>2 DEF Names, AllPrefixes
<1>4. names' = Append(names, n) BY <1>2 DEF gensym
<1> HIDE DEF n
<1>5. /\ names' \in Seq(Names) /\ Len(names') = Len(names) + 1
      /\ \A i \in 1..Len(names) : names'[i] = names[i]
      /\ names'[Len(names) + 1] = n
    BY <1>1, <1>3, <1>4, AppendProperties
<1>6. Len(names) \in Nat BY <1>1, LenProperties
<1> QED BY <1>2, <1>5, <1>6 DEF n

LEMMA TypeStep == MainTypeOK /\ [MainNext]_mvars => MainTypeOK'
<1> SUFFICES ASSUME MainTypeOK, [MainNext]_mvars PROVE MainTypeOK' OBVIOUS
<1>1. CASE Start
    <2>1. g_Seed' \in Seeds BY <1>1, MainAssumption DEF Start, MainAssumption, Seeds
    <2>2. cg' \in [SmallSettings \cup HipSettings -> {"unset", "default", "hip", "small"}]
        BY <1>1 DEF Start, ResolveCGOptions, DefaultSettings
    <2> QED BY <1>1, <2>1, <2>2 DEF MainTypeOK, Start, Phases
<1>2. CASE ParseSwitch
    <2>1. Switches[argv[idx]] \in OptionNames BY <1>2 DEF ParseSwitch, OptionNames
    <2>2. options' \subseteq OptionNames BY <1>2, <2>1 DEF ParseSwitch, MainTypeOK
    <2>3. idx' \in 1..Len(argv) + 1
        BY <1>2, LenProperties DEF ParseSwitch, Parsing, MainTypeOK
    <2> QED BY <1>2, <2>2, <2>3 DEF MainTypeOK, ParseSwitch
<1>3. CASE ParseSeed
    <2>1. idx \in Nat /\ idx >= 1 /\ Len(argv) \in Nat /\ idx < Len(argv)
        BY <1>3, LenProperties DEF ParseSeed, MainTypeOK
    <2>2. argv[idx + 1] \in Words BY <2>1, ElementOfSeq DEF MainTypeOK
    <2>3. g_Seed' \in Seeds BY <1>3, <2>2, SeedInRange DEF ParseSeed
    <2>4. idx' \in 1..Len(argv) + 1 BY <1>3, <2>1 DEF ParseSeed, SeedWords, MainTypeOK
    <2> QED BY <1>3, <2>3, <2>4 DEF MainTypeOK, ParseSeed, Exit, Phases
<1>4. CASE RefuseArgument BY <1>4 DEF MainTypeOK, RefuseArgument, Exit, Phases
<1>5. CASE EndParsing BY <1>5 DEF MainTypeOK, EndParsing, Phases
<1>6. CASE CreateInstance BY <1>6 DEF MainTypeOK, CreateInstance, Phases
<1>7. CASE OutputHeader BY <1>7 DEF MainTypeOK, OutputHeader, Phases, GlobalPhases
<1>8. CASE GenerateHIPGlobal
    <2>1. Prefix[phase] \in AllPrefixes BY <1>8, PrefixKnown DEF GenerateHIPGlobal
    <2>2. gensym_count' \in Nat /\ names' \in Seq(Names)
        BY <1>8, <2>1, NameAppended DEF GenerateHIPGlobal
    <2> QED BY <1>8, <2>2 DEF MainTypeOK, GenerateHIPGlobal
<1>9. CASE FinishKind
    <2>1. phase' \in Phases BY <1>9 DEF FinishKind, AfterKind, GlobalPhases, Phases
    <2>2. gensym_count' \in Nat BY <1>9 DEF FinishKind, CountAfter, MainTypeOK
    <2> QED BY <1>9, <2>1, <2>2 DEF MainTypeOK, FinishKind
<1>10. CASE MakeFirst
    <2>1. "func_" \in AllPrefixes BY DEF AllPrefixes, BodyPrefixes
    <2>2. gensym_count' \in Nat /\ names' \in Seq(Names)
        BY <1>10, <2>1, NameAppended DEF MakeFirst
    <2> QED BY <1>10, <2>2 DEF MainTypeOK, MakeFirst, Phases
<1>11. CASE MakeName
    <2>1. PICK b \in BodyPrefixes : gensym(b) BY <1>11 DEF MakeName
    <2>2. gensym_count' \in Nat /\ names' \in Seq(Names) BY <2>1, PrefixKnown, NameAppended
    <2> QED BY <1>11, <2>2 DEF MainTypeOK, MakeName
<1>12. CASE Output BY <1>12 DEF MainTypeOK, Output, Phases
<1>13. CASE Finalize BY <1>13 DEF MainTypeOK, Finalize, Exit, Phases
<1>14. CASE UNCHANGED mvars BY <1>14 DEF MainTypeOK, mvars
<1> QED
    BY <1>1, <1>2, <1>3, <1>4, <1>5, <1>6, <1>7, <1>8, <1>9, <1>10, <1>11, <1>12, <1>13,
       <1>14 DEF MainNext

-----------------------------------------------------------------------------
(* The names.                                                              *)

NamesInv == UsedOK /\ BelowCounter /\ CounterClear /\ FirstFunc /\ NamesDistinct

\* Before the first kind there are no names.
LEMMA NamesQuiet ==
    ASSUME NInv, phase \in BeforeNames, UNCHANGED <<names, gensym_count>>,
           phase' \in BeforeNames \cup {"hip_consts", "exit"}
    PROVE  NamesInv'
<1>1. Len(names) \in Nat BY LenProperties DEF NInv, MainTypeOK
<1>2. \A i \in 1..Len(names) : FALSE BY PhasesUsed DEF NInv, UsedOK
<1>3. gensym_count = 0 BY DEF NInv, CounterClear
<1>4. phase' \notin Bodies BY DEF BeforeNames, Bodies
<1> QED BY <1>1, <1>2, <1>3, <1>4 DEF NamesInv, UsedOK, BelowCounter, CounterClear, FirstFunc,
                                      NamesDistinct

\* gensym never returns a name that is in use, as long as it counts from above the
\* names of the prefix.
LEMMA FreshName ==
    ASSUME NInv, NEW b \in AllPrefixes, gensym(b),
           \A i \in 1..Len(names) : names[i].prefix = b => names[i].number <= gensym_count
    PROVE  NamesDistinct'
<1>1. MainTypeOK /\ NamesDistinct BY DEF NInv
<1>2. /\ gensym_count \in Nat /\ Len(names') = Len(names) + 1 /\ Len(names) \in Nat
      /\ \A i \in 1..Len(names) : names'[i] = names[i]
      /\ names'[Len(names) + 1] = [prefix |-> b, number |-> gensym_count + 1]
    BY <1>1, NameAppended DEF MainTypeOK
<1>3. \A i \in 1..Len(names) : names[i] # [prefix |-> b, number |-> gensym_count + 1]
    <2> SUFFICES ASSUME NEW i \in 1..Len(names), names[i] = [prefix |-> b, number |-> gensym_count + 1]
                 PROVE  FALSE
        OBVIOUS
    <2>1. names[i].prefix = b /\ names[i].number = gensym_count + 1 OBVIOUS
    <2> QED BY <2>1, <1>2
<1> SUFFICES ASSUME NEW i \in 1..Len(names'), NEW j \in 1..Len(names'), i # j
             PROVE  names'[i] # names'[j]
    BY DEF NamesDistinct
<1>4. CASE i \in 1..Len(names) /\ j \in 1..Len(names) BY <1>1, <1>2, <1>4 DEF NamesDistinct
<1>5. CASE i = Len(names) + 1 /\ j \in 1..Len(names) BY <1>2, <1>3, <1>5
<1>6. CASE i \in 1..Len(names) /\ j = Len(names) + 1 BY <1>2, <1>3, <1>6
<1> QED BY <1>2, <1>4, <1>5, <1>6

\* A name of a live prefix keeps what the phase says of names.
LEMMA NameStep ==
    ASSUME NInv, NEW b \in AllPrefixes, gensym(b), phase' \in Phases,
           b \in Used[phase'], Used[phase] \subseteq Used[phase'],
           Live[phase'] \cap Used[phase] \subseteq Live[phase]
    PROVE  UsedOK' /\ BelowCounter'
<1>1. MainTypeOK /\ UsedOK /\ BelowCounter BY DEF NInv
<1>2. /\ gensym_count \in Nat /\ gensym_count' = gensym_count + 1
      /\ Len(names') = Len(names) + 1 /\ Len(names) \in Nat
      /\ \A i \in 1..Len(names) : names'[i] = names[i]
      /\ names'[Len(names) + 1] = [prefix |-> b, number |-> gensym_count + 1]
      /\ names \in Seq(Names)
    BY <1>1, NameAppended DEF MainTypeOK
<1>3. ASSUME NEW i \in 1..Len(names) PROVE names[i].number \in Nat
    <2>1. names[i] \in Names BY <1>2, ElementOfSeq
    <2> QED BY <2>1 DEF Names
<1>4. UsedOK'
    <2> SUFFICES ASSUME NEW i \in 1..Len(names') PROVE names'[i].prefix \in Used[phase']
        BY DEF UsedOK
    <2>1. CASE i \in 1..Len(names) BY <1>1, <1>2, <2>1 DEF UsedOK
    <2>2. CASE i = Len(names) + 1 BY <1>2, <2>2
    <2> QED BY <1>2, <2>1, <2>2
<1>5. BelowCounter'
    <2> SUFFICES ASSUME NEW i \in 1..Len(names'), names'[i].prefix \in Live[phase']
                 PROVE  names'[i].number <= gensym_count'
        BY DEF BelowCounter
    <2>1. CASE i \in 1..Len(names)
        <3>1. names'[i] = names[i] /\ names[i].prefix \in Used[phase] BY <1>1, <1>2, <2>1 DEF UsedOK
        <3>2. names[i].prefix \in Live[phase] BY <3>1
        <3>3. names[i].number <= gensym_count BY <1>1, <2>1, <3>2 DEF BelowCounter
        <3> QED BY <1>2, <1>3, <2>1, <3>1, <3>3
    <2>2. CASE i = Len(names) + 1 BY <1>2, <2>2
    <2> QED BY <1>2, <2>1, <2>2
<1> QED BY <1>4, <1>5

-----------------------------------------------------------------------------
(* The invariant.                                                          *)

LEMMA GlobalStep == NInv /\ GenerateHIPGlobal => NamesInv'
<1> SUFFICES ASSUME NInv, GenerateHIPGlobal PROVE NamesInv' OBVIOUS
<1> DEFINE b == Prefix[phase]
<1>1. /\ phase \in GlobalPhases /\ phase \in options /\ gensym(b)
      /\ phase' = phase /\ options' = options
    BY DEF GenerateHIPGlobal
<1>2. b \in AllPrefixes /\ b \in Used[phase] /\ Live[phase] = {b} /\ phase \in Phases
    BY <1>1, PrefixKnown, PhasesUsed
<1>3. \A i \in 1..Len(names) : names[i].prefix = b => names[i].number <= gensym_count
    BY <1>2 DEF NInv, BelowCounter
<1> HIDE DEF b
<1>4. NamesDistinct' BY <1>1, <1>2, <1>3, FreshName
<1>5. UsedOK' /\ BelowCounter' BY <1>1, <1>2, NameStep
<1>6. phase \notin BeforeNames \cup {"first"} \cup Bodies
    BY <1>1 DEF GlobalPhases, BeforeNames, Bodies
<1>7. CounterClear' /\ FirstFunc' BY <1>1, <1>6 DEF CounterClear, FirstFunc
<1> QED BY <1>4, <1>5, <1>7 DEF NamesInv

\* reset_gensym: the next kind has a prefix of its own, and nothing is counted yet.
LEMMA FinishStep == NInv /\ FinishKind => NamesInv'
<1> SUFFICES ASSUME NInv, FinishKind PROVE NamesInv' OBVIOUS
<1>1. /\ phase \in GlobalPhases /\ phase' = AfterKind[phase] /\ names' = names
      /\ options' = options /\ gensym_count' = CountAfter(phase)
    BY DEF FinishKind
<1>2. gensym_count' = 0 BY <1>1 DEF CountAfter, NInv, CounterClear
<1>3. phase' \in {"hip_managed", "hip_device", "first"} BY <1>1 DEF AfterKind, GlobalPhases
<1>4. Used[phase] \subseteq Used[phase'] /\ Live[phase'] \cap Used[phase] = {}
    BY <1>1 DEF Used, Live, AfterKind, GlobalPhases, Phases, Prefix, BeforeNames
<1>5. UsedOK' BY <1>1, <1>4 DEF NInv, UsedOK
<1>6. BelowCounter' BY <1>1, <1>4 DEF NInv, UsedOK, BelowCounter
<1>7. CounterClear' BY <1>2 DEF CounterClear
<1>8. FirstFunc' BY <1>3 DEF FirstFunc, Bodies
<1>9. NamesDistinct' BY <1>1 DEF NInv, NamesDistinct
<1> QED BY <1>5, <1>6, <1>7, <1>8, <1>9 DEF NamesInv

\* make_first: nothing before it has the prefix of functions.
LEMMA FirstStep == NInv /\ MakeFirst => NamesInv'
<1> SUFFICES ASSUME NInv, MakeFirst PROVE NamesInv' OBVIOUS
<1>1. phase = "first" /\ gensym("func_") /\ phase' = "bodies" BY DEF MakeFirst
<1>2. "func_" \in AllPrefixes /\ "func_" \in BodyPrefixes BY DEF AllPrefixes, BodyPrefixes
<1>3. \A i \in 1..Len(names) : names[i].prefix # "func_"
    BY <1>1, <1>2, PhasesUsed DEF NInv, UsedOK
<1>4. NamesDistinct' BY <1>2, <1>1, <1>3, FreshName
<1>5. Used["first"] \subseteq AllPrefixes BY DEF Used, Phases, AllPrefixes, Prefix, GlobalPhases, BeforeNames
<1>6. "bodies" \in Phases BY DEF Phases
<1>7. UsedOK' /\ BelowCounter' BY <1>1, <1>2, <1>5, <1>6, PhasesUsed, NameStep
<1>8. CounterClear' BY <1>1 DEF CounterClear, BeforeNames, GlobalPhases
<1>9. FirstFunc'
    <2>1. gensym_count = 0 BY <1>1 DEF NInv, CounterClear
    <2>2. /\ Len(names') = Len(names) + 1 /\ Len(names) \in Nat
          /\ \A i \in 1..Len(names) : names'[i] = names[i]
          /\ names'[Len(names) + 1] = [prefix |-> "func_", number |-> 1]
        BY <1>1, <1>2, <2>1, NameAppended DEF NInv
    <2>3. Len(names) + 1 \in 1..Len(names') BY <2>2
    <2>4. \A j \in 1..(Len(names) + 1) - 1 : names'[j].prefix # "func_" BY <1>3, <2>2
    <2> QED BY <2>2, <2>3, <2>4 DEF FirstFunc
<1> QED BY <1>4, <1>7, <1>8, <1>9 DEF NamesInv

LEMMA BodyStep == NInv /\ MakeName => NamesInv'
<1> SUFFICES ASSUME NInv, MakeName PROVE NamesInv' OBVIOUS
<1>1. phase = "bodies" /\ phase' = "bodies" BY DEF MakeName
<1>2. PICK b \in BodyPrefixes : gensym(b) BY DEF MakeName
<1>3. b \in AllPrefixes BY PrefixKnown
<1>4. \A i \in 1..Len(names) : names[i].prefix = b => names[i].number <= gensym_count
    BY <1>1, PhasesUsed DEF NInv, BelowCounter
<1>5. NamesDistinct' BY <1>2, <1>3, <1>4, FreshName
<1>6. "bodies" \in Phases BY DEF Phases
<1>7. UsedOK' /\ BelowCounter' BY <1>1, <1>2, <1>3, <1>6, PhasesUsed, NameStep
<1>8. CounterClear' BY <1>1 DEF CounterClear, BeforeNames, GlobalPhases
<1>9. FirstFunc'
    <2>1. /\ Len(names') = Len(names) + 1 /\ Len(names) \in Nat
          /\ \A i \in 1..Len(names) : names'[i] = names[i]
        BY <1>2, <1>3, NameAppended DEF NInv
    <2>2. PICK i \in 1..Len(names) : /\ names[i] = [prefix |-> "func_", number |-> 1]
                                     /\ \A j \in 1..i - 1 : names[j].prefix # "func_"
        BY <1>1 DEF NInv, FirstFunc, Bodies
    <2>3. i \in 1..Len(names') /\ names'[i] = [prefix |-> "func_", number |-> 1] BY <2>1, <2>2
    <2>4. \A j \in 1..i - 1 : names'[j].prefix # "func_" BY <2>1, <2>2
    <2> QED BY <2>3, <2>4 DEF FirstFunc
<1> QED BY <1>5, <1>7, <1>8, <1>9 DEF NamesInv

\* Output and the end: no more names.
LEMMA EndStep ==
    ASSUME NInv, UNCHANGED <<names, gensym_count>>, phase' \in {"finalize", "exit"},
           phase \in Bodies
    PROVE  NamesInv'
<1>1. UsedOK' BY PhasesUsed DEF NInv, UsedOK, Bodies
<1>2. BelowCounter' BY PhasesUsed DEF BelowCounter
<1>3. CounterClear' BY DEF CounterClear, BeforeNames, GlobalPhases
<1>4. FirstFunc' BY DEF NInv, FirstFunc, Bodies
<1>5. NamesDistinct' BY DEF NInv, NamesDistinct
<1> QED BY <1>1, <1>2, <1>3, <1>4, <1>5 DEF NamesInv

LEMMA NextNInv == NInv /\ [MainNext]_mvars => NInv'
<1> SUFFICES ASSUME NInv, [MainNext]_mvars PROVE NInv' OBVIOUS
<1>1. MainTypeOK' BY TypeStep DEF NInv
<1>2. NamesInv'
    <2>1. CASE Start BY <2>1, NamesQuiet DEF Start, BeforeNames
    <2>2. CASE ParseSwitch BY <2>2, NamesQuiet DEF ParseSwitch, Parsing, BeforeNames
    <2>3. CASE ParseSeed BY <2>3, NamesQuiet DEF ParseSeed, Parsing, Exit, BeforeNames
    <2>4. CASE RefuseArgument BY <2>4, NamesQuiet DEF RefuseArgument, Parsing, Exit, BeforeNames
    <2>5. CASE EndParsing BY <2>5, NamesQuiet DEF EndParsing, BeforeNames
    <2>6. CASE CreateInstance BY <2>6, NamesQuiet DEF CreateInstance, BeforeNames
    <2>7. CASE OutputHeader BY <2>7, NamesQuiet DEF OutputHeader, BeforeNames
    <2>8. CASE GenerateHIPGlobal BY <2>8, GlobalStep
    <2>9. CASE FinishKind BY <2>9, FinishStep
    <2>10. CASE MakeFirst BY <2>10, FirstStep
    <2>11. CASE MakeName BY <2>11, BodyStep
    <2>12. CASE Output BY <2>12, EndStep DEF Output, Bodies
    <2>13. CASE Finalize BY <2>13, EndStep DEF Finalize, Exit, Bodies
    <2>14. CASE UNCHANGED mvars
        BY <2>14 DEF mvars, NInv, NamesInv, UsedOK, BelowCounter, CounterClear, FirstFunc,
                     NamesDistinct
    <2> QED
        BY <2>1, <2>2, <2>3, <2>4, <2>5, <2>6, <2>7, <2>8, <2>9, <2>10, <2>11, <2>12, <2>13,
           <2>14 DEF MainNext
<1> QED BY <1>1, <1>2 DEF NInv, NamesInv

\* The kernel can call func_1, and no two things in a program have one name, for every
\* command line and any number of variables, functions and labels (gensym, reset_gensym).
THEOREM NamesHold == MainSpec => []NamesFit
<1>1. NInv => NamesFit
    <2> SUFFICES ASSUME NInv PROVE NamesFit OBVIOUS
    <2>1. EntryIsFunc1 BY DEF NInv, FirstFunc, Bodies, EntryIsFunc1
    <2> QED BY <2>1 DEF NInv, NamesFit
<1> QED BY <1>1, InitNInv, NextNInv, PTL DEF MainSpec

-----------------------------------------------------------------------------
(* The command line.                                                       *)

\* What the argument loop has made of the line up to idx.
OptionWell(i) ==
    IF argv[i] = "--seed" THEN i < Len(argv) /\ Strtoll[argv[i + 1]].whole
    ELSE argv[i] \in DOMAIN Switches

Guards == {"hip_shared_safe_static_init", "hip_managed_safe_static_init"}
Given(S) == {Switches[argv[i]] : i \in S}
AskedOf(given) == (given \ Guards) \cup (Guards \ given)

Read == {i \in OptionAt : i < idx}
Reading == {"start", "parse"}
Made == GlobalPhases \cup {"first", "bodies", "finalize"}

\* idx is never the place of a seed's value.
AtOption == phase \in Reading => (idx - 1 \in OptionAt => argv[idx - 1] # "--seed")

ReadWell ==
    phase # "exit" =>
        /\ \A i \in Read : OptionWell(i)
        /\ options = AskedOf(Given(Read \ SeedAt))
        /\ phase \notin Reading => idx = Len(argv) + 1

SeedRead ==
    phase \notin {"start", "exit"} =>
        LET before == Read \cap SeedAt
        IN  IF before = {} THEN g_Seed \in ClockSeeds
            ELSE \E i \in before : (\A j \in before : j <= i) /\ g_Seed = SeedOf(argv[i + 1])

SeedUsed ==
    /\ phase \in Reading \cup {"create", "header"} => header = -1
    /\ phase = "header" => rng = g_Seed
    /\ phase \in Made => rng = g_Seed /\ header = g_Seed

Decided ==
    phase = "exit" => (status = 0 <=> WellFormed) /\ (header # -1 => options = Asked)

StartsAtOne == phase = "start" => idx = 1

LInv == MainTypeOK /\ StartsAtOne /\ AtOption /\ ReadWell /\ SeedRead /\ SeedUsed /\ Decided

\* Read from the left, every argument is an option or the value of --seed: there is a
\* set of options as OptionAt chooses it.
LEMMA OptionsExist ==
    ASSUME MainTypeOK
    PROVE  /\ OptionAt \subseteq 1..Len(argv)
           /\ \A i \in 1..Len(argv) : i \in OptionAt <=> ~(i - 1 \in OptionAt /\ argv[i - 1] = "--seed")
<1> DEFINE Splits(S, n) == \A i \in 1..n : i \in S <=> ~(i - 1 \in S /\ argv[i - 1] = "--seed")
           T == {n \in Nat : \E S \in SUBSET (1..n) : Splits(S, n)}
<1>1. 0 \in T
    <2>1. {} \in SUBSET (1..0) /\ Splits({}, 0) OBVIOUS
    <2> QED BY <2>1
<1>2. ASSUME NEW n \in Nat, n \in T PROVE n + 1 \in T
    <2>1. PICK S \in SUBSET (1..n) : Splits(S, n) BY <1>2
    <2>2. \A i \in S : i \in 1..n /\ i # n + 1 /\ i \in 1..(n + 1) OBVIOUS
    <2>3. \A i \in 1..(n + 1) : i \in 1..n \/ i = n + 1 OBVIOUS
    <2>4. \A i \in 1..(n + 1) : i - 1 # n + 1 OBVIOUS
    <2>5. n + 1 \in 1..(n + 1) /\ n + 1 - 1 = n OBVIOUS
    <2>6. CASE n \in S /\ argv[n] = "--seed"
        <3>1. S \in SUBSET (1..(n + 1)) BY <2>2
        <3>2. Splits(S, n + 1) BY <2>1, <2>2, <2>3, <2>5, <2>6
        <3> HIDE DEF Splits
        <3>3. \E D \in SUBSET (1..(n + 1)) : Splits(D, n + 1) BY <3>1, <3>2
        <3> QED BY <3>3
    <2>7. CASE ~(n \in S /\ argv[n] = "--seed")
        <3>1. S \cup {n + 1} \in SUBSET (1..(n + 1)) BY <2>2, <2>5
        <3>2. Splits(S \cup {n + 1}, n + 1) BY <2>1, <2>2, <2>3, <2>4, <2>5, <2>7
        <3> HIDE DEF Splits
        <3>3. \E D \in SUBSET (1..(n + 1)) : Splits(D, n + 1) BY <3>1, <3>2
        <3> QED BY <3>3
    <2> QED BY <2>6, <2>7
<1> HIDE DEF T
<1>3. Nat \subseteq T BY <1>1, <1>2, SetInduction
<1>4. Len(argv) \in T BY <1>3, LenProperties DEF MainTypeOK
<1>5. \E S \in SUBSET (1..Len(argv)) : Splits(S, Len(argv)) BY <1>4 DEF T
<1> QED BY <1>5 DEF OptionAt

LEMMA LineKept ==
    ASSUME argv' = argv
    PROVE  /\ OptionAt' = OptionAt /\ SeedAt' = SeedAt /\ (WellFormed' <=> WellFormed)
           /\ Asked' = Asked
<1>1. OptionAt' = OptionAt BY DEF OptionAt
<1>2. SeedAt' = SeedAt BY <1>1 DEF SeedAt
<1> QED BY <1>1, <1>2 DEF WellFormed, Asked

\* Only the switches for the two guards take an option away, and no switch is --seed.
LEMMA SwitchTypes ==
    /\ "--seed" \notin DOMAIN Switches
    /\ \A w \in DOMAIN Switches : Switches[w] \in Guards <=> w \in SwitchesOff
<1>1. \A t \in SwitchTable : t[1] # "--seed" /\ (t[2] \in Guards <=> t[1] \in SwitchesOff)
    BY DEF SwitchTable, Guards, SwitchesOff
<1>2. ASSUME NEW w \in DOMAIN Switches
      PROVE  \E t \in SwitchTable : t[1] = w /\ Switches[w] = t[2]
    <2>1. \E t \in SwitchTable : t[1] = w BY DEF Switches
    <2> DEFINE u == CHOOSE t \in SwitchTable : t[1] = w
    <2>2. u \in SwitchTable /\ u[1] = w BY <2>1
    <2>3. Switches[w] = u[2] BY DEF Switches
    <2> QED BY <2>2, <2>3
<1> QED BY <1>1, <1>2

\* The whole line has been read.
LEMMA AllRead ==
    ASSUME MainTypeOK, ReadWell, phase # "exit", idx = Len(argv) + 1
    PROVE  /\ Read = OptionAt /\ WellFormed /\ options = Asked
<1>1. Read = OptionAt
    <2>1. Len(argv) \in Nat BY LenProperties DEF MainTypeOK
    <2> QED BY <2>1, OptionsExist DEF Read
<1>2. \A i \in OptionAt : OptionWell(i) BY <1>1 DEF ReadWell
<1>3. WellFormed BY <1>2 DEF WellFormed, OptionWell, SeedAt
<1>4. options = Asked BY <1>1 DEF ReadWell, Asked, AskedOf, Given, Guards
<1> QED BY <1>1, <1>3, <1>4

LEMMA InitLInv == MainInit => LInv
<1> SUFFICES ASSUME MainInit PROVE LInv OBVIOUS
<1>1. MainTypeOK BY InitNInv DEF NInv
<1>2. phase = "start" /\ idx = 1 /\ header = -1 /\ options = {Switches[w] : w \in SwitchesOff}
    BY DEF MainInit
<1>3. AtOption BY <1>1, <1>2, OptionsExist DEF AtOption
<1>4. ReadWell
    <2>1. Read = {} BY <1>1, <1>2, OptionsExist, LenProperties DEF Read, MainTypeOK
    <2>2. options = Guards
        <3>1. \A w \in SwitchesOff : Switches[w] \in Guards BY OffKnown, SwitchTypes
        <3>2. \A t1, t2 \in SwitchTable :
                t1[1] \in SwitchesOff /\ t2[1] = t1[1] => t1[2] = t2[2]
            BY DEF SwitchTable, SwitchesOff
        <3>3. \A t \in SwitchTable : t[1] \in SwitchesOff => Switches[t[1]] = t[2]
            <4> SUFFICES ASSUME NEW t \in SwitchTable, t[1] \in SwitchesOff
                         PROVE  Switches[t[1]] = t[2]
                OBVIOUS
            <4> DEFINE u == CHOOSE x \in SwitchTable : x[1] = t[1]
            <4>1. u \in SwitchTable /\ u[1] = t[1] OBVIOUS
            <4>2. Switches[t[1]] = u[2] BY DEF Switches
            <4> HIDE DEF u
            <4> QED BY <3>2, <4>1, <4>2
        <3>4. \A g \in Guards : \E t \in SwitchTable : t[2] = g /\ t[1] \in SwitchesOff
            <4>1. <<"--no-hip-shared-safe-static-init", "hip_shared_safe_static_init">> \in SwitchTable
                  /\ <<"--no-hip-managed-safe-static-init", "hip_managed_safe_static_init">> \in SwitchTable
                BY DEF SwitchTable
            <4> QED BY <4>1 DEF Guards, SwitchesOff
        <3>5. \A g \in Guards : g \in options BY <1>2, <3>3, <3>4
        <3> QED BY <1>2, <3>1, <3>5
    <2>3. Given(Read \ SeedAt) = {} BY <2>1 DEF Given
    <2> QED BY <1>2, <2>1, <2>2, <2>3 DEF ReadWell, AskedOf, Reading
<1>5. SeedRead /\ SeedUsed /\ Decided
    BY <1>2 DEF SeedRead, SeedUsed, Decided, Reading, Made, GlobalPhases
<1> QED BY <1>1, <1>2, <1>3, <1>4, <1>5 DEF LInv, StartsAtOne

\* Nothing of the line or the seeds changes, and main goes from one stage to another.
LEMMA StageStep ==
    ASSUME LInv, MainTypeOK', UNCHANGED <<argv, idx, options, g_Seed>>,
           phase \notin {"start", "exit"}, phase' \notin {"start", "parse", "exit"},
           phase = "parse" => idx = Len(argv) + 1,
           SeedUsed'
    PROVE  LInv'
<1>1. OptionAt' = OptionAt /\ SeedAt' = SeedAt BY LineKept
<1>2. Read' = Read BY <1>1 DEF Read
<1>3. AtOption' BY DEF AtOption, Reading
<1>4. ReadWell' BY <1>1, <1>2 DEF LInv, ReadWell, OptionWell, AskedOf, Given, Reading
<1>5. SeedRead' BY <1>1, <1>2 DEF LInv, SeedRead
<1>6. Decided' BY DEF Decided
<1> QED BY <1>3, <1>4, <1>5, <1>6 DEF LInv, StartsAtOne

LEMMA StartLInv == LInv /\ MainTypeOK' /\ Start => LInv'
<1> SUFFICES ASSUME LInv, MainTypeOK', Start PROVE LInv' OBVIOUS
<1>1. /\ phase = "start" /\ phase' = "parse" /\ g_Seed' \in ClockSeeds
      /\ UNCHANGED <<argv, idx, options, rng, header>>
    BY DEF Start
<1>2. OptionAt' = OptionAt /\ SeedAt' = SeedAt BY <1>1, LineKept
<1>3. Read' = Read BY <1>1, <1>2 DEF Read
<1>4. AtOption' BY <1>1, <1>2 DEF LInv, AtOption, Reading
<1>5. ReadWell' BY <1>1, <1>2, <1>3 DEF LInv, ReadWell, OptionWell, AskedOf, Given, Reading
<1>6. SeedRead'
    <2>1. Read = {}
        <3>1. idx = 1 BY <1>1 DEF LInv, StartsAtOne
        <3> QED BY <3>1, OptionsExist, LenProperties DEF Read, LInv, MainTypeOK
    <2> QED BY <1>1, <1>3, <2>1 DEF SeedRead
<1>7. SeedUsed' BY <1>1 DEF LInv, SeedUsed, Reading, Made, GlobalPhases
<1>8. Decided' /\ StartsAtOne' BY <1>1 DEF Decided, StartsAtOne
<1> QED BY <1>4, <1>5, <1>6, <1>7, <1>8 DEF LInv

\* One more argument is read: what the step does to the options read so far.
LEMMA ReadOne ==
    ASSUME MainTypeOK, argv' = argv, AtOption, phase = "parse", idx <= Len(argv),
           idx' \in {idx + 1, idx + 2}, idx' = idx + 2 => argv[idx] = "--seed",
           idx' = idx + 1 => argv[idx] # "--seed"
    PROVE  /\ idx \in OptionAt /\ idx \in 1..Len(argv)
           /\ Read' = Read \cup {idx} /\ idx \notin Read
           /\ idx' - 1 \in OptionAt => argv[idx' - 1] # "--seed"
<1>0. idx \in Nat /\ idx >= 1 /\ Len(argv) \in Nat BY LenProperties DEF MainTypeOK
<1>1. OptionAt' = OptionAt /\ OptionAt \subseteq 1..Len(argv) BY LineKept, OptionsExist
<1>2. idx \in OptionAt BY <1>0, OptionsExist DEF AtOption, Reading
<1>3. CASE idx' = idx + 1
    <2>1. \A i \in OptionAt : i < idx' <=> i < idx \/ i = idx BY <1>0, <1>1, <1>3
    <2>2. idx' - 1 = idx BY <1>0, <1>3
    <2>3. Read' = Read \cup {idx} BY <1>1, <1>2, <2>1 DEF Read
    <2> QED BY <1>0, <1>2, <1>3, <2>2, <2>3 DEF Read
<1>4. CASE idx' = idx + 2
    <2>1. idx + 1 \notin OptionAt
        <3>1. idx + 1 - 1 = idx BY <1>0
        <3> QED BY <1>0, <1>1, <1>2, <1>4, <3>1, OptionsExist
    <2>2. \A i \in OptionAt : i < idx' <=> i < idx \/ i = idx BY <1>0, <1>1, <1>4, <2>1
    <2>3. idx' - 1 = idx + 1 BY <1>0, <1>4
    <2>4. Read' = Read \cup {idx} BY <1>1, <1>2, <2>2 DEF Read
    <2> QED BY <1>0, <1>2, <2>1, <2>3, <2>4 DEF Read
<1> QED BY <1>3, <1>4

LEMMA SwitchLInv == LInv /\ MainTypeOK' /\ ParseSwitch => LInv'
<1> SUFFICES ASSUME LInv, MainTypeOK', ParseSwitch PROVE LInv' OBVIOUS
<1>1. /\ phase = "parse" /\ phase' = "parse" /\ idx <= Len(argv) /\ idx' = idx + 1
      /\ UNCHANGED <<argv, g_Seed, rng, header>>
      /\ argv[idx] \in DOMAIN Switches
      /\ options' = IF argv[idx] \in SwitchesOff THEN options \ {Switches[argv[idx]]}
                    ELSE options \cup {Switches[argv[idx]]}
    BY DEF ParseSwitch, Parsing
<1>2. OptionAt' = OptionAt /\ SeedAt' = SeedAt BY <1>1, LineKept
<1>3. argv[idx] # "--seed" BY <1>1, SwitchTypes
<1>4. idx + 1 # idx + 2 BY DEF LInv, MainTypeOK
<1>5. /\ idx \in OptionAt /\ Read' = Read \cup {idx}
      /\ idx' - 1 \in OptionAt => argv[idx' - 1] # "--seed"
    BY <1>1, <1>3, <1>4, ReadOne DEF LInv
<1>6. AtOption' BY <1>1, <1>2, <1>5 DEF AtOption
<1>7. idx \notin SeedAt BY <1>3 DEF SeedAt
<1>8. ReadWell'
    <2> DEFINE w == argv[idx]
               given == Given(Read \ SeedAt)
    <2>1. Given(Read' \ SeedAt) = given \cup {Switches[w]} BY <1>5, <1>7 DEF Given
    <2>2. options = AskedOf(given) BY <1>1 DEF LInv, ReadWell
    <2>3. Switches[w] \in Guards <=> w \in SwitchesOff BY <1>1, SwitchTypes
    <2>4. options' = IF w \in SwitchesOff THEN options \ {Switches[w]} ELSE options \cup {Switches[w]}
        BY <1>1
    <2> HIDE DEF w, given
    <2>5. options' = AskedOf(given \cup {Switches[w]})
        <3>1. CASE w \in SwitchesOff BY <2>2, <2>3, <2>4, <3>1 DEF AskedOf
        <3>2. CASE w \notin SwitchesOff BY <2>2, <2>3, <2>4, <3>2 DEF AskedOf
        <3> QED BY <3>1, <3>2
    <2>6. \A i \in Read' : OptionWell(i) BY <1>1, <1>3, <1>5 DEF LInv, ReadWell, OptionWell
    <2> QED BY <1>1, <1>2, <2>1, <2>5, <2>6 DEF ReadWell, OptionWell, AskedOf, Given, Reading
<1>9. SeedRead'
    <2>1. Read' \cap SeedAt = Read \cap SeedAt BY <1>5, <1>7
    <2> QED BY <1>1, <1>2, <2>1 DEF LInv, SeedRead
<1>10. SeedUsed' /\ Decided' /\ StartsAtOne'
    BY <1>1 DEF LInv, SeedUsed, Decided, StartsAtOne, Reading, Made, GlobalPhases
<1> QED BY <1>6, <1>8, <1>9, <1>10 DEF LInv

\* main returns -1: the line is not well-formed.
LEMMA Refused ==
    ASSUME LInv, MainTypeOK', argv' = argv, header' = header, phase = "parse", phase' = "exit",
           status' = -1, ~WellFormed
    PROVE  LInv'
<1>1. WellFormed' <=> WellFormed BY LineKept
<1>2. AtOption' /\ ReadWell' /\ SeedRead' /\ StartsAtOne'
    BY DEF AtOption, ReadWell, SeedRead, StartsAtOne, Reading
<1>3. SeedUsed' BY DEF SeedUsed, Reading, Made, GlobalPhases
<1>4. header' = -1 BY DEF LInv, SeedUsed, Reading
<1>5. Decided' BY <1>1, <1>4 DEF Decided
<1> QED BY <1>2, <1>3, <1>5 DEF LInv

LEMMA SeedLInv == LInv /\ MainTypeOK' /\ ParseSeed => LInv'
<1> SUFFICES ASSUME LInv, MainTypeOK', ParseSeed PROVE LInv' OBVIOUS
<1>1. /\ phase = "parse" /\ idx < Len(argv) /\ argv[idx] = "--seed"
      /\ g_Seed' = SeedOf(argv[idx + 1])
      /\ UNCHANGED <<argv, options, rng, header>>
    BY DEF ParseSeed, Parsing
<1>2. idx \in Nat /\ Len(argv) \in Nat /\ idx <= Len(argv) BY <1>1, LenProperties DEF LInv, MainTypeOK
<1>3. idx \in OptionAt
    BY <1>1, <1>2, OptionsExist DEF LInv, MainTypeOK, AtOption, Reading
<1>4. idx \in SeedAt BY <1>1, <1>3 DEF SeedAt
<1>5. CASE ~SeedAccepted(argv[idx + 1])
    <2>1. ~WellFormed BY <1>4, <1>5 DEF WellFormed, SeedAccepted
    <2> QED BY <1>1, <1>5, <2>1, Refused DEF ParseSeed, Exit
<1>6. CASE SeedAccepted(argv[idx + 1])
    <2>1. idx' = idx + 2 /\ phase' = "parse" BY <1>1, <1>6 DEF ParseSeed, SeedWords
    <2>2. OptionAt' = OptionAt /\ SeedAt' = SeedAt BY <1>1, LineKept
    <2>3. idx + 1 # idx + 2 BY <1>2
    <2>4. /\ Read' = Read \cup {idx}
          /\ idx' - 1 \in OptionAt => argv[idx' - 1] # "--seed"
        BY <1>1, <1>2, <2>1, <2>3, ReadOne DEF LInv
    <2>5. AtOption' BY <1>1, <2>2, <2>4 DEF AtOption
    <2>6. ReadWell'
        <3>1. Read' \ SeedAt = Read \ SeedAt BY <1>4, <2>4
        <3>2. OptionWell(idx) BY <1>1, <1>6 DEF OptionWell, SeedAccepted
        <3>3. \A i \in Read' : OptionWell(i) BY <1>1, <2>4, <3>2 DEF LInv, ReadWell
        <3> QED BY <1>1, <2>1, <2>2, <3>1, <3>3
                DEF LInv, ReadWell, OptionWell, AskedOf, Given, Reading
    <2>7. SeedRead'
        <3>1. idx \in Read' \cap SeedAt BY <1>4, <2>4
        <3>2. \A j \in Read' : j <= idx
            <4>1. \A j \in Read : j \in Nat /\ j < idx
                BY <1>2, OptionsExist DEF LInv, Read
            <4> QED BY <1>2, <2>4, <4>1
        <3> QED BY <1>1, <2>2, <3>1, <3>2 DEF SeedRead
    <2>8. SeedUsed' /\ Decided' /\ StartsAtOne'
        BY <1>1, <2>1 DEF LInv, SeedUsed, Decided, StartsAtOne, Reading, Made, GlobalPhases
    <2> QED BY <2>5, <2>6, <2>7, <2>8 DEF LInv
<1> QED BY <1>5, <1>6

LEMMA RefuseLInv == LInv /\ MainTypeOK' /\ RefuseArgument => LInv'
<1> SUFFICES ASSUME LInv, MainTypeOK', RefuseArgument PROVE LInv' OBVIOUS
<1>1. /\ phase = "parse" /\ idx <= Len(argv) /\ argv[idx] \notin DOMAIN Switches
      /\ argv[idx] = "--seed" => idx = Len(argv)
      /\ UNCHANGED <<argv, header>> /\ phase' = "exit" /\ status' = -1
    BY DEF RefuseArgument, Parsing, Exit
<1>2. idx \in Nat /\ Len(argv) \in Nat BY LenProperties DEF LInv, MainTypeOK
<1>3. idx \in OptionAt
    BY <1>1, <1>2, OptionsExist DEF LInv, MainTypeOK, AtOption, Reading
<1>4. ~WellFormed
    <2>1. CASE argv[idx] = "--seed" BY <1>1, <1>2, <1>3, <2>1 DEF WellFormed, SeedAt
    <2>2. CASE argv[idx] # "--seed" BY <1>1, <1>3, <2>2 DEF WellFormed, SeedAt
    <2> QED BY <2>1, <2>2
<1> QED BY <1>1, <1>4, Refused

\* delete generator, return 0
LEMMA FinalizeLInv == LInv /\ MainTypeOK' /\ Finalize => LInv'
<1> SUFFICES ASSUME LInv, MainTypeOK', Finalize PROVE LInv' OBVIOUS
<1>1. /\ phase = "finalize" /\ phase' = "exit" /\ status' = 0
      /\ UNCHANGED <<argv, idx, options, header>>
    BY DEF Finalize, Exit
<1>2. WellFormed /\ options = Asked BY <1>1, AllRead DEF LInv, ReadWell, Reading
<1>3. (WellFormed' <=> WellFormed) /\ Asked' = Asked BY <1>1, LineKept
<1>4. Decided' BY <1>1, <1>2, <1>3 DEF Decided
<1>5. AtOption' /\ ReadWell' /\ SeedRead' /\ StartsAtOne'
    BY <1>1 DEF AtOption, ReadWell, SeedRead, StartsAtOne, Reading
<1>6. SeedUsed' BY <1>1 DEF SeedUsed, Reading, Made, GlobalPhases
<1> QED BY <1>4, <1>5, <1>6 DEF LInv

LEMMA NextLInv == LInv /\ [MainNext]_mvars => LInv'
<1> SUFFICES ASSUME LInv, [MainNext]_mvars PROVE LInv' OBVIOUS
<1>0. MainTypeOK /\ MainTypeOK' BY TypeStep DEF LInv
<1>1. CASE Start BY <1>0, <1>1, StartLInv
<1>2. CASE ParseSwitch BY <1>0, <1>2, SwitchLInv
<1>3. CASE ParseSeed BY <1>0, <1>3, SeedLInv
<1>4. CASE RefuseArgument BY <1>0, <1>4, RefuseLInv
<1>5. CASE EndParsing
    <2>1. idx = Len(argv) + 1 BY <1>0, <1>5, LenProperties DEF EndParsing, MainTypeOK
    <2>2. SeedUsed' BY <1>5 DEF EndParsing, LInv, SeedUsed, Reading, Made, GlobalPhases
    <2> QED BY <1>0, <1>5, <2>1, <2>2, StageStep DEF EndParsing
<1>6. CASE CreateInstance
    <2>1. SeedUsed' BY <1>6 DEF CreateInstance, LInv, SeedUsed, Reading, Made, GlobalPhases
    <2> QED BY <1>0, <1>6, <2>1, StageStep DEF CreateInstance
<1>7. CASE OutputHeader
    <2>1. SeedUsed' BY <1>7 DEF OutputHeader, LInv, SeedUsed, Reading, Made, GlobalPhases
    <2> QED BY <1>0, <1>7, <2>1, StageStep DEF OutputHeader
<1>8. ASSUME phase \in Made, phase' \in Made, UNCHANGED <<argv, idx, options, g_Seed, rng, header>>
      PROVE  LInv'
    <2>1. SeedUsed' BY <1>8 DEF LInv, SeedUsed, Reading, Made, GlobalPhases
    <2> QED BY <1>0, <1>8, <2>1, StageStep DEF Made, GlobalPhases
<1>9. CASE GenerateHIPGlobal BY <1>8, <1>9 DEF GenerateHIPGlobal, Made
<1>10. CASE FinishKind
    <2>1. phase' \in Made BY <1>10 DEF FinishKind, AfterKind, Made, GlobalPhases
    <2> QED BY <1>8, <1>10, <2>1 DEF FinishKind, Made
<1>11. CASE MakeFirst BY <1>8, <1>11 DEF MakeFirst, Made
<1>12. CASE MakeName BY <1>8, <1>12 DEF MakeName, Made
<1>13. CASE Output BY <1>8, <1>13 DEF Output, Made
<1>14. CASE Finalize BY <1>0, <1>14, FinalizeLInv
<1>15. CASE UNCHANGED mvars
    <2>1. UNCHANGED <<argv, phase, idx, options, g_Seed, rng, header, status>> BY <1>15 DEF mvars
    <2>2. OptionAt' = OptionAt /\ SeedAt' = SeedAt /\ (WellFormed' <=> WellFormed) /\ Asked' = Asked
        BY <2>1, LineKept
    <2>3. Read' = Read BY <2>1, <2>2 DEF Read
    <2>4. AtOption' /\ StartsAtOne' BY <2>1, <2>2 DEF LInv, AtOption, StartsAtOne
    <2>5. ReadWell' BY <2>1, <2>2, <2>3 DEF LInv, ReadWell, OptionWell, AskedOf, Given
    <2>6. SeedRead' BY <2>1, <2>2, <2>3 DEF LInv, SeedRead
    <2>7. SeedUsed' BY <2>1 DEF LInv, SeedUsed
    <2>8. Decided' BY <2>1, <2>2 DEF LInv, Decided
    <2> QED BY <1>0, <2>4, <2>5, <2>6, <2>7, <2>8 DEF LInv
<1> QED
    BY <1>1, <1>2, <1>3, <1>4, <1>5, <1>6, <1>7, <1>9, <1>10, <1>11, <1>12, <1>13, <1>14,
       <1>15 DEF MainNext

\* strtoll's number, as the 64 bits of an unsigned long.
LEMMA SeedWraps ==
    ASSUME NEW w \in Words
    PROVE  \E k \in {0, 1} : SeedOf(w) = Strtoll[w].value + k * 2^Width
<1>1. PICK h \in Nat \ {0} : 2^(Width - 1) = h /\ 2^Width = 2 * h BY PowerHalves
<1>2. Strtoll[w].value \in -(2^(Width - 1))..2^(Width - 1) - 1
    BY MainAssumption DEF MainAssumption
<1>3. PICK v \in -h..h - 1 : v = Strtoll[w].value BY <1>1, <1>2
<1>4. v % (2 * h) = IF v >= 0 THEN v ELSE v + 2 * h
    <2>1. \A m \in Nat \ {0} : \A x \in 0..m - 1 : x % m = x /\ (x - m) % m = x OBVIOUS
    <2>2. CASE v >= 0 BY <2>1, <2>2
    <2>3. CASE v < 0
        <3>1. v + 2 * h \in 0..2 * h - 1 /\ v + 2 * h - 2 * h = v BY <2>3
        <3> QED BY <2>1, <2>3, <3>1
    <2> QED BY <2>2, <2>3
<1>5. SeedOf(w) = v % (2 * h) BY <1>1, <1>3 DEF SeedOf
<1>6. CASE v >= 0
    <2>1. SeedOf(w) = v + 0 * (2 * h) BY <1>4, <1>5, <1>6
    <2> QED BY <1>1, <1>3, <2>1
<1>7. CASE v < 0
    <2>1. SeedOf(w) = v + 1 * (2 * h) BY <1>4, <1>5, <1>7
    <2> QED BY <1>1, <1>3, <2>1
<1> QED BY <1>6, <1>7

\* While main has read no argument, small is off: the settings are made before that.
CInv == MainTypeOK /\ (phase = "start" => "small" \notin options) /\ SettingsOfMain

LEMMA InitCInv == MainInit => CInv
<1> SUFFICES ASSUME MainInit PROVE CInv OBVIOUS
<1>1. MainTypeOK BY InitNInv DEF NInv
<1>2. "small" \notin options
    <2>1. \A w \in SwitchesOff : Switches[w] \in Guards BY OffKnown, SwitchTypes
    <2> QED BY <2>1 DEF MainInit, Guards
<1> QED BY <1>1, <1>2 DEF CInv, MainInit, SettingsOfMain

LEMMA NextCInv == CInv /\ [MainNext]_mvars => CInv'
<1> SUFFICES ASSUME CInv, [MainNext]_mvars PROVE CInv' OBVIOUS
<1>1. MainTypeOK' BY TypeStep DEF CInv
<1>2. CASE Start
    <2>1. "small" \notin options BY <1>2 DEF CInv, Start
    <2>2. phase' # "start" BY <1>2 DEF Start
    <2>3. SettingsOfMain' BY <1>2, <2>1 DEF Start, ResolveCGOptions, DefaultSettings, SettingsOfMain
    <2> QED BY <1>1, <2>2, <2>3 DEF CInv
<1>3. CASE MainNext /\ ~Start
    <2>1. phase # "start" /\ phase' # "start" /\ cg' = cg
        BY <1>3 DEF MainNext, ParseSwitch, ParseSeed, Parsing, RefuseArgument, EndParsing, Exit,
            CreateInstance, OutputHeader, GenerateHIPGlobal, FinishKind, MakeFirst, MakeName,
            Output, Finalize, GlobalPhases, AfterKind
    <2> QED BY <1>1, <2>1 DEF CInv, SettingsOfMain
<1>4. CASE UNCHANGED mvars BY <1>1, <1>4 DEF CInv, SettingsOfMain, mvars
<1> QED BY <1>2, <1>3, <1>4

\* For every command line and every meaning of its words: the process writes a program
\* exactly when the line is well-formed, with the members of HIPOptions the line asks for,
\* the seed it prints is the one it generates with, the last of the line, and the settings
\* of CGOptions are the same for every line, --small among its words or not (main, 18-129).
THEOREM LineObeyedHolds == MainSpec => []LineObeyed
<1>1. MainInit => LInv BY InitLInv
<1>2. LInv /\ [MainNext]_mvars => LInv' BY NextLInv
<1>3. LInv => LineDecides /\ SeedAsGiven
    <2> SUFFICES ASSUME LInv PROVE LineDecides /\ SeedAsGiven OBVIOUS
    <2>1. LineDecides
        <3>1. phase = "exit" => (status = 0 <=> WellFormed) /\ (header # -1 => options = Asked)
            BY DEF LInv, Decided
        <3>2. ASSUME phase # "exit", header # -1 PROVE options = Asked
            <4>1. phase \notin Reading BY <3>2 DEF LInv, SeedUsed
            <4> QED BY <3>2, <4>1, AllRead DEF LInv, ReadWell
        <3> QED BY <3>1, <3>2 DEF LineDecides
    <2>2. SeedAsGiven
        <3> SUFFICES ASSUME phase \in {"first", "bodies", "finalize"}
                     PROVE  /\ header = rng
                            /\ IF SeedAt = {} THEN rng \in ClockSeeds
                               ELSE \E i \in SeedAt :
                                       /\ \A j \in SeedAt : j <= i
                                       /\ \E k \in {0, 1} : rng = Strtoll[argv[i + 1]].value + k * 2^Width
            BY DEF SeedAsGiven
        <3>1. header = g_Seed /\ rng = g_Seed BY DEF LInv, SeedUsed, Made
        <3>2. phase # "exit" /\ idx = Len(argv) + 1 BY DEF LInv, ReadWell, Reading
        <3>3. Read = OptionAt /\ WellFormed BY <3>2, AllRead DEF LInv
        <3>4. Read \cap SeedAt = SeedAt BY <3>3 DEF SeedAt
        <3>5. CASE SeedAt = {} BY <3>1, <3>2, <3>4, <3>5 DEF LInv, SeedRead
        <3>6. CASE SeedAt # {}
            <4>1. PICK i \in SeedAt : (\A j \in SeedAt : j <= i) /\ g_Seed = SeedOf(argv[i + 1])
                BY <3>2, <3>4, <3>6 DEF LInv, SeedRead
            <4>2. argv[i + 1] \in Words
                <5>1. i \in 1..Len(argv) /\ i < Len(argv)
                    BY <3>3, OptionsExist DEF LInv, SeedAt, WellFormed
                <5>2. i + 1 \in 1..Len(argv) BY <5>1, LenProperties DEF LInv, MainTypeOK
                <5> QED BY <5>2, ElementOfSeq DEF LInv, MainTypeOK
            <4> QED BY <3>1, <3>6, <4>1, <4>2, SeedWraps
        <3> QED BY <3>1, <3>5, <3>6
    <2> QED BY <2>1, <2>2
<1>4. MainInit => CInv BY InitCInv
<1>5. CInv /\ [MainNext]_mvars => CInv' BY NextCInv
<1>6. LineDecides /\ SeedAsGiven /\ CInv => LineObeyed BY DEF CInv, LineObeyed
<1> QED BY <1>1, <1>2, <1>3, <1>4, <1>5, <1>6, PTL DEF MainSpec
==============================================================================
