------------------------------ MODULE HIPKernel ------------------------------
(***************************************************************************)
(* A program that HIPSmith has generated, running: the host main of        *)
(* HIP-driver.cpp and the threads of hipsmith_kernel, both written by      *)
(* HIPOutputMgr::OutputEntryFunction, and the memory spaces that the HIP   *)
(* options add to the kernel's globals.                                    *)
(*                                                                         *)
(* The body of func_1 is a sequence of accesses, one kind for each memory  *)
(* space, of barriers and of branches on threadIdx.  Its values are        *)
(* abstracted to increments modulo a power of two, which is enough to tell *)
(* a lost update or an uninitialised read from the value that the program  *)
(* text determines.  transparent_crc is, as in HIPSmith.h, a sum.          *)
(***************************************************************************)
EXTENDS Integers, Sequences

CONSTANTS
    FlagSets,   \* option sets the generator may be started with
    Argc,       \* argc of the generated program's main
    Programs,   \* bodies of func_1: sequences of Kinds
    Modulus     \* bound: 2^w, the number of values of a variable and of the CRC

Options == {"hip_consts", "hip_shared", "hip_managed", "hip_device",
            "hip_builtins", "hip_sync", "hip_warp", "hip_warp_match",
            "hip_warp_shuffle", "hip_warp_reduce", "hip_atomic"}

Kinds == {"global", "const", "shared", "managed", "device", "branch", "barrier"}

\* The generator puts an access in the program only under its option.
OptionOf(k) ==
    CASE k = "const"   -> {"hip_consts"}
      [] k = "shared"  -> {"hip_shared"}
      [] k = "managed" -> {"hip_managed"}
      [] k = "device"  -> {"hip_device"}
      [] k = "branch"  -> {"hip_builtins"}
      [] k = "barrier" -> {"hip_sync"}
      [] OTHER         -> {}

ASSUME KernelAssumption ==
    /\ FlagSets \subseteq SUBSET Options
    /\ Argc \in Nat \ {0}
    /\ Programs \subseteq Seq(Kinds)
    /\ Modulus \in Nat \ {0, 1}

VARIABLES
    flags,      \* HIPOptions
    program,    \* the generated func_1
    host,       \* where main is
    mem,        \* [Place -> value]
    pc,         \* per thread: index into program; then hash, store, exit
    stage,      \* per thread: progress inside one access
    reg,        \* per thread: the value loaded
    crc,        \* per thread: crc64_context
    results,    \* d_results
    h_results,  \* h_results
    printed,    \* CRC lines on stdout
    touched     \* threads that accessed each place (history)

generated == <<flags, program>>
thread == <<pc, stage, reg, crc>>
vars == <<flags, program, host, mem, pc, stage, reg, crc, results, h_results,
          printed, touched>>

InitValue == 1
Value == 0..(Modulus - 1)
Up(v) == (v + 1) % Modulus

-----------------------------------------------------------------------------

\* Options under which the driver takes num_threads from argc.
ThreadOptions == Options \ {"hip_consts", "hip_shared"}
\* ... and block_size.
BlockOptions == ThreadOptions \cup {"hip_shared"}

\* Mutant of NumThreads: hip_device is not in the condition.
NumThreads_NoDevice ==
    IF flags \cap (ThreadOptions \ {"hip_device"}) # {} THEN Argc ELSE 4

NumThreads == IF flags \cap ThreadOptions # {} THEN Argc ELSE 4

\* Mutant of BlockSize: the options that add control flow are forgotten.
BlockSize_NoControl ==
    IF flags \cap (BlockOptions \ {"hip_builtins", "hip_sync"}) # {} THEN Argc ELSE 4

BlockSize == IF flags \cap BlockOptions # {} THEN Argc ELSE 4

\* Mutant of GridSize: rounded up once too often.
GridSize_OneMore == NumThreads \div BlockSize + 1

GridSize == (NumThreads + BlockSize - 1) \div BlockSize

\* One index per launched thread: threadIdx.x + blockIdx.x * blockDim.x.
Thread == 0..(GridSize * BlockSize - 1)
blockIdx(t) == t \div BlockSize
threadIdx(t) == t % BlockSize

\* Mutant of tid: the block is forgotten.
tid_InBlock(t) == threadIdx(t)

tid(t) == threadIdx(t) + blockIdx(t) * BlockSize

\* Where an access of thread t goes: the struct of globals is a local of each
\* thread, __shared__ memory belongs to a block, the rest to the device.
Place(k, t) ==
    CASE k = "global" -> <<k, t>>
      [] k = "shared" -> <<k, blockIdx(t)>>
      [] OTHER        -> <<k, 0>>

Stored == {"global", "shared", "managed", "device"}
Places == {Place(k, t) : k \in Stored \cup {"const"}, t \in Thread}

\* HashGlobalVariables: the members of GlobalList, per memory space.
Hashed == {"global"} \cup
          {k \in {"const", "managed", "device"} : OptionOf(k) \subseteq flags}
HashOf(value) ==
    LET term(k) == IF k \in Hashed THEN value[k] ELSE 0
    IN  term("global") + term("const") + term("managed") + term("device")

\* Mutant of ResultOf: the complement is taken in a wider type.
ResultOf_NoWrap(sum) == Modulus - (sum % Modulus)

\* results[tid] = crc64_context ^ 0xFF..F, where the context starts at 0xFF..F.
ResultOf(sum) == (Modulus - (sum % Modulus)) % Modulus

\* A thread run on its own: its sum, its variables, and whether the next statement is
\* one it skips.
Begin == [sum |-> 0, skip |-> FALSE, val |-> [k \in Kinds |-> InitValue]]

Access(s, k) ==
    [s EXCEPT !.sum = @ + s.val[k], !.val[k] = IF k = "const" THEN @ ELSE Up(@)]

\* One statement of kind k, for the thread with threadIdx 0 or for another one.
Statement(s, k, first) ==
    IF s.skip THEN [s EXCEPT !.skip = FALSE] ELSE
    CASE k = "barrier" -> s
      [] k = "branch"  -> [s EXCEPT !.skip = ~first]
      [] k = "shared"  -> Access([s EXCEPT !.val[k] = InitValue], k)
      [] OTHER         -> Access(s, k)

Run(body, first) ==
    LET run[i \in 0..Len(body)] ==
            IF i = 0 THEN Begin ELSE Statement(run[i - 1], body[i], first)
    IN  run

\* What the program text determines for thread t.
Expected(t) ==
    LET end == Run(program, threadIdx(t) = 0)[Len(program)]
    IN  ResultOf(end.sum + HashOf(end.val))

-----------------------------------------------------------------------------

TypeOK ==
    /\ flags \in FlagSets /\ program \in Programs
    /\ host \in {"setup", "alloc", "launch", "sync", "copy", "print", "done", "failed"}
    /\ mem \in [Places -> Value]
    /\ pc \in [Thread -> 0..(Len(program) + 3)]
    /\ stage \in [Thread -> {"start", "ready", "loaded"}]
    /\ reg \in [Thread -> Value]
    /\ crc \in [Thread -> Nat]
    /\ results \in [0..(NumThreads - 1) -> Value]
    /\ h_results \in [0..(NumThreads - 1) -> Value]
    /\ printed \in Seq(Value)
    /\ touched \in [Places -> SUBSET Thread]

\* A managed variable carries its initialiser; __constant__ and __device__
\* variables are defined as `= {}', and the struct of globals does not exist yet.
Init ==
    /\ flags \in FlagSets
    /\ program \in {p \in Programs : \A i \in 1..Len(p) : OptionOf(p[i]) \subseteq flags}
    /\ host = "setup"
    /\ mem = [p \in Places |-> IF p[1] = "managed" THEN InitValue % Modulus ELSE 0]
    /\ pc = [t \in Thread |-> 0]
    /\ stage = [t \in Thread |-> "start"]
    /\ reg = [t \in Thread |-> 0]
    /\ crc = [t \in Thread |-> 0]
    /\ results = [i \in 0..(NumThreads - 1) |-> 0]
    /\ h_results = [i \in 0..(NumThreads - 1) |-> 0]
    /\ printed = << >>
    /\ touched = [p \in Places |-> {}]

\* Mutant of SetupHipGlobals: only the constants are copied.
SetupHipGlobals_ConstOnly ==
    /\ host = "setup"
    /\ mem' = [p \in Places |-> IF p[1] = "const"
                                THEN InitValue % Modulus ELSE mem[p]]
    /\ host' = "alloc"
    /\ UNCHANGED <<generated, thread, results, h_results, printed, touched>>

\* setup_hip_globals copies the initialisers of both kinds of variable.  A
\* variable exists only under its option; writing the others changes nothing.
SetupHipGlobals ==
    /\ host = "setup"
    /\ mem' = [p \in Places |-> IF p[1] \in {"const", "device"}
                                THEN InitValue % Modulus ELSE mem[p]]
    /\ host' = "alloc"
    /\ UNCHANGED <<generated, thread, results, h_results, printed, touched>>

\* hipMalloc and hipMemset of d_results.
DeviceAlloc ==
    /\ host = "alloc"
    /\ results' = [i \in 0..(NumThreads - 1) |-> 0]
    /\ host' = "launch"
    /\ UNCHANGED <<generated, mem, thread, h_results, printed, touched>>

Launch ==
    /\ host = "launch"
    /\ host' = "sync"
    /\ UNCHANGED <<generated, mem, thread, results, h_results, printed, touched>>

Exited(t) == pc[t] = Len(program) + 3

\* hipDeviceSynchronize returns when the kernel is finished.
DeviceSynchronize ==
    /\ host = "sync"
    /\ \A t \in Thread : Exited(t)
    /\ host' = "copy"
    /\ UNCHANGED <<generated, mem, thread, results, h_results, printed, touched>>

CopyBack ==
    /\ host = "copy"
    /\ h_results' = results
    /\ host' = "print"
    /\ UNCHANGED <<generated, mem, thread, results, printed, touched>>

\* One turn of the output loop over h_results.
PrintLine ==
    /\ host = "print"
    /\ Len(printed) < NumThreads
    /\ printed' = Append(printed, h_results[Len(printed)])
    /\ UNCHANGED <<generated, host, mem, thread, results, h_results, touched>>

Return ==
    /\ host = "print"
    /\ Len(printed) = NumThreads
    /\ host' = "done"
    /\ UNCHANGED <<generated, mem, thread, results, h_results, printed, touched>>

\* HIP_CHECK: a failing call ends the program.
HipCheckFails ==
    /\ host \in {"setup", "alloc", "sync", "copy"}
    /\ host' = "failed"
    /\ UNCHANGED <<generated, mem, thread, results, h_results, printed, touched>>

-----------------------------------------------------------------------------

\* The kernel runs from its launch until the host has seen it end.
Running(t) == host = "sync" /\ t \in Thread

Touch(t, p) == touched' = [touched EXCEPT ![p] = @ \cup {t}]

\* OutputStructInit: each thread builds its own struct of globals.
InitGlobals(t) ==
    /\ Running(t) /\ pc[t] = 0
    /\ mem' = [mem EXCEPT ![Place("global", t)] = InitValue % Modulus]
    /\ Touch(t, Place("global", t))
    /\ pc' = [pc EXCEPT ![t] = 1]
    /\ UNCHANGED <<generated, host, stage, reg, crc, results, h_results, printed>>

AtOp(t, K) == Running(t) /\ pc[t] \in 1..Len(program) /\ program[pc[t]] \in K

\* Variable::OutputDef: a __shared__ variable is assigned on the next line.
InitShared(t) ==
    /\ AtOp(t, {"shared"}) /\ stage[t] = "start"
    /\ mem' = [mem EXCEPT ![Place("shared", t)] = InitValue % Modulus]
    /\ Touch(t, Place("shared", t))
    /\ stage' = [stage EXCEPT ![t] = "ready"]
    /\ UNCHANGED <<generated, host, pc, reg, crc, results, h_results, printed>>

Load(t) ==
    /\ AtOp(t, Stored \cup {"const"})
    /\ stage[t] = IF program[pc[t]] = "shared" THEN "ready" ELSE "start"
    /\ LET p == Place(program[pc[t]], t) IN
          reg' = [reg EXCEPT ![t] = mem[p]] /\ Touch(t, p)
    /\ stage' = [stage EXCEPT ![t] = "loaded"]
    /\ UNCHANGED <<generated, host, mem, pc, crc, results, h_results, printed>>

\* The value read flows into the checksum; constants are only read.
Store(t) ==
    /\ AtOp(t, Stored \cup {"const"}) /\ stage[t] = "loaded"
    /\ LET k == program[pc[t]] IN
          mem' = IF k = "const" THEN mem
                 ELSE [mem EXCEPT ![Place(k, t)] = Up(reg[t])]
    /\ crc' = [crc EXCEPT ![t] = @ + reg[t]]
    /\ stage' = [stage EXCEPT ![t] = "start"]
    /\ pc' = [pc EXCEPT ![t] = @ + 1]
    /\ UNCHANGED <<generated, host, reg, results, h_results, printed, touched>>

\* if (threadIdx.x == 0) ...: the other threads of a block skip what follows.
Branch(t) ==
    /\ AtOp(t, {"branch"})
    /\ pc' = [pc EXCEPT ![t] =
                 IF threadIdx(t) = 0 \/ @ = Len(program) THEN @ + 1 ELSE @ + 2]
    /\ UNCHANGED <<generated, host, mem, stage, reg, crc, results, h_results,
                   printed, touched>>

\* __syncthreads: the threads of a block leave the barrier together, and only
\* when each of them has come to it.
Barrier(t) ==
    LET team == {u \in Thread : blockIdx(u) = blockIdx(t)} IN
    /\ AtOp(t, {"barrier"})
    /\ \A u \in team : pc[u] = pc[t]
    /\ pc' = [u \in Thread |-> IF u \in team THEN pc[u] + 1 ELSE pc[u]]
    /\ UNCHANGED <<generated, host, mem, stage, reg, crc, results, h_results,
                   printed, touched>>

\* HashGlobalVariables
HashGlobals(t) ==
    /\ Running(t) /\ pc[t] = Len(program) + 1
    /\ crc' = [crc EXCEPT ![t] = @ + HashOf([k \in Hashed |-> mem[Place(k, t)]])]
    /\ touched' = [p \in Places |->
                      IF \E k \in Hashed : p = Place(k, t)
                      THEN touched[p] \cup {t} ELSE touched[p]]
    /\ pc' = [pc EXCEPT ![t] = @ + 1]
    /\ UNCHANGED <<generated, host, mem, stage, reg, results, h_results, printed>>

\* The kernel's last line.
StoreResult(t) ==
    /\ Running(t) /\ pc[t] = Len(program) + 2
    /\ results' = [results EXCEPT ![tid(t)] = ResultOf(crc[t])]
    /\ pc' = [pc EXCEPT ![t] = @ + 1]
    /\ UNCHANGED <<generated, host, mem, stage, reg, crc, h_results, printed, touched>>

ThreadStep(t) ==
    \/ InitGlobals(t) \/ InitShared(t) \/ Load(t) \/ Store(t) \/ Branch(t)
    \/ Barrier(t) \/ HashGlobals(t) \/ StoreResult(t)

HostStep ==
    \/ SetupHipGlobals \/ DeviceAlloc \/ Launch \/ DeviceSynchronize
    \/ CopyBack \/ PrintLine \/ Return

Stop == host \in {"done", "failed"} /\ UNCHANGED vars

Next == HostStep \/ HipCheckFails \/ (\E t \in Thread : ThreadStep(t)) \/ Stop

Spec == Init /\ [][Next]_vars

\* The host thread runs, and the device gives every thread that can move a turn.
FairSpec ==
    /\ Spec
    /\ WF_vars(HostStep)
    /\ \A t \in 0..(3 + Argc * 4) : WF_vars(ThreadStep(t))

-----------------------------------------------------------------------------

\* What the comments in OutputEntryFunction ask of the sizes they choose: no two
\* threads ever meet at a variable that one of them may write.
RaceFree ==
    \A p \in Places : p[1] # "const" => \A t, u \in touched[p] : t = u

\* A thread's result has a slot of its own in d_results.
ResultsInBounds ==
    /\ \A t \in Thread : tid(t) \in 0..(NumThreads - 1)
    /\ \A t, u \in Thread : tid(t) = tid(u) => t = u

\* Every line printed is the value that the program text determines: initialised
\* memory, no lost update, no lost or misplaced result, under every schedule.
Contract == INSTANCE ReportContract
                WITH lines <- [i \in 1..NumThreads |-> Expected(i - 1)]
ReportDeterminate == Contract!Spec

\* A launched program ends: no thread waits for ever at a barrier that the others
\* of its block have passed by.
ProgramEnds == (host = "sync") ~> (host \in {"done", "failed"})

=============================================================================
