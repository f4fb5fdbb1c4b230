# HIPSmith in TLA+

HIPSmith generates random HIP programs that are meant to be free of undefined
behaviour, so that two compilers can be compared by running their output. It is
csmith (C++, `src/src`) with a HIP layer (`src/src/HIPSmith`), a runtime header
that goes into the generated program (`src/runtime`) and a script that runs the
generator and the compiler (`src/scripts/test_hipsmith.py`). The generator is
sequential; what is hard about it is that it builds a program and analyses it at
the same time, with summaries, facts and effects that must stay true while the
program grows. What it generates runs concurrently on a device.

Paths below are relative to the repository.

## Inventory

| Component | State | Operations | Interacts with | What makes it correct |
|---|---|---|---|---|
| Function generation (`src/Function.cpp`, `FunctionInvocation*.cpp`, `ExpressionFuncall.cpp`) | `FuncList`, `build_state`, `builtin_functions_cnt`, flags of a function's summary, the C++ call stack | `make_first`, `choose_func`, `build_invocation`, `build_invocation_and_function`, `generate_body_with_known_params`, `GenerateFunctions`, `doFinalization` | called by expressions; calls the statement generator; summaries feed effects and facts | no recursion in the program; a summary stays true; every body finished; the function limit |
| Effects and contexts (`Effect.cpp`, `CGContext.cpp`) | read and write sets, pure/side-effect flags, context and accumulator | `read_var`, `write_var`, `add_effect`, `add_external_effect`, `check_read_var`, `check_write_var`, `merge_param_context` | every expression and statement; the callees' effects | no two unsequenced accesses conflict |
| Facts (`Fact.cpp`, `FactPointTo.cpp`, `FactUnion.cpp`) | sets of pointees, last written union field | `join`, `imply`, `abstract_fact_for_assign`, `mark_dead_var`, `mark_func_end`, `update_with_modified_index` | `FactMgr` | facts over-approximate every execution; the joins are monotone |
| Data flow (`FactMgr.cpp`, `Block.cpp`, `Statement*.cpp`) | facts in and out per statement, CFG edges, accumulated effects | `post_creation_analysis`, `find_fixed_point`, `remove_stmt`, `visit_facts`, `merge_jump_facts` | facts, effects, function invocation | the fixed point is reached and sound; a removed statement leaves nothing behind |
| Exhaustive enumeration (`DFSRndNumGenerator.cpp`, `DFSProgramGenerator.cpp`, `DepthSpec.cpp`) | `states_`, `current_pos_`, `decision_depth_`, `all_done_`, `Error` | `random_choice`, `revisit_node`, `eager_backtracking`, `reset_state`, `goGenerator` | every random choice of the generator | each program within the depth once, in order; it ends |
| Variables (`Variable.cpp`, `ArrayVariable.cpp`, `VariableSelector.cpp`, `HIPVariable.cpp`) | `AllVars`, `GlobalList`, scopes | `select`, `GenerateNewGlobal`, `itemize`, `GenerateHIP*` | effects and facts of the chosen variable | a variable is visible and initialised where it is used |
| Types and qualifiers (`Type.cpp`, `CVQualifiers.cpp`, `Vector.cpp`) | `AllTypes`, `derived_types` | `choose_random`, `match`, `random_qualifiers` | all of the above | accepted conversions are valid C++ |
| Probabilities and filters (`Probabilities.cpp`, `ProbabilityTable.h`, `VectorFilter.cpp`, `PartialExpander.cpp`) | cumulative tables | `get_value`, `filter`, `expand_check` | random choices | a number that is accepted maps to an enabled alternative |
| Host and kernel (`HIPSmith/HIPOutputMgr.cpp`, `Globals.cpp`, `runtime/HIPSmith.h`) | device memory by space, `results`, the CRC of each thread | `setup_hip_globals`, launch, `hipDeviceSynchronize`, kernel body, `HashGlobalVariables` | the options decide the launch | no data race, initialised memory, deterministic output |
| Options and entry (`HIPRandomProgramGenerator.cpp`, `HIPOptions.cpp`, `RandomProgramGenerator.cpp`, `CGOptions.cpp`) | static options | `set_default_settings`, `ResolveCGOptions`, the argument loops, `has_conflict`, `CreateInstance` | everything | an option given has its documented effect |
| Safe arithmetic (`runtime/safe_math*.m4`) | none | one wrapper per operator and type | operators of the program | no undefined arithmetic |
| Test loop (`scripts/test_hipsmith.py`) | counters, error log, process pool | one iteration: generate, compile, log | the generator, hipcc | every failure logged once |
| Output, statistics, text of the klee/crest extensions, driver scripts, tamer | text, counters | printing | | not modelled, see the end |

The components interact by nested calls on one stack. Three kinds of state are
handed along it: the random source's position (`Error` ends everything above it),
the effect context (what an expression must not touch), and the fact set of the
current function. Summaries of finished functions are the only state that is
read long after it was written. The generated program's threads share memory
only through the four HIP memory spaces.

`PROJECT.json` lists every component, modelled or not, and the hazards with the
properties that cover them.

## Modules

| Module | Models | Checked by | Proved |
|---|---|---|---|
| `FunctionBuild` | function generation and the call graph | `FunctionBuild` | `FunctionBuild_proofs` |
| `EffectContext` | read and write sets while an expression statement is generated | `EffectContext`, `EffectOperands` | `Analysis_proofs` |
| `ReportContract` | what a generated program promises to the tester | as a property of `HIPKernel` | `HIPProgram_proofs` |
| `HIPKernel` | a generated program running: host driver, threads, memory | `HIPKernel` | `HIPProgram_proofs` |
| `DFSEnum` | exhaustive enumeration of choices | `DFSEnum` | `DFSEnum_proofs` |
| `Facts` | the points-to and union lattices and the operations of `FactMgr` on them | through `Dataflow` | `Analysis_proofs` |
| `Dataflow` | a function body, its analysis, a visit by another caller, its execution | `Dataflow`, `DataflowInner` | |
| `Qualifiers` | `CVQualifiers` | through `Types` | `Types_proofs` |
| `Types` | aggregates, qualified variables, initialisers and assignments | `Types` | `Types_proofs` |
| `Probabilities` | the probability tables, their files, and the choices they decide | `Probabilities` | `Probabilities_proofs` |
| `CInt`, `SafeMath`, `BuiltIns` | C's integers of small widths; the safe wrappers; HIP's built-in calls | through `Operators` | `Operators_proofs` |
| `Operators` | an operator application: chosen, printed, run | `Operators` | `Operators_proofs` |
| `HIPMain` | the hipsmith process: command line, settings, stages, names | `HIPMain` | `HIPProgram_proofs` |
| `CommandLine`, `Options` | csmith's flags; its process up to the generator | `Options` | `Options_proofs` |

The modules meet in what they take from each other as given. `FunctionBuild`
decides which callee is analysed again; `EffectContext` and `Dataflow` say what an
analysis and a visit do. `Dataflow` extends `Facts`; `Operators` extends `BuiltIns`,
which extends `SafeMath` and `CInt`, so what is generated is run on the wrappers it
is printed with. `Types` and `Dataflow` share no state: a type is data to the
analysis. `HIPKernel` takes from the generator that `func_1` touches only memory
that its options declare.

A property is often a conjunction of named parts, and the text names the parts.

### FunctionBuild

The C++ call stack is the variable `frames`. An `args` frame is a running
`FunctionInvocationUser::build_invocation` (or `build_invocation_and_function`,
`isNew`), a `body` frame a running `generate_body_with_known_params` or
`GenerateBody`. `FuncList` is the interval `1..funcs`. What bodies do is reduced
to the kinds of statement that the summary flags tell apart.

| Action | Code |
|---|---|
| `MakeBuiltin`, `MakeFirst` | `make_builtin_function`, `make_first` |
| `CallExisting`, `CallNew` | `FunctionInvocation::make_random`: `choose_func`, or a new signature |
| `FillArg` | `make_random_param` for one parameter |
| `RevisitCallee`, `SkipCallee` | the second half of `build_invocation`: `revisit`, or only `add_external_effect` |
| `StartBody`, `FinishBody`, `FinishFirst` | `generate_body_with_known_params`, `compute_summary` |
| `MakeStatement`, `RemoveStatement` | `update_fact_for_assign`, `StatementArrayOp` and a union read, as three kinds; `Block::remove_stmt` |
| `WorklistStep`, `WorklistEnd` | the loop of `GenerateFunctions` |
| `Abandon`, `NextRound` | an `Error` under `--dfs-exhaustive`; `Function::doFinalization` and the next round |

Properties: `NoRecursion` (no set of functions calls only into itself),
`BuiltIsFrozen` (a finished body and its calls do not change), `WorklistIdle`
(`GenerateFunctions`' loop finds nothing to do), `SkippedCallsStatic` (a call that is
not analysed again never leads to an assignment through a pointer or a read of a
union field, in any function it reaches; `build_invocation` exempts what `GetFirstFunction`
returns, which in a second round need not be the first function), `EveryBodyFinished`, and the inductive invariant `IInv` of the proofs.

Bounds: three functions are the least number with a chain of two nested new
callees and a call back to an existing one; a built-in stands beside them, which
is a function that no body is generated for. Two operations per body let each body
both call and change a fact, or call twice; one parameter puts calls inside
arguments; two rounds let a round start from what an abandoned one left. `FuncCap`
bounds `FuncList`, which a second round would let grow: `builtin_functions_cnt` is
not reset between rounds, so the function limit is off by the number of built-ins.

Fairness: the generator is one thread that never waits, so some step is always
taken; `FairSpec` is weak fairness of `Next` and no more.

### HIPKernel

The body of `func_1` is a sequence of accesses, one kind per memory space, of
barriers and branches on `threadIdx`, generated only under their options
(`OptionOf`). `NumThreads`, `BlockSize` and `GridSize` are the expressions
`OutputEntryFunction` writes. An access is two steps, a read and a write, so that
every interleaving inside it happens; `Place` maps an access to memory: the struct
of globals is a local of each thread, `__shared__` memory belongs to a block, the
rest to the device. Values are counters modulo `Modulus`, and the checksum is the
sum that `transparent_crc` is in `HIPSmith.h`.

| Action | Code (all written by `OutputEntryFunction`, `OutputHipGlobals`, `Globals`) |
|---|---|
| `SetupHipGlobals` | `setup_hip_globals()` |
| `DeviceAlloc`, `Launch`, `DeviceSynchronize`, `CopyBack`, `PrintLine`, `Return` | the statements of `main`, in order |
| `HipCheckFails` | `HIP_CHECK` on any of the API calls |
| `InitGlobals`, `InitShared` | the kernel's struct of globals; the assignment after a `__shared__` declaration |
| `Load`, `Store`, `Branch`, `Barrier` | statements of `func_1` |
| `HashGlobals`, `StoreResult` | the end of the kernel |

Properties: `RaceFree` (no two threads touch a place one of them may write),
`ResultsInBounds` (each thread has a result slot of its own),
`ReportDeterminate` (the run implements `ReportContract`: each line printed is
the value that the program text determines, whatever the schedule),
`ProgramEnds` (no barrier is waited at for ever).

The run fixes `argc = 1`: README.md and the comments in the generated driver say
that the binary is run without arguments, and the launch sizes that depend on
`argc` rest on it. The option sets are the empty one, each option that adds
memory or control, and the mixtures in which the two conditions of
`OutputEntryFunction` differ; the other options (warp operations, atomics) occur
in the same conditions and add no memory of their own. Two statements per body
are enough for a lost update (two accesses to one variable by two threads) and
for a barrier under a branch. Modulus 8 is larger than the largest number of
updates and lets the checksum wrap.

Fairness: the host program runs, and the device gives every thread that can move
a turn, which is the forward progress HIP gives the threads of resident blocks.
Weak fairness per thread suffices because a barrier, once open, stays open.

### DFSEnum

`tree` is the generator seen as a function of the choices made so far, found out
while it is walked. A node asks for a number below `bound` that its filter
accepts, perhaps after a `DEPTH_GUARD`, or ends the program.

| Action | Code |
|---|---|
| `PassGuard`, `EagerBacktrack` | `DEPTH_GUARD_*` and `eager_backtracking` |
| `ExceedDepth`, `Revisit`, `SwitchBranch`, `Backtrack`, `FirstVisit`, `FirstVisitFails` | the branches of `DFSRndNumGenerator::random_choice` |
| `Emit`, `Abandoned`, `Stop` | the loop of `DFSProgramGenerator::goGenerator` |

Properties: `Exhaustive` (when `all_done_` is set every program that fits has
been written), `Ascending` (strictly ascending, so none twice), `StatesFit`
(`PathConsistent`: between rounds the initialised states are exactly the path to the
decision; `ChoicesValid`: a number that is returned passes its filter), `Finishes`.

Bounds: depth three has a position above, at and below a decision. The questions
per depth are the smallest ones whose first, last, middle or all numbers are
refused, and guards that pass, that prune, and that are asked before
`current_pos_` allows them to prune. The tree is explored lazily, so the run covers
every tree over these questions. `MayEnd` assumes that the depths in `DepthSpec`
are lower bounds, which is what its table is for.

Fairness: weak fairness of `Next`, one sequential computation.

### EffectContext

C++ does not order the operands of `+`, the arguments of a call or the two sides
of an assignment, so the generator must keep them from writing what another one
accesses. It does so with two effects in each `CGContext`: the context that an
expression must not conflict with, and the accumulator of what it does. The
variable `stack` has one frame per operator whose operands are being generated,
with both effects (`ctx`, `accum`) and the running context `run` of the next
operand. `outs` is a history variable, what the operands generated so far will
access when the program runs, callees and pointees included; no guard reads it
except to count the operands. `callee` is one function other than the current one,
with its name-based accesses, its `feffect` and its `accum_eff_context`; what its
body does is any combination of accesses that its context admits.

| Action | Code |
|---|---|
| `StartStatement`, `EndStatement` | `Statement::make_random` |
| `MakeConstant`, `MakeVariable` | the leaves of `Expression::make_random`; `read_var`, `read_pointed` |
| `EnterOperator`, `LeaveOperator` | `make_random_binary`, `ExpressionComma`, `StatementAssign` |
| `MakeLhs` | `Lhs::make_random` and the writes it records |
| `EnterIntrinsic`, `EnterAtomic`, `LeaveAtomic` | `FunctionInvocationHIP*BuiltIn`, `ExpressionVector` |
| `EnterCall` | `choose_func`, or a new function |
| `LeaveNewCall` | `build_invocation_and_function`: the body, then `add_external_effect` |
| `LeaveOldCall`, `FailOldCall` | `build_invocation`: visit or skip; `ExpressionFuncall`'s restore |

Properties: `OperandsApart` (the operands of csmith's own operators and calls do not
interfere, whatever HIP expressions are nested in them), `Recorded` (the accumulator
covers what is accessed), `ContextKept` (no operand touches what its operator's
context forbids, however deep it is).

Bounds: a global and a local that pointers reach are the two cases
`Effect::add_external_effect` tells apart for csmith's variables. `MaxDepth` counts
the statement, so three levels have an operator in an operator: a call in an operand
of `+`, an assignment in an argument. `MaxExprDepth` is the generator's own option;
with four, both operands of an operator may be operators. Warp intrinsics, vector
literals and atomics are on in the same run. Deeper nesting is covered by the proofs.

`EffectOperands` shows a disagreement: the arguments of a warp intrinsic and the
elements of a vector literal share one context, so one may assign what another reads
(`NoUnsequencedConflict`). That `ContextKept` still holds in the run above means that
the damage stays within that operator.

Every step is a safety matter; no fairness is assumed.

### HIPMain

`main` of `HIPRandomProgramGenerator.cpp`, from static initialisation to exit, and
the stages of `HIPProgramGenerator::goGenerator`. An argument is one of `Words`;
`Strtoll` says what the C function makes of it. `cg` records for each member of
`CGOptions` that HIPSmith touches who set it last. `names` are the names `gensym`
has given out; its counter is shared by all kinds and reset between them.

| Action | Code |
|---|---|
| `Start` | `platform_gen_seed`, `set_default_settings`, `ResolveCGOptions` |
| `ParseSwitch`, `ParseSeed`, `RefuseArgument`, `EndParsing` | the argument loop |
| `CreateInstance`, `OutputHeader`, `Output`, `Finalize` | the rest of `main` and of `goGenerator` |
| `GenerateHIPGlobal`, `FinishKind` | `GenerateHIPGlobals`, one variable and the end of one kind |
| `MakeFirst`, `MakeName` | `GenerateFunctions`, as far as names go |

Properties: `LineObeyed` (`LineDecides`: a program is written exactly for the
well-formed lines, with the members of `HIPOptions` the line asks for, well-formedness
being stated without an index that moves; `SeedAsGiven`: the seed printed is the seed used
is the seed given; `SettingsOfMain`: no line reaches the settings of `CGOptions`, so that
`--small` sets its flag and limits nothing, against `src/README.md:57`)
and `NamesFit` (`EntryIsFunc1`: the kernel calls `func_1` by name, and that is the
first function's; `NamesDistinct`: no name twice).

Bounds: the words are one of each kind that the loop treats differently; three of
them put an option before and after a `--seed` with its value, and a `--seed`
last. Two names per kind are enough for a clash. Three bits make -2 a different
number when it becomes unsigned.

### Facts and Dataflow

`Facts` is translated from `Fact.cpp`, `FactPointTo.cpp`, `FactUnion.cpp` and the set
operations of `FactMgr.cpp`. A `FactVec` is a function from pointers to the set of what
they may point to, null and dead storage included, and from unions to the field
written last, `BOTTOM` when that is unknown. The same module says what an assignment
does to memory, and when facts describe a memory.

`Dataflow` is one function body while it is made. `g` holds the statements made so
far as a tree (`node`), the CFG edges that are not implied by it, and the maps of
`FactMgr`: facts in and out per statement. The analysis is
a function on `g`, as it is in the code: `Statement::analyze_with_edges_in`,
`Block::find_fixed_point` and `Block::post_creation_analysis`, with their memoisation,
their removals and the retry. Afterwards another caller may visit the function with other facts,
and then it is executed on a memory.

| Action | Code |
|---|---|
| `MakeAssign`, `MakeField` | `StatementAssign`, reads and writes of union fields; only what `validate_and_update_facts` accepts |
| `MakeBreak`, `MakeContinue`, `MakeReturn` | the `make_random` of each |
| `MakeGotoBack`, `MakeGotoForward` | `StatementGoto::make_random` to an earlier statement, or out of an earlier block |
| `NewParentLocal` | `VariableSelector` putting a new local into an enclosing block |
| `MakeIf`, `MakeFor`, `CloseBlock` | `StatementIf`, `StatementFor`, `Block::make_random` from start to `post_creation_analysis` |
| `Revisit`, `Call` | `FunctionInvocationUser::revisit`; the facts handed to the caller |
| `Exec...` | what the compiled function does |

Properties: `FactsSound` (whenever execution reaches a statement, the facts recorded
there describe memory, and so do those the caller goes on with), `NoBadAccess` (no execution
dereferences a null or dead pointer or reads a union field that was not written last,
from any state a caller was accepted with), `AlwaysReturns`, and `TextFits`
(`NoDangling`: removals leave no jump or edge to a statement that is gone;
`NoBypass`: no jump enters a block past an initialiser; `Converges`: the analysis ends
before the assertion on eight turns).

The soundness properties quantify over what the code never sees, an execution;
branches and loop conditions go either way, so a run covers every path. That is
stronger than the code's claim only where a condition is constant, which the
generator does not use in its facts either.

Bounds: two pointers, a target, a local that can die and a union with two fields: the
least with an alias, a dangling pointer and an overwritten field. Three
statements besides compound ones, at most one nested block level, one forward jump
and one visit by another caller: a loop needs a statement before and one after a jump
to go round with changed facts. Assignments are a small set, each there for one
transfer rule (copy, address of a local, store through a pointer).

`DataflowInner` shows a disagreement: a `goto` placed inside an earlier statement and
leading to the statement that contains it closes a loop which is visited once more but
not to a fixed point, and a null pointer is dereferenced. `Dataflow` keeps to forward
jumps that go forward (`Kinds` without `"inner"`).

### Options

`CommandLine` lists, for each flag that the argument loop of
`RandomProgramGenerator.cpp` compares against, the options its branch assigns and
how, and separately the flags and defaults of the help text. `Options` runs the process: the list
of arguments is chosen while it is read.

| Action | Code |
|---|---|
| `ParseHelp`, `ParseSet`, `ParseNum`, `ParseStr`, `BadArgument`, `InvalidOption` | the branches of the loop in `main`, `parse_int_arg`, `parse_string_arg` |
| `CheckConflicts` | `fix_options_for_cpp`, `CGOptions::has_conflict` and what the checks set on the way |
| `CreateInstance` | `AbsProgramGenerator::CreateInstance`, `ExtensionMgr::CreateExtension`, the dumps |

Properties: `AsAsked` (every option is of its type and has the value of the last flag that names it, or its default,
but for those C++ and the exhaustive mode force), `ConflictsCaught` (no accepted line
drops an extension, leaves C++ unrestricted or runs the exhaustive mode without a
bound: `ExtensionsHonoured`, `CppRestricted`, `ExhaustiveBounded`), `DefaultFlagsIdle` (what the help calls the default changes nothing; three
numbers that the help gets wrong are excepted by name in `Misstated`).

Bounds: all flags in lists of two, so that each pair meets in both orders; flags that
the conflict checks read in lists of four, the longest combination a check looks at.
The numbers are below, at and above every limit that is compared with.

### Operators

`CInt` gives C's conversions, promotions and undefined operations for four sizes;
`SafeMath` the wrappers of `safe_math_macros.m4`, `safe_math.m4` and of the vectors
and atomics in `HIPSmith.h`; `BuiltIns` the warp calls. `Operators` makes one
application, prints it and runs it.

| Action | Code |
|---|---|
| `Make`, `make_random_rhs`, `MakeAssign` | `FunctionInvocation::make_random_unary`, `make_random_binary`, the constant operands, compound assignments |
| `OutputBinary`, `OutputUnary`, `OutputAsExpr`, `OutputBuiltIn` | the `Output` methods, `SafeOpFlags`, `--safe-math-wrapper` |
| `Run` | the compiled expression on some arguments |

Properties: `NeverUndefined`, `WrapperMeaning` (where the operation is defined the
wrapper computes it, where it is not it returns its first operand), `LanesExact` (a
vector wrapper computes in all lanes or in none; a warp wrapper's casts change
nothing), `PrintedFits` (names are declared, a wrapper number is chosen once per
function, the amount of a constant shift is in range, which for a signed left operand
is not yet a defined shift when the wrapper is off).

An operation that C leaves undefined has the value `Undef`, and every later operation on
it is undefined too. `Pow2` and the two operations on bits (`Ones`, `Number`) are written
as functions over the widths, so that they can be proved about.

Bounds: the widths 2, 3, 6 and 8 keep the relations the wrappers rest on: an
int is twice as wide as a short and more than twice as wide as a char, so that it
holds every product of two chars or of two signed shorts, not every product of two unsigned shorts.
All values of the smaller types, the boundaries of the large one. Four
option sets: hipsmith's own, csmith's functions with floats, restricted wrapper numbers,
and wrappers switched off (where `NeverUndefined` claims nothing).

### Probabilities

| Action | Code |
|---|---|
| `InitElem`, `EndGroup` | `Probabilities::initialize` and the `set_*_probs`; random values under `--random-random` |
| `dump_default_probabilities`, `dump_actual_probabilities` | the two dumps, which end the program |
| `parse_line`, `EndParse` | `parse_configuration` |
| `InitProbabilityTable` | `Statement::InitProbabilityTable` |
| `Ask`, `Answer` | a choice of a statement, expression, operator or type: roll, filter, and roll again until one is accepted |

Properties: `Accepted` (`NoAbort`: no assertion about probabilities fails unless a
file was written by hand; `TableCovers`: every roll finds a statement, and every statement that is
on is found by some roll), `RoundTrip` (a run that reads a dump has the probabilities
of the one that wrote it), `OffStaysOff` (random probabilities never give a value to what
has the default 0, and the choices of statements, of members of equal groups, of terms and
of assignment operators do not return what is off), `RejectionEnds`. One choice is left out
of `OffStaysOff` because the claim is false for it: the redraw of an operator whose divisor
may be zero (`Redraw`, a question of the model) does not look at the probabilities.

Fairness: `WF_vars(Answer)`, an acceptable number is eventually rolled when there is
one. The loops that reject rolls have no other exit, and a
pseudo-random source does not avoid a set of numbers for ever; whether such a number
exists is what the property shows. Two cases are left out of its hypothesis
because they are false: files written by hand, and float operators under random probabilities.

Bounds: two option sets, everything and next to nothing; `Few` random members per
group; one group at a time is random (`mode.focus`), since choices read one group each. The
hand-written files are the eight shapes that the parser treats differently.

### Types

`Qualifiers` is `CVQualifiers`; `Types` makes the aggregates of a program, then
variables, initialisers and assignments over them, then prints the aggregates.

| Action | Code |
|---|---|
| `StartStruct`, `StartUnion`, `AddField`, `FinishAggregate`, `NextKind` | `GenerateAllTypes`, `make_random_struct_type`, `make_random_union_type`, `make_one_*_field` |
| `Declare`, `InitDone`, `InitAddress`, `InitNew` | `VariableSelector::GenerateNewVariable`, `make_init_value` |
| `AssignStatement`, `AssignExpression`, `AssignQualifiers`, `LhsExisting`, `LhsNewPointer`, `LhsNewVariable`, `GiveUp` | `StatementAssign::make_random`, `ExpressionAssign` (for its own qualifiers, or for those of a parameter), `Lhs::make_random` |
| `Output`, `EndOutput`, `OutputStructUnionDeclarations` | `DefaultOutputMgr::Output` and the loop over all types |
| `OutputStructUnion` | the recursion into the fields: `calls` holds a frame for every call that is open |

Properties: `AggregatesFit` (no layout of the implementation's choice inside a union,
a named member first, volatile operators where C++ needs them), `ConversionsLegal` (an
initialiser or assignment of a pointer never drops a qualifier, and the storage's
volatility stays visible), `AccessesAllowed` (nothing const is written; nothing volatile
touched in a context that is not free), `DeclaredBeforeUse`.

`ConversionsLegal` is about the command lines of `KeepsQualifiers`. Under
`--strict-volatile-rule`, `make_init_value` drops every volatile of the qualifiers it
passes on (`VariableSelector.cpp:1074`), and with `--no-global-variables` the pointer that
`select_deref_pointer` declares has random ones (`VariableSelector.cpp:1489`): there the
property is false, and TLC refutes it when the restriction is removed.

Questions about the inside of an aggregate (`Nested`, `NestedStructs`) are recursions
in the code; here each is the least set that is closed under what the recursion
follows.

Bounds: eleven command lines, each with the options that one rule is about; up to three
aggregates (a union in a struct in a struct), up to three variables, two
indirections.

## Proofs

A theorem holds for every value of the constants that its module's `ASSUME` admits, and
TLC evaluates these assumptions on the constants of each run. A hypothesis beyond them
is part of the theorem, and named below. The arguments have one shape: an invariant that
is inductive, one lemma per action, and the property as a consequence.

The provers cannot instantiate a theorem that takes an operator, so the library's
induction over the natural numbers is out of reach; induction for a *set* follows from
`WFMin` and is enough (`SetInduction`, `LeastNat`). With it, recursive functions (`Run`,
`set_prob_table`, `get_max`, `Pow2`, `safe_reduce`) are proved about. `RECURSIVE` operators are not.

### Function generation

`FunctionBuild_proofs`, for every number of functions, rounds, parameters and
operations, from `ParamsAssumption`:

* `GeneratorInvariant`: `Spec => []IInv`;
* `TypeCorrect`, `NoRecursionHolds`, `WorklistIdleHolds`, `BuiltIsFrozenHolds`,
  `SkippedCallsStaticHolds`.

`NoRecursion` is not inductive. The argument is an order: each function gets the value
of a clock when it becomes `BUILT`, and a call always leads to a function that was built
earlier (`CallsOrdered`). That a callee is `BUILT` and a caller `BUILDING` when the call
is made needs the shape of the stack: a body frame's function is `BUILDING`, an args
frame's function is `UNBUILT` or `BUILT` according to `isNew`, the caller of a frame has
its body frame below, and no function is on the stack twice as new (`FramesOK`).
`Accounted` says that an unfinished function is on the stack. `IInv` is their
conjunction with `TypeOK`, and one lemma per action shows that it is preserved.
`NoRecursion` then follows by taking the function of least order in the set.

`SkippedCallsStatic` speaks of all functions that a skipped callee reaches, while the
code looks at the flags of the callee alone. `SInv` says why this is enough: a `BUILT`
function has the flags of its own statements and of the functions it calls (`Marked`),
and a callee is only skipped when its flags are off (`Quiet`). The functions that are
`BUILT` without flags are closed under calls, and `Reach` is the least set that is, so
all that is reached is among them. The first function is an exception that has to be
carried along: its `union_field_read` is never set, and what saves the claim is that it
is `BUILT` last and at the bottom of the stack, so that nothing calls it.

### Effects

`Analysis_proofs` proves `OperandsApart` (`Unsequenced`), `Recorded`
(`AllRecorded`) and `ContextKept` (`ContextRespected`) for every set of variables, every
depth and every nesting, with any HIP options, from `ContextAssumption` and the hypothesis
`NoManaged`: there is no `__managed__` variable. The hypothesis is needed: with one, TLC
refutes each of the three (`ContextKept` with four levels), because
`add_external_effect` drops what a callee does to it (see Observations).

None of the three properties is inductive alone: that a new operand keeps apart from the first one follows from its
context, so the running context must cover what was accessed (`RunOK`), which follows
from the accumulator (`OutsOK`), which for an assignment must tell writes on left sides
from the others (`ApartOK`). Between frames, `LinkOK` says that the context of a nested
operator covers the context its parent gives the operand, and `CallsOK` that the copy
restored by a failed call is no larger than the recorded effect. `CalleeOK` says that
`feffect` covers the body of a callee that is not visited again. `IInv` is their
conjunction, and each action that adds an operand to a frame preserves it by one lemma
on `WithOperand`.

HIP expressions that share one context are the reason why `ApartOK` speaks of binary
operators and calls only; that nothing else breaks under them is because `OutsOK` bounds
an operand by the context and the accumulator of its own frame, whichever way these were
passed down. The target of an atomic is in no accumulator, but its frame remembers that the
context allows it (`FrameOK`), and so it is among what `ContextKept` covers.

`TypesHold` proves `TypeOK` with every option and any variables. That `expr_depth` is
bounded is not inductive: after an operator is entered below the limit, each of its
operands may still count for one, and so may those of every frame below it. `Bounded` says
what is left when so many frames are open; each frame that closes makes room for three.

### The generated program

`HIPProgram_proofs` proves `TypeOK` (`KernelTypes`), and, for `Argc = 1`, which the
generated driver's comments ask for, `RaceFree` (`RaceFreedom`), `ResultsInBounds`
(`ResultSlots`) and the refinement of `ReportContract` (`ReportRefined`), for every body
of `func_1`, every set of options and every schedule. `KernelAssumption` asks that
`Modulus` be more than 1: modulo 1 no sum would say anything.

`RaceFree` needs to know why a thread is at a place: the invariant `KInv` says that
whoever touched a place did so with an access whose option is on. Two threads at one
place then made the same kind of access, and the option of that kind has made the launch
so small that they are one thread (`PlacesApart`, from the three launch sizes of
`Sizes`).

For the refinement each thread is compared with a run of `func_1` on its own, a function
defined by recursion on the statements. `ThreadInv` says that a thread which has not
begun finds the memory `main` has initialised (`Fresh`), that after each statement the
places it can use hold what the run holds and its sum is the run's (`OnCourse`), and
that between the two steps of an access its register holds what the run reads
(`Midway`). It survives the steps of the other threads because their places are
different, `PlacesApart` again. `HostInv` carries the threads' results to the copy in
host memory. `PrintLine` then prints the line that `ReportContract` expects; every other
step maps to a stutter.

### Exhaustive enumeration

`DFSEnum_proofs` proves `StatesFit`, `Ascending` and `Exhaustive` for every depth and
every generator, that is every tree over any questions with any filters, from
`EnumAssumption`. `EInv` is the conjunction of `TypeOK`, `Spine` (the initialised states
are an accepted path through the tree, down to the decision and no further), `Round` (a
round walks down that path), `Answers` (what a round has chosen was asked and accepted),
`Order` (the last program written is below the states) and `Progress` (each accepted
answer to each question asked has been explored, lies ahead of the states, is too deep,
or is the one in hand). `Exhaustive` is `Progress` in a state where nothing is ahead and
nothing in hand.

### Facts

`Analysis_proofs` proves what the soundness of the analysis rests on, for any variables,
levels of indirection and aliasing:

* `Lattice`: imply is a partial order, join its least upper bound, and what a true
  fact implies is true;
* `MergesDescribe`: where flows meet or a jump arrives, the merged facts describe memory
  whichever way execution came, provided that facts which only one side has hold;
* `ScopesDescribe`: leaving a scope kills the variables in the facts as in memory;
* `AccessesDefined`: an access the analysis accepts dereferences neither a null nor a dead
  pointer;
* `AssignsDescribe`: after an accepted assignment, by strong or weak update, the
  facts describe the new memory;
* `FieldsDescribe`: a union's field that may be read is the one written last.

Their hypotheses on facts (`FactsFit`), memory (`MemFit`) and the operands (`Knows`: a
pointer that is used has a fact) are named operators, and the run `Dataflow` checks all
three on the facts, memories and assignments that occur (`TextFits`). The theorems
compose: what one has as a conclusion is what the next one needs. That the analysis of a
whole body puts these steps together soundly, to a fixed point, is the recursive part,
in `Dataflow`, and is model-checked.

### Programs and their command lines

`HIPProgram_proofs` proves `NamesFit` (`NamesHold`) and `LineObeyed` (`LineObeyedHolds`)
for every set of words, every meaning `Strtoll` gives them, every width of a C integer
and any number of names of each kind, from `MainAssumption`, which states `2^Width = 2 *
2^(Width - 1)` because the provers do not know it. That no name is given out twice is
not inductive: `gensym_count` restarts at zero between kinds, so a counter alone keeps
no two names apart. `NInv` adds which kinds can have names in each phase (`UsedOK`),
that the names of the kind being made have numbers up to the counter (`BelowCounter`),
that no kind starts with a counter in use (`CounterClear`) and where `func_1` comes from
(`FirstFunc`). `LineObeyed` is about the whole line and not about an index: which
arguments are options and which the values of a `--seed` is the solution of an equation
over all positions (`OptionAt`), which has one by induction. `LInv` says that `idx` is
never the place of a value (`AtOption`), that the options are those of the arguments
read (`ReadWell`), that the seed is that of the last `--seed` read (`SeedRead`) and
where it has gone since (`SeedUsed`). `CInv` says that `small` is off while `main` has read
no argument, which is when the settings are made; `SettingsOfMain` needs nothing else.

`Options_proofs` proves `ConflictsCaught` (`ConflictsNeverPass`), `AsAsked`
(`AsAskedHolds`) and `DefaultFlagsIdle` (`DefaultsAsDocumented`) for argument lists of any length with any numbers and words, from
`OptionsAssumption`, by which no kind of built-in functions (a word after
`--enable-builtin-kinds`) has the name of an option. The exhaustive mode is chosen by
`dfs_exhaustive` and checked by `random_based`, two members with setters of their own;
that they always differ (`Exclusive`) rests on the flags of `CommandLine`, of which only
`--dfs-exhaustive` assigns either, and it assigns both (`OnlyDfsTable`, `AssignKeeps`).
`OInv` says further that between the checks and the generator the options are
`Accepted`, which `ChecksSuffice` derives from `has_conflict`. `AInv` follows each
option through the arguments: it has the value of the last argument that names it, and
there is a last one (`HasLast`), until C++, the exhaustive mode or a dump forces some. For
`DefaultFlagsIdle` the tables are compared row by row: every row of a flag the help calls
the default restates what `set_default_settings` turns on or leaves off
(`RestatingTable`), every number it calls the default is the one assigned there
(`NumberingTable`, `StatedDefault`), and an argument changes only the options its rows name.

### Probabilities

`Probabilities_proofs` proves `RoundTrip` (`RoundTripHolds`) and `OffStaysOff`
(`OffStaysOffHolds`) for all options, numbers, draws and hand-written files, from
`ProbabilitiesAssumption`: the three numbers are within the bounds of `has_conflict`,
and files consist of lines that parse. `Accepted` (`AcceptedHolds`) has one more
hypothesis, `WellWritten`: a line written by hand has the brackets of its group and
gives a member one value. It holds of the run's files. Without it the theorem is false:
TLC refutes it for a file that writes the statements in the brackets of equal groups
(see Observations).

`PInv` is the conjunction of `Setup` (which groups are complete, with the names and
defaults the options give), `Drawing` (what the group being drawn has so far: numbers of
statements differ, and are ruled out for the next draw), `AsDefault` and `GoodGroups` (a
complete group is one whose dump a parser accepts and whose table holds every roll),
`Saved`, `File`, `Decided` and `NoAbort`. `Saved` is the heart of `RoundTrip`: each
saved value is either in the lines still to read or already restored, a line never
undoes what another one restored, because no two elements have one name, and a line of a
dump is never refused (`TrueAccepted`). `ByHand` adds for hand-written files that some
statement keeps 100. The table of statements is the recursive part: `TableIs` shows by
induction that `sorted_insert` keeps it ascending and that it holds exactly the
statements that are on, `TableFinds` that a roll below 100 finds one, and that each one
is found when no two numbers are the same.

### Operators

`Operators_proofs` proves the four properties of `Operators`, for all operands, numbers
of calls and sets of options: `NeverUndefined` (`RunsDefined`), `WrapperMeaning`
(`WrappersExact`), `LanesExact` (`LanesComputed`) and `PrintedFits` (`PrintedDeclared`).
They rest on two assumptions. `BitsAssumption` admits all widths of the four types that rise
and of which an int's is twice a short's; 8, 16, 32 and 64 are among them, which are out of
TLC's reach. `OperatorsAssumption` says that floats are switched on by csmith's main
only, whose programs call the wrappers as functions, and that vectors have up to four lanes.

The argument goes upwards:

* powers of two up to the largest product, and with them the range of each type
  (`TypeFacts`); a conversion keeps a value that fits, and one through a wider type loses
  nothing (`ConvertFits`, `ConvertMod`);
* each scalar wrapper means its guarded operation, for every operator, form, type and
  operands (`AddMeans` ... `ShiftMeans`). The overflow test of a subtraction computes on
  the bits of its operands: `SubMeans` needs the sign of an xor and of an and
  (`XorSign`, `AndSign`), and that the mask `SignMask` is the sign bit of its type, shorts and
  chars being computed in an int;
* each `check_safe_...` of the vector wrappers refuses only what has no result
  (`LaneOK`), so a wrapper computes all lanes or none (`VectorMeans`); a
  warp wrapper's casts are injective (`CastInjective`), a reduction finds the
  least and greatest lane whatever their number (`ReduceFacts`), and what a safe atomic leaves
  in its cell is defined (`AtomicMeans`);
* `OperatorsInv` carries this through the choice and the printing. `InvocationOK` says
  what may be in hand (a float operator only with floats, a scalar's constant shift in the
  range of its left operand's type, an atomic only of a type that has it), `PrintedOK`
  the same of what was printed, `NamesOK` that a wrapper's number is the position of its
  name and so decides alike for every call, `RanOK` what has been run.

The run `Operators` has checked `OperatorsInv` as an invariant on its instance.

### Types

`Types_proofs` proves the four properties of `Types` for every command line, any number of
aggregates, fields, variables and levels of indirection, from `OptionsAssumption` and
`BitLengthsAssumption`, which give the options and lengths their types: `AggregatesFit`
(`Aggregates`), `ConversionsLegal` (`Conversions`), `AccessesAllowed` (`Accesses`) and
`DeclaredBeforeUse` (`DeclarationOrder`). `TypesInv` is the inductive invariant, a
conjunction of

* `Shape`: types are made, then used, then printed, and what belongs to the other phases is
  empty;
* `Prog`: every variable and every declaration that waits for its initialiser has
  qualifiers for its type (`Quals`: no flag on a pointer that the options do not
  allow, no volatile object that cannot be assigned), and the assignment under way looks for
  qualifiers its value converts to (`JobRecs`). `Agrees`, conversion by C's rules with the
  storage shown as it is, is reflexive and transitive and survives taking an
  address, dereferencing and `restrict` (`AgreesOrder`, `Indirect`, `AddressOf`); that is what lets a
  chain of steps through `random_loose_qualifiers`, `match_indirect` and a new variable come
  out legal;
* `Aggs`: a field's aggregate is older than the one it is in and is a struct, and what the
  filters ask of the fields, `FieldFit`, is asked of direct fields only. That it holds at
  every depth follows because the set of aggregates with the property is closed
  under fields (`NestedClosed`). `has_bitfields` does not look into unions; it suffices as
  structs are complete before the first union;
* `Uses`: the type of whatever is declared or assigned is marked as used;
* `Printed` and `Calls`: the aggregates printed have all they contain before them. The
  open frames have falling numbers, so that printing one never closes an outer one; the
  fields a frame has passed are printed, or are the frame inside it; and an aggregate in
  use that the loop has passed is printed or is the outermost frame.

### Only model-checked

* All liveness (`EveryBodyFinished`, `ProgramEnds`, `Finishes`, `AlwaysReturns`,
  `RejectionEnds`): the provers have neither fairness nor `ENABLED`.
* `NoUnsequencedConflict` of `EffectContext` fails, and nothing is proved with managed variables
  but the types.
* The properties of `Dataflow`: its analysis is a `RECURSIVE` operator. `NoBadAccess`
  is not even true without the restriction that `DataflowInner` shows to be needed.

## Plan

1. `FunctionBuild`, `EffectContext`, `HIPKernel` with proofs, `DFSEnum`, `HIPMain` (done).
2. `Facts`, `Dataflow`, `Options`, `Operators`, `Probabilities`, `Types` (done).
3. The safety properties of every module without recursive operators proved (done).
4. Arrays and loop controls: `itemize`, the read and write directives of
   `StatementFor`, array facts; then `PartialExpander` and `CompatibleChecker`.

## Observations

What the source does that its readers may not expect. The findings in `PROJECT.json`
are the ones a run refutes; these were met while modelling.

Generation and analysis
* `fact_changed` of a callee is passed on to its caller when the callee was chosen among the existing
  functions (`FunctionInvocation.cpp:104-108`), not when it was created for the call,
  against the comment at `FunctionInvocationUser.cpp:317`.
* `Function::doFinalization` leaves `builtin_functions_cnt` as it is; only the
  exhaustive mode, which hipsmith does not offer, starts a second round.
* `build_invocation_and_function` has no `ERROR_GUARD` after `make_random_param`
  (`FunctionInvocationUser.cpp:205`); a failed re-analysis restores four maps of the callee
  (`:357`) and nothing of the functions it calls.
* `read_pointed` leaves `effect_stm` as it is when it refuses a read (`CGContext.cpp:262`).
* The target of an atomic is written without an effect being recorded, and
  `Variable::is_global` does not know `__managed__` variables, so `OperandsApart` is
  about accesses that effects record.
* A fixed point is cut off by an assertion after eight turns (`Block.cpp:549-555`).
* The minimal depths of `DepthSpec` are taken as lower bounds.

Types and declarations
* `FlowLegal` and `StorageAgrees` need `global_variables` with `consts`
  (`VariableSelector.cpp:1488-1491`, against `CVQualifiers.cpp:98-99`) and fail with
  `strict_volatile_rule` and volatiles (`VariableSelector.cpp:1074-1077`, against
  `CVQualifiers.cpp:128`).
* `choose_random_struct_from_type` passes `no_volatile` where `no_const` is expected
  (`Type.cpp:555`); null types are dereferenced at `Type.cpp:576` and
  `VariableSelector.cpp:791, 819`; `to_unsigned` of `Int128` is `Int128` (`Type.cpp:1336`);
  vectors of 128-bit integers throw (`Vector.cpp:225`); `delete_useless_structs` removes
  types that are not duplicates (`Type.cpp:975`); split output prints globals before
  structs (`DefaultOutputMgr.cpp:113-115`).

Operators and probabilities
* The redraw at `FunctionInvocation.cpp:308-314` filters with a `VectorFilter` of its own
  and not with `BINARY_OPS_PROB_FILTER`: `Mul` comes back under `--no-muls`, and with random
  probabilities every operator drawn to 0. `OffStaysOff` claims nothing of it.
* `FunctionInvocationBinary::equals(0)` holds for `x % -1`, and floats under
  `USE_MATH_MACROS` have no wrappers; the atomics of `HIPSmith.h:779`
  check and then act, which the single thread `--atomics` launches cannot disturb.
* Random probabilities can leave only operators that a float refuses, and then the
  loop at `FunctionInvocation.cpp:155, 202` does not end; a hand-written file can
  leave no acceptable statement.
* A group line in a file that names a part of the group gives the rest the values
  they had (`Probabilities.cpp:859` reads otherwise), and its opening bracket is not compared
  with its group: statements in the brackets of equal members are accepted with values of
  1, and then an assertion of `get_value` fails.
* `Expression::make_random` rolls again whenever the HIP expression is not taken (`Expression.cpp:195`).

Command lines
* `ResolveCGOptions` runs before hipsmith reads its arguments
  (`HIPRandomProgramGenerator.cpp:21`), so `--small` changes nothing, against
  `README.md:57`; `SettingsOfMain` and `LineObeyedHolds` state it for every line. The README's table omits `--atomics`, and `README.md:40` names a script
  that has another name. `--seed ""` is a number.
* csmith's help lists flags that `main` refuses (`--no-func-attributes`, `--reduce`) and
  three wrong defaults (`Misstated`); `parse_int_arg` narrows an `unsigned long` to an `int`.

## Not modelled

* Formatting, split output files and statistics: text without state the properties
  could be about.
* The text that the klee, crest and coverage extensions print.
* Random numbers: a nondeterministic choice in every module, restricted by the filters
  where they are defined. The replay of a debug sequence and `SimpleDeltaRndNumGenerator` are left out.
* Arrays and their indices, loop controls, fields as variables of their own: data of
  the variable tables that the modules above do not look at.
* The exhaustive enumeration of structs, attributes, sizes, names of vector types.
* `PartialExpander`, `CompatibleChecker`, float wrappers and
  `safe_math_macros_notmp.m4`: csmith uses them only on request.
* The test loop, `driver/`, `tamer/`, the platform layer: process control around
  compilers.
