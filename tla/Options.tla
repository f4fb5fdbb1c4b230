------------------------------ MODULE Options ------------------------------
(***************************************************************************)
(* The csmith program from its first argument to its generator: the        *)
(* defaults of CGOptions and the platform file, the argument loop of main, *)
(* the settings C++ forces, the conflict checks with their side effects    *)
(* and the creation of the generator with its extension.                   *)
(*                                                                         *)
(* The argument list is chosen while it is read.  A number stands for an   *)
(* argument sscanf("%lu") accepts, after its assignment to an int, so a    *)
(* negative number is also what a huge argument becomes.                   *)
(***************************************************************************)
EXTENDS CommandLine, Sequences

CONSTANTS
    Words,       \* string arguments parse_string_arg accepts
    Numbers,     \* int values a numeric argument can leave behind
    Kinds,       \* kinds of builtin functions; contains "generic" and "x86"
    Interacting, \* flags explored in longer argument lists
    MaxFlags,    \* bound on the flags of an argument list
    MaxDeep      \* bound on the flags of a list of interacting flags only

ASSUME OptionsAssumption ==
    /\ Numbers \subseteq Int /\ 0 \in Numbers
    /\ {"generic", "x86"} \subseteq Kinds
    /\ Kinds \cap ({r[2] : r \in Table} \cup {"max_params", "max_array_length"}) = {}
    /\ "" \notin Words
    /\ Interacting \subseteq Flags

VARIABLES
    opts,      \* the static members of CGOptions, and g_Seed
    given,     \* the flags read so far, each with its argument
    status,    \* where main is, or how it ended
    arg,       \* the argument that made main stop
    gen,       \* AbsProgramGenerator::current_generator_
    extension  \* ExtensionMgr::extension_

vars == <<opts, given, status, arg, gen, extension>>

-----------------------------------------------------------------------------
NumOptions == {r[2] : r \in {q \in Table : q[3] = "num"}}
                \cup {"max_params", "max_array_length"}

StrOptions == {r[2] : r \in {q \in Table : q[3] = "str"}}

SetOptions == {r[2] : r \in {q \in Table : q[3] = "add"}}

BoolOptions == ({r[2] : r \in {q \in Table : q[3] \in {"on", "off"}}} \ {"kind"})
                 \cup Kinds

OptionNames == NumOptions \cup StrOptions \cup SetOptions \cup BoolOptions

\* DEFINE_GETTER_SETTER: what a member holds before main runs.
StaticInit ==
    [o \in OptionNames |->
        IF o \in NumOptions THEN 0
        ELSE IF o \in StrOptions THEN ""
        ELSE IF o \in SetOptions THEN {} ELSE FALSE]

DefaultNumbers ==
    [max_funcs |-> 10, max_params |-> 5, max_block_size |-> 4, max_blk_depth |-> 5,
     max_expr_depth |-> 10, max_struct_fields |-> 10, max_union_fields |-> 5,
     max_nested_struct_level |-> 3, max_array_dimensions |-> 3,
     max_array_length_per_dimension |-> 10, max_array_length |-> 256,
     max_exhaustive_depth |-> -1, max_indirect_level |-> 5, func1_max_params |-> 3,
     coverage_test_size |-> 500, stop_by_stmt |-> -1, inline_function_prob |-> 50,
     builtin_function_prob |-> 50]

DefaultOn_NoDeadPtr ==
    {"compute_hash", "avoid_signed_overflow", "random_based", "use_struct", "use_union"}

DefaultOn ==
    {"compute_hash", "avoid_signed_overflow", "random_based", "use_struct", "use_union",
     "packed_struct", "bitfields", "compound_assignment", "math64", "longlong", "int8",
     "uint8", "pointers", "arrays", "jumps", "return_structs", "arg_structs",
     "return_unions", "arg_unions", "volatiles", "volatile_pointers", "const_pointers",
     "global_variables", "consts", "dangling_global_ptrs", "divs", "muls", "accept_argc",
     "no_return_dead_ptr", "hash_value_printf", "signed_char_index",
     "force_globals_static", "force_non_uniform_array_init", "pre_incr_operator",
     "pre_decr_operator", "post_incr_operator", "post_decr_operator",
     "unary_plus_operator", "use_embedded_assigns", "use_comma_exprs",
     "take_union_field_addr", "vol_struct_union_fields", "const_struct_union_fields",
     "addr_taken_of_locals"}

set_default_builtin_kinds == {"generic", "x86"}

set_default_settings ==
    [o \in OptionNames |->
        IF o \in DOMAIN DefaultNumbers THEN DefaultNumbers[o]
        ELSE IF o \in DefaultOn \cup set_default_builtin_kinds THEN TRUE
        ELSE StaticInit[o]]

\* The sizes in platform.info; 0 where the file has no line for one.
PlatformFiles == [int_size : {0, 4}, pointer_size : {0, 8}]

HostSizes == [int_size |-> 4, pointer_size |-> 8]

WithSizes(sizes) ==
    [set_default_settings EXCEPT !["int_size"] = sizes.int_size,
                                 !["pointer_size"] = sizes.pointer_size]

\* A missing file takes the sizes of the host, an incomplete one ends the program.
set_platform_specific_options ==
    \/ status = "parse" /\ opts = WithSizes(HostSizes)
    \/ \E file \in PlatformFiles :
        /\ opts = WithSizes(file)
        /\ status = IF 0 \in {file.int_size, file.pointer_size} THEN "exit" ELSE "parse"

Init ==
    /\ set_platform_specific_options
    /\ given = << >> /\ arg = "" /\ gen = "none" /\ extension = "none"

-----------------------------------------------------------------------------
(* The argument loop.                                                      *)

Room(flag) ==
    \/ Len(given) < MaxFlags
    \/ /\ Len(given) < MaxDeep /\ flag \in Interacting
       /\ \A i \in 1..Len(given) : given[i].flag \in Interacting

\* The member a row assigns when the argument is v, and its new value.
Target(r, v) == IF r[2] = "kind" THEN v ELSE r[2]

NewValue(r, v) ==
    CASE r[3] = "on" -> TRUE
      [] r[3] = "off" -> FALSE
      [] r[3] = "five" -> 5
      [] r[3] = "add" -> opts[r[2]] \cup {v}
      [] OTHER -> v

Assign_FirstWins(flag, v) ==
    /\ opts' = [o \in OptionNames |->
                  IF /\ \E r \in Rows[flag] : Target(r, v) = o
                     /\ opts[o] = set_default_settings[o]
                    THEN NewValue(CHOOSE r \in Rows[flag] : Target(r, v) = o, v)
                    ELSE opts[o]]
    /\ given' = Append(given, [flag |-> flag, val |-> v])
    /\ UNCHANGED <<status, arg, gen, extension>>

Assign(flag, v) ==
    /\ opts' = [o \in OptionNames |->
                  IF \E r \in Rows[flag] : Target(r, v) = o
                    THEN NewValue(CHOOSE r \in Rows[flag] : Target(r, v) = o, v)
                    ELSE opts[o]]
    /\ given' = Append(given, [flag |-> flag, val |-> v])
    /\ UNCHANGED <<status, arg, gen, extension>>

Stop(how, what) ==
    /\ status' = how /\ arg' = what
    /\ UNCHANGED <<opts, given, gen, extension>>

\* --help, -hh and --version print and return.
ParseHelp ==
    /\ status = "parse"
    /\ \E flag \in HelpFlags : Room(flag) /\ Stop("done", flag)

ParseSet ==
    /\ status = "parse"
    /\ \E flag \in SetFlags : Room(flag) /\ Assign(flag, 0)

\* sscanf reports the end of an empty argument as EOF, which parse_int_arg accepts: the
\* variable keeps what it holds.  That is the seed for --seed, 0 where the branch of
\* main says so, and anything where it declares the variable without a value: in the
\* two branches named here, and in sixteen more (lines 938 to 1671), whose
\* indeterminate value is left to Numbers, which every flag may be given anyway.
EmptyValues(flag) ==
    IF flag \in {"--int-size", "--ptr-size"} THEN Numbers
    ELSE IF flag \in {"--seed", "-s"} THEN {opts.seed} ELSE {0}

parse_int_arg(flag) ==
    LET Stated == {d[2] : d \in {e \in DocumentedNumbers : e[1] = flag}} IN
    Numbers \cup Stated \cup EmptyValues(flag)

ParseNum ==
    /\ status = "parse"
    /\ \E flag \in NumFlags : Room(flag) /\ \E n \in parse_int_arg(flag) : Assign(flag, n)

parse_string_arg_NotEmpty(flag) == Words \cup {"--quiet"}

parse_string_arg(flag) ==
    IF \E r \in Rows[flag] : r[2] = "kind" THEN Kinds ELSE Words

ParseStr ==
    /\ status = "parse"
    /\ \E flag \in StrFlags : Room(flag) /\ \E s \in parse_string_arg(flag) : Assign(flag, s)

\* arg_check, or an argument that is no number, is empty or starts with "--".
BadArgument ==
    /\ status = "parse"
    /\ \E flag \in NumFlags \cup StrFlags : Room(flag) /\ Stop("exit", flag)

\* The documented flags no branch compares against stand for every unknown argument.
InvalidOption ==
    /\ status = "parse"
    /\ \E flag \in (Documented \cup {"word"}) \ (Flags \cup HelpFlags) :
         Room(flag) /\ Stop("invalid", flag)

-----------------------------------------------------------------------------
(* After the loop.                                                         *)

fix_options_for_cpp_Volatile(o) ==
    [o EXCEPT !["match_exact_qualifiers"] = TRUE, !["vol_struct_union_fields"] = FALSE]

fix_options_for_cpp(o) ==
    [o EXCEPT !["match_exact_qualifiers"] = TRUE,
              !["vol_struct_union_fields"] = FALSE,
              !["const_struct_union_fields"] = FALSE]

has_random_based_conflict_DirOnly(o) ==
    IF ~o.random_based THEN o.split_files_dir # "" ELSE o.sequence_name_prefix

has_random_based_conflict(o) ==
    IF ~o.random_based
    THEN o.split_files_dir # "" \/ o.max_split_files > 0
    ELSE o.sequence_name_prefix

has_extension_support(o) == o.klee \/ o.crest \/ o.coverage_test

\* The names PartialExpander::set_expand knows; a word stands for a list of one.
Expandable == {"assignment", "block", "for", "if-else", "invoke", "return", "all"}

\* PartialExpander::init_partial_expander refuses every other name.
resolve_exhaustive_options(o) ==
    /\ o.dfs_exhaustive
    /\ \/ o.partial_expand \notin Expandable \cup {""}
       \/ o.max_exhaustive_depth <= 0
       \/ ~o.use_struct /\ o.expand_struct
       \/ has_extension_support(o)

FixedFields(o) ==
    [o EXCEPT !["fixed_struct_fields"] = @ \/ o.dfs_exhaustive]

has_delta_conflict(o) == o.delta_monitor # "" /\ o.go_delta # ""

has_extension_conflict_Pair(o) == o.klee /\ o.crest

has_extension_conflict(o) ==
    \/ o.klee /\ o.crest
    \/ o.klee /\ o.coverage_test
    \/ o.crest /\ o.coverage_test

\* dir_ok: create_output_dir succeeds.
has_conflict(o, dir_ok) ==
    \/ has_random_based_conflict(o)
    \/ resolve_exhaustive_options(o)
    \/ has_extension_conflict(o)
    \/ has_delta_conflict(o)
    \/ o.inline_function_prob \notin 0..100
    \/ o.builtin_function_prob \notin 0..100
    \/ o.array_oob_prob \notin 0..100
    \/ o.max_funcs < 1
    \/ o.max_blk_depth < 1
    \/ o.func1_max_params > o.max_params
    \/ o.max_split_files > 0 /\ ~dir_ok
    \/ ~o.lang_cpp /\ o.cpp11

Resolved(o) ==
    [FixedFields(o) EXCEPT !["split_files_dir"] = IF @ = "" THEN "./output" ELSE @]

CreateExtension(o) ==
    IF o.klee THEN "klee"
    ELSE IF o.crest THEN "crest"
    ELSE IF o.coverage_test THEN "coverage_test" ELSE "none"

CheckConflicts ==
    /\ status = "parse"
    /\ \E dir_ok \in BOOLEAN :
        LET fixed == IF opts.lang_cpp THEN fix_options_for_cpp(opts) ELSE opts IN
        IF has_conflict(fixed, dir_ok)
        THEN status' = "conflict" /\ opts' = fixed
        ELSE status' = "create" /\ opts' = Resolved(fixed)
    /\ UNCHANGED <<given, arg, gen, extension>>

\* Only the initialisation of the default generator makes the extension.
CreateInstance ==
    /\ status = "create"
    /\ gen' = IF opts.dfs_exhaustive THEN "dfs" ELSE "default"
    /\ extension' = IF opts.dfs_exhaustive THEN "none" ELSE CreateExtension(opts)
    /\ IF opts.dump_default_probabilities # ""
       THEN status' = "done" /\ opts' = [opts EXCEPT !["random_random"] = FALSE]
       ELSE IF opts.dump_random_probabilities # ""
       THEN status' = "done" /\ opts' = [opts EXCEPT !["random_random"] = TRUE]
       ELSE /\ status' \in IF opts.probability_configuration # ""
                           THEN {"generate", "exit"} ELSE {"generate"}
            /\ UNCHANGED opts
    /\ UNCHANGED <<given, arg>>

Ended ==
    /\ status \notin {"parse", "create"}
    /\ UNCHANGED vars

Next ==
    \/ ParseHelp \/ ParseSet \/ ParseNum \/ ParseStr \/ BadArgument \/ InvalidOption
    \/ CheckConflicts \/ CreateInstance \/ Ended

Spec == Init /\ [][Next]_vars

-----------------------------------------------------------------------------
(* Properties.                                                             *)

\* The positions of the flags that name an option.
Naming(o) == {i \in 1..Len(given) : \E r \in Rows[given[i].flag] : Target(r, given[i].val) = o}

\* What a user expects of an option: the last flag that names it decides, the listing
\* flags add up, and an option no flag names has its default.
Asked(o) ==
    IF o \in SetOptions THEN {given[i].val : i \in Naming(o)}
    ELSE IF Naming(o) = {} THEN WithSizes(HostSizes)[o]
    ELSE LET last == given[CHOOSE i \in Naming(o) : \A j \in Naming(o) : j <= i]
             row == CHOOSE r \in Rows[last.flag] : Target(r, last.val) = o
         IN  NewValue(row, last.val)

\* Options main changes after the loop, whatever was asked.
Forced ==
    (IF opts.lang_cpp
       THEN {"match_exact_qualifiers", "vol_struct_union_fields", "const_struct_union_fields"}
       ELSE {})
    \cup (IF opts.dfs_exhaustive THEN {"fixed_struct_fields"} ELSE {})
    \cup {"split_files_dir", "random_random"}

\* Every value is of its option's type, in every state of main.
TypeOK ==
    /\ \A o \in NumOptions : opts[o] \in Int
    /\ \A o \in StrOptions : opts[o] \in Words \cup {"", "./output"}
    /\ \A o \in SetOptions : opts[o] \subseteq Words
    /\ \A o \in BoolOptions : opts[o] \in BOOLEAN
    /\ status \in {"parse", "create", "generate", "done", "exit", "invalid", "conflict"}
    /\ gen \in {"none", "dfs", "default"}
    /\ extension \in {"none", "klee", "crest", "coverage_test"}

\* The generator runs with the options the command line asks for: flags that set several
\* options, repeated and contradicting flags and the flags that share an option
\* (--max-nested-struct-level and --max-struct-nested-level, --compiler-attributes and the
\* four attribute flags) all follow the last-one-wins rule of the loop, and the conflict
\* checks change nothing but what C++ and the exhaustive mode force.
AsAsked ==
    /\ TypeOK
    /\ status \in {"parse", "generate"} =>
        \A o \in OptionNames \ (IF status = "parse" THEN {} ELSE Forced) :
            opts[o] = Asked(o)

\* An extension asked for is the one in use: the conflict checks leave no accepted command
\* line on which CreateExtension would silently drop a second extension, or the exhaustive
\* generator, which makes none, all of them.
ExtensionsHonoured ==
    status = "generate" =>
        {x \in {"klee", "crest", "coverage_test"} : opts[x]} \subseteq {extension}

\* Wherever --lang-cpp or --fast-execution stand among the arguments, a C++ program is
\* generated without const or volatile struct fields and with exact qualifiers
\* (fix_options_for_cpp), and C++11 only as C++.
CppRestricted ==
    status = "generate" =>
        /\ opts.lang_cpp => /\ opts.match_exact_qualifiers
                            /\ ~opts.vol_struct_union_fields
                            /\ ~opts.const_struct_union_fields
        /\ opts.cpp11 => opts.lang_cpp

\* The exhaustive generator starts only with a positive depth bound, a fixed number of
\* struct fields and a single output, and random_based and dfs_exhaustive never agree.
ExhaustiveBounded ==
    /\ opts.dfs_exhaustive # opts.random_based
    /\ gen = "dfs" => /\ ~(opts.max_exhaustive_depth <= 0)
                      /\ opts.fixed_struct_fields
                      /\ ~(opts.max_split_files > 0)

\* Options whose default the help text gives wrongly.
Misstated == {"--max-pointer-depth", "--builtin-function-prob", "--max-nested-struct-level"}

\* A flag the help text calls the default ("enabled by default"), or one with the number the
\* help calls its default, changes nothing when it is the only argument:
\* set_default_settings agrees with the help on every option not in Misstated.
DefaultFlagsIdle ==
    (status = "parse" /\ Len(given) = 1) =>
        LET flag == given[1].flag IN
        \/ flag \in DocumentedDefaultFlags
        \/ <<flag, given[1].val>> \in DocumentedNumbers /\ flag \notin Misstated
        => opts = WithSizes(HostSizes)

\* What the conflict checks of CGOptions let through: extensions that are in use, a C++
\* program restricted to what C++ can do, an exhaustive mode that is bounded.
ConflictsCaught == ExtensionsHonoured /\ CppRestricted /\ ExhaustiveBounded

============================================================================
