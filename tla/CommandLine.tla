---------------------------- MODULE CommandLine ----------------------------
(***************************************************************************)
(* The command line of the csmith program (RandomProgramGenerator.cpp):    *)
(* the flags its argument loop compares against, and the flags its two     *)
(* help texts describe.                                                    *)
(*                                                                         *)
(* A row <<flag, option, effect>> is one assignment the branch of a flag   *)
(* makes: "on", "off" and "five" assign a constant, "num" and "str" assign *)
(* the next argument read as a number or as a string, "add" splits the     *)
(* next argument at its commas and appends the parts.  The option "kind"   *)
(* stands for the entry of enabled_builtin_kinds_ the argument names.  A   *)
(* flag that assigns several options has several rows.                     *)
(***************************************************************************)
EXTENDS Integers, TLC

Toggles(S) ==
    {<<t[1], t[3], "on">> : t \in S} \cup {<<t[2], t[3], "off">> : t \in S}

FlagsA ==
    {<<"--seed", "seed", "num">>, <<"-s", "seed", "num">>,
     <<"--max-block-size", "max_block_size", "num">>, <<"--max-funcs", "max_funcs", "num">>,
     <<"--func1_max_params", "func1_max_params", "num">>, <<"--klee", "klee", "on">>,
     <<"--crest", "crest", "on">>, <<"--ccomp", "ccomp", "on">>,
     <<"--coverage-test", "coverage_test", "on">>,
     <<"--coverage-test-size", "coverage_test_size", "num">>,
     <<"--max-split-files", "max_split_files", "num">>,
     <<"--split-files-dir", "split_files_dir", "str">>,
     <<"--dfs-exhaustive", "dfs_exhaustive", "on">>,
     <<"--dfs-exhaustive", "random_based", "off">>,
     <<"--compact-output", "compact_output", "on">>}
    \cup
    Toggles({<<"--packed-struct", "--no-packed-struct", "packed_struct">>,
     <<"--bitfields", "--no-bitfields", "bitfields">>})

FlagsB ==
    {<<"--prefix-name", "prefix_name", "on">>,
     <<"--sequence-name-prefix", "sequence_name_prefix", "on">>,
     <<"--compatible-check", "compatible_check", "on">>,
     <<"--partial-expand", "partial_expand", "str">>, <<"--quiet", "quiet", "on">>,
     <<"--expand-struct", "expand_struct", "on">>,
     <<"--fixed-struct-fields", "fixed_struct_fields", "on">>,
     <<"--max-struct-fields", "max_struct_fields", "num">>,
     <<"--max-union-fields", "max_union_fields", "num">>,
     <<"--max-nested-struct-level", "max_nested_struct_level", "num">>,
     <<"--struct-output", "struct_output", "str">>,
     <<"--dfs-debug-sequence", "dfs_debug_sequence", "str">>}
    \cup
    Toggles({<<"--paranoid", "--no-paranoid", "paranoid">>,
     <<"--nomain", "--main", "nomain">>,
     <<"--compound-assignment", "--no-compound-assignment", "compound_assignment">>,
     <<"--structs", "--no-structs", "use_struct">>,
     <<"--unions", "--no-unions", "use_union">>, <<"--argc", "--no-argc", "accept_argc">>})

FlagsC ==
    {<<"--max-exhaustive-depth", "max_exhaustive_depth", "num">>,
     <<"--max-pointer-depth", "max_indirect_level", "num">>,
     <<"--output", "output_file", "str">>, <<"-o", "output_file", "str">>,
     <<"--delta-monitor", "delta_monitor", "str">>, <<"--delta-output", "delta_output", "str">>,
     <<"--go-delta", "go_delta", "str">>,
     <<"--no-delta-reduction", "no_delta_reduction", "on">>,
     <<"--math-notmp", "math_notmp", "on">>}
    \cup
    Toggles({<<"--math64", "--no-math64", "math64">>,
     <<"--inline-function", "--no-inline-function", "inline_function">>,
     <<"--longlong", "--no-longlong", "longlong">>, <<"--int8", "--no-int8", "int8">>,
     <<"--uint8", "--no-uint8", "uint8">>, <<"--float", "--no-float", "enable_float">>})

FlagsD ==
    {<<"--strict-float", "strict_float", "on">>,
     <<"--compiler-attributes", "func_attr_flag", "on">>,
     <<"--compiler-attributes", "type_attr_flag", "on">>,
     <<"--compiler-attributes", "label_attr_flag", "on">>,
     <<"--compiler-attributes", "var_attr_flag", "on">>,
     <<"--no-compiler-attributes", "func_attr_flag", "off">>,
     <<"--no-compiler-attributes", "type_attr_flag", "off">>,
     <<"--no-compiler-attributes", "label_attr_flag", "off">>,
     <<"--no-compiler-attributes", "var_attr_flag", "off">>,
     <<"--max-array-dim", "max_array_dimensions", "num">>,
     <<"--max-array-len-per-dim", "max_array_length_per_dimension", "num">>,
     <<"--strict-const-arrays", "strict_const_arrays", "on">>}
    \cup
    Toggles({<<"--pointers", "--no-pointers", "pointers">>,
     <<"--function-attributes", "--no-function_attributes", "func_attr_flag">>,
     <<"--type-attributes", "--no-type-attributes", "type_attr_flag">>,
     <<"--label-attributes", "--no-label-attributes", "label_attr_flag">>,
     <<"--variable-attributes", "--no-variable-attributes", "var_attr_flag">>,
     <<"--int128", "--no-int128", "Int128">>, <<"--uint128", "--no-uint128", "UInt128">>,
     <<"--binary-constant", "--no-binary-constant", "binary_constant">>,
     <<"--arrays", "--no-arrays", "arrays">>})

FlagsE ==
    {<<"--enable-access-once", "access_once", "on">>,
     <<"--strict-volatile-rule", "strict_volatile_rule", "on">>,
     <<"--fresh-array-ctrl-var-names", "fresh_array_ctrl_var_names", "on">>}
    \cup
    Toggles({<<"--jumps", "--no-jumps", "jumps">>,
     <<"--return-structs", "--no-return-structs", "return_structs">>,
     <<"--arg-structs", "--no-arg-structs", "arg_structs">>,
     <<"--return-unions", "--no-return-unions", "return_unions">>,
     <<"--arg-unions", "--no-arg-unions", "arg_unions">>,
     <<"--volatiles", "--no-volatiles", "volatiles">>,
     <<"--volatile-pointers", "--no-volatile-pointers", "volatile_pointers">>,
     <<"--const-pointers", "--no-const-pointers", "const_pointers">>,
     <<"--global-variables", "--no-global-variables", "global_variables">>,
     <<"--addr-taken-of-locals", "--no-addr-taken-of-locals", "addr_taken_of_locals">>,
     <<"--consts", "--no-consts", "consts">>,
     <<"--dangling-global-pointers", "--no-dangling-global-pointers", "dangling_global_ptrs">>})

FlagsF ==
    {<<"--random-random", "random_random", "on">>,
     <<"--check-global", "blind_check_global", "on">>,
     <<"--step-hash-by-stmt", "step_hash_by_stmt", "on">>,
     <<"--stop-by-stmt", "stop_by_stmt", "num">>,
     <<"--monitor-funcs", "monitored_funcs", "add">>, <<"--delta-input", "delta_input", "str">>,
     <<"--dump-default-probabilities", "dump_default_probabilities", "str">>,
     <<"--dump-random-probabilities", "dump_random_probabilities", "str">>,
     <<"--probability-configuration", "probability_configuration", "str">>}
    \cup
    Toggles({<<"--divs", "--no-divs", "divs">>, <<"--muls", "--no-muls", "muls">>,
     <<"--checksum", "--no-checksum", "compute_hash">>,
     <<"--builtins", "--no-builtins", "builtins">>})

FlagsG ==
    {<<"--const-as-condition", "const_as_condition", "on">>,
     <<"--match-exact-qualifiers", "match_exact_qualifiers", "on">>,
     <<"--concise", "concise", "on">>, <<"--identify-wrappers", "identify_wrappers", "on">>,
     <<"--safe-math-wrappers", "safe_math_wrapper", "add">>,
     <<"--mark-mutable-const", "mark_mutable_const", "on">>,
     <<"--inline-function-prob", "inline_function_prob", "num">>,
     <<"--builtin-function-prob", "builtin_function_prob", "num">>,
     <<"--array-oob-prob", "array_oob_prob", "num">>,
     <<"--enable-builtin-kinds", "kind", "on">>,
     <<"--disable-builtin-kinds", "kind", "off">>,
     <<"--null-ptr-deref-prob", "null_pointer_dereference_prob", "num">>}
    \cup
    Toggles({<<"--no-return-dead-pointer", "--return-dead-pointer", "no_return_dead_ptr">>,
     <<"--force-globals-static", "--no-force-globals-static", "force_globals_static">>,
     <<"--force-non-uniform-arrays", "--no-force-non-uniform-arrays", "force_non_uniform_array_init">>})

FlagsH ==
    {<<"--dangling-ptr-deref-prob", "dead_pointer_dereference_prob", "num">>,
     <<"--max-expr-complexity", "max_expr_depth", "num">>,
     <<"--max-block-depth", "max_blk_depth", "num">>,
     <<"--max-struct-nested-level", "max_nested_struct_level", "num">>}
    \cup
    Toggles({<<"--pre-incr-operator", "--no-pre-incr-operator", "pre_incr_operator">>,
     <<"--pre-decr-operator", "--no-pre-decr-operator", "pre_decr_operator">>,
     <<"--post-incr-operator", "--no-post-incr-operator", "post_incr_operator">>,
     <<"--post-decr-operator", "--no-post-decr-operator", "post_decr_operator">>,
     <<"--unary-plus-operator", "--no-unary-plus-operator", "unary_plus_operator">>,
     <<"--embedded-assigns", "--no-embedded-assigns", "use_embedded_assigns">>,
     <<"--safe-math", "--no-safe-math", "avoid_signed_overflow">>,
     <<"--comma-operators", "--no-comma-operators", "use_comma_exprs">>,
     <<"--take-union-field-addr", "--take-no-union-field-addr", "take_union_field_addr">>,
     <<"--vol-struct-union-fields", "--no-vol-struct-union-fields", "vol_struct_union_fields">>,
     <<"--const-struct-union-fields", "--no-const-struct-union-fields", "const_struct_union_fields">>})

FlagsI ==
    {<<"--no-hash-value-printf", "hash_value_printf", "off">>,
     <<"--no-signed-char-index", "signed_char_index", "off">>,
     <<"--lang-cpp", "lang_cpp", "on">>, <<"--cpp11", "cpp11", "on">>,
     <<"--int-size", "int_size", "num">>, <<"--ptr-size", "pointer_size", "num">>,
     <<"--fast-execution", "lang_cpp", "on">>, <<"--fast-execution", "jumps", "off">>,
     <<"--fast-execution", "max_array_length_per_dimension", "five">>}

Table == FlagsA \cup FlagsB \cup FlagsC \cup FlagsD \cup FlagsE \cup FlagsF
           \cup FlagsG \cup FlagsH \cup FlagsI

Flags == {r[1] : r \in Table}

Rows == [f \in Flags |-> {r \in Table : r[1] = f}]

Effects == [f \in Flags |-> {r[3] : r \in Rows[f]}]

NumFlags == {f \in Flags : "num" \in Effects[f]}

StrFlags == {f \in Flags : \/ "str" \in Effects[f] \/ "add" \in Effects[f]
                           \/ \E r \in Rows[f] : r[2] = "kind"}

SetFlags == Flags \ (NumFlags \cup StrFlags)

HelpFlags == {"--help", "-h", "-hh", "--version", "-v"}

(***************************************************************************)
(* The help texts.  "toggle" holds the pairs described as "enable |        *)
(* disable", the one said to be the default first; "number" the flags with *)
(* a stated default; "plain" the others.                                   *)
(***************************************************************************)

HelpA ==
  [toggle |->
    {<<"--argc", "--no-argc">>, <<"--arrays", "--no-arrays">>,
     <<"--bitfields", "--no-bitfields">>, <<"--checksum", "--no-checksum">>,
     <<"--comma-operators", "--no-comma-operators">>,
     <<"--compound-assignment", "--no-compound-assignment">>, <<"--consts", "--no-consts">>,
     <<"--divs", "--no-divs">>, <<"--embedded-assigns", "--no-embedded-assigns">>,
     <<"--pre-incr-operator", "--no-pre-incr-operator">>,
     <<"--pre-decr-operator", "--no-pre-decr-operator">>,
     <<"--post-incr-operator", "--no-post-incr-operator">>,
     <<"--post-decr-operator", "--no-post-decr-operator">>,
     <<"--unary-plus-operator", "--no-unary-plus-operator">>, <<"--jumps", "--no-jumps">>,
     <<"--longlong", "--no-longlong">>, <<"--int8", "--no-int8">>, <<"--uint8", "--no-uint8">>,
     <<"--no-float", "--float">>, <<"--main", "--nomain">>, <<"--math64", "--no-math64">>},
   number |->
    {<<"--inline-function-prob", 50>>, <<"--array-oob-prob", 0>>, <<"--max-array-dim", 3>>,
     <<"--max-array-len-per-dim", 10>>, <<"--max-block-depth", 5>>, <<"--max-block-size", 4>>,
     <<"--max-expr-complexity", 10>>, <<"--max-funcs", 10>>, <<"--max-pointer-depth", 2>>},
   plain |->
    {"--help", "-h", "-hh", "--version", "-v", "--seed", "-s", "--output", "-o", "--concise",
     "--inline-function", "--no-inline-function"}]

HelpB ==
  [toggle |->
    {<<"--muls", "--no-muls">>, <<"--safe-math", "--no-safe-math">>,
     <<"--packed-struct", "--no-packed-struct">>, <<"--no-paranoid", "--paranoid">>,
     <<"--pointers", "--no-pointers">>, <<"--structs", "--no-structs">>,
     <<"--unions", "--no-unions">>, <<"--volatiles", "--no-volatiles">>,
     <<"--volatile-pointers", "--no-volatile-pointers">>,
     <<"--const-pointers", "--no-const-pointers">>,
     <<"--global-variables", "--no-global-variables">>, <<"--no-builtins", "--builtins">>,
     <<"--no-func-attributes", "--function-attributes">>,
     <<"--no-type-attributes", "--type-attributes">>,
     <<"--no-label-attributes", "--label-attributes">>,
     <<"--no-variable-attributes", "--variable-attributes">>,
     <<"--no-compiler-attributes", "--compiler-attributes">>, <<"--no-int128", "--int128">>,
     <<"--no-uint128", "--uint128">>, <<"--no-binary-constant", "--binary-constant">>},
   number |->
    {<<"--max-struct-fields", 10>>, <<"--max-union-fields", 5>>,
     <<"--builtin-function-prob", 20>>},
   plain |->
    {"--quiet", "--enable-builtin-kinds", "--disable-builtin-kinds", "--lang-cpp", "--cpp11"}]

HelpC ==
  [toggle |->
    {<<"--return-structs", "--no-return-structs">>, <<"--arg-structs", "--no-arg-structs">>,
     <<"--return-unions", "--no-return-unions">>, <<"--arg-unions", "--no-arg-unions">>,
     <<"--take-union-field-addr", "--take-no-union-field-addr">>,
     <<"--vol-struct-union-fields", "--no-vol-struct-union-fields">>,
     <<"--const-struct-union-fields", "--no-const-struct-union-fields">>},
   number |->
    {<<"--max-split-files", 0>>, <<"--max-nested-struct-level", 0>>,
     <<"--coverage-test-size", 500>>, <<"--func1_max_params", 3>>},
   plain |->
    {"--split-files-dir", "--dfs-exhaustive", "--expand-struct", "--compact-output",
     "--struct-output", "--prefix-name", "--sequence-name-prefix", "--compatible-check",
     "--ccomp", "--klee", "--crest", "--coverage-test", "--fixed-struct-fields",
     "--delta-monitor", "--delta-input", "--delta-output", "--go-delta", "--no-delta-reduction",
     "--dump-default-probabilities", "--dump-random-probabilities",
     "--probability-configuration", "--random-random", "--enable-access-once",
     "--strict-volatile-rule"}]

HelpD ==
  [toggle |->
    {<<"--addr-taken-of-locals", "--no-addr-taken-of-locals">>,
     <<"--dangling-global-pointers", "--no-dangling-global-pointers">>,
     <<"--no-return-dead-pointer", "--return-dead-pointer">>,
     <<"--force-globals-static", "--no-force-globals-static">>,
     <<"--force-non-uniform-arrays", "--no-force-non-uniform-arrays">>},
   number |->
    {<<"--null-ptr-deref-prob", 0>>, <<"--dangling-ptr-deref-prob", 0>>,
     <<"--max-struct-nested-level", 3>>},
   plain |->
    {"--fresh-array-ctrl-var-names", "--math-notmp",
     "--strict-const-arrays", "--partial-expand", "--check-global", "--monitor-funcs",
     "--step-hash-by-stmt", "--stop-by-stmt", "--const-as-condition",
     "--match-exact-qualifiers", "--reduce", "--identify-wrappers", "--safe-math-wrappers",
     "--mark-mutable-const", "--no-hash-value-printf", "--no-signed-char-index",
     "--strict-float", "--int-size", "--ptr-size"}]

Helps == {HelpA, HelpB, HelpC, HelpD}

Documented ==
    UNION {h.plain \cup {t[1] : t \in h.toggle} \cup {t[2] : t \in h.toggle}
                   \cup {t[1] : t \in h.number} : h \in Helps}

DocumentedDefaultFlags == UNION {{t[1] : t \in h.toggle} : h \in Helps}

DocumentedNumbers == UNION {h.number : h \in Helps}
============================================================================
