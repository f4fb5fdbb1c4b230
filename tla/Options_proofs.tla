--------------------------- MODULE Options_proofs ---------------------------
(***************************************************************************)
(* What the conflict checks of CGOptions let through, and that the options *)
(* of an accepted command line are the ones it asks for, for command lines *)
(* of any length with any numbers and words, and any kinds of built-ins.   *)
(***************************************************************************)
EXTENDS Options, SequenceTheorems, TLAPS

Extensions == {"klee", "crest", "coverage_test"}

\* The options that the checks and their consequences are about.
Watched ==
    Extensions \cup
    {"dfs_exhaustive", "random_based", "max_exhaustive_depth", "fixed_struct_fields",
     "max_split_files", "split_files_dir", "lang_cpp", "cpp11", "match_exact_qualifiers",
     "vol_struct_union_fields", "const_struct_union_fields", "random_random",
     "int_size", "pointer_size"}

Exclusive(o) ==
    /\ o.dfs_exhaustive \in BOOLEAN
    /\ o.random_based = ~o.dfs_exhaustive

OneExtension(o) == \A x, y \in Extensions : o[x] /\ o[y] => x = y

Bounded(o) ==
    o.dfs_exhaustive => /\ \A x \in Extensions : ~o[x]
                        /\ ~(o.max_exhaustive_depth <= 0)
                        /\ o.fixed_struct_fields
                        /\ ~(o.max_split_files > 0)

ForCpp(o) ==
    /\ o.lang_cpp => /\ o.match_exact_qualifiers
                     /\ ~o.vol_struct_union_fields
                     /\ ~o.const_struct_union_fields
    /\ o.cpp11 => o.lang_cpp

Accepted(o) == OneExtension(o) /\ Bounded(o) /\ ForCpp(o)

OInv ==
    /\ DOMAIN opts = OptionNames /\ Exclusive(opts)
    /\ status = "parse" => gen = "none"
    /\ status = "create" => gen = "none" /\ Accepted(opts)
    /\ gen = "dfs" => Bounded(opts) /\ opts.dfs_exhaustive
    /\ status = "generate" => ExtensionsHonoured /\ CppRestricted

-----------------------------------------------------------------------------
(* The table of flags.                                                     *)

\* The two options that choose the generator are set by --dfs-exhaustive only.
OnlyDfs(F) ==
    \A r \in F : /\ r[2] = "dfs_exhaustive" => r[1] = "--dfs-exhaustive" /\ r[3] = "on"
                 /\ r[2] = "random_based" => r[1] = "--dfs-exhaustive" /\ r[3] = "off"
                 /\ r[1] = "--dfs-exhaustive" => r[2] \in {"dfs_exhaustive", "random_based"}
                 /\ r[2] = "kind" => r[1] \in {"--enable-builtin-kinds", "--disable-builtin-kinds"}
                 /\ r[1] \in {"--enable-builtin-kinds", "--disable-builtin-kinds"} => r[3] \in {"on", "off"}

LEMMA OnlyDfsA == OnlyDfs(FlagsA) BY DEF OnlyDfs, FlagsA, Toggles
LEMMA OnlyDfsB == OnlyDfs(FlagsB) BY DEF OnlyDfs, FlagsB, Toggles
LEMMA OnlyDfsC == OnlyDfs(FlagsC) BY DEF OnlyDfs, FlagsC, Toggles
LEMMA OnlyDfsD == OnlyDfs(FlagsD) BY DEF OnlyDfs, FlagsD, Toggles
LEMMA OnlyDfsE == OnlyDfs(FlagsE) BY DEF OnlyDfs, FlagsE, Toggles
LEMMA OnlyDfsF == OnlyDfs(FlagsF) BY DEF OnlyDfs, FlagsF, Toggles
LEMMA OnlyDfsG == OnlyDfs(FlagsG) BY DEF OnlyDfs, FlagsG, Toggles
LEMMA OnlyDfsH == OnlyDfs(FlagsH) BY DEF OnlyDfs, FlagsH, Toggles
LEMMA OnlyDfsI == OnlyDfs(FlagsI) BY DEF OnlyDfs, FlagsI, Toggles

LEMMA OnlyDfsTable == OnlyDfs(Table)
BY OnlyDfsA, OnlyDfsB, OnlyDfsC, OnlyDfsD, OnlyDfsE, OnlyDfsF, OnlyDfsG, OnlyDfsH, OnlyDfsI
   DEF OnlyDfs, Table

\* CGOptions has a member for each option that is watched.
LEMMA WatchedRows ==
    /\ <<"--klee", "klee", "on">> \in FlagsA /\ <<"--crest", "crest", "on">> \in FlagsA
    /\ <<"--coverage-test", "coverage_test", "on">> \in FlagsA
    /\ <<"--dfs-exhaustive", "dfs_exhaustive", "on">> \in FlagsA
    /\ <<"--dfs-exhaustive", "random_based", "off">> \in FlagsA
    /\ <<"--max-exhaustive-depth", "max_exhaustive_depth", "num">> \in FlagsC
    /\ <<"--fixed-struct-fields", "fixed_struct_fields", "on">> \in FlagsB
    /\ <<"--max-split-files", "max_split_files", "num">> \in FlagsA
    /\ <<"--split-files-dir", "split_files_dir", "str">> \in FlagsA
    /\ <<"--lang-cpp", "lang_cpp", "on">> \in FlagsI /\ <<"--cpp11", "cpp11", "on">> \in FlagsI
    /\ <<"--match-exact-qualifiers", "match_exact_qualifiers", "on">> \in FlagsG
    /\ <<"--vol-struct-union-fields", "vol_struct_union_fields", "on">> \in FlagsH
    /\ <<"--const-struct-union-fields", "const_struct_union_fields", "on">> \in FlagsH
    /\ <<"--random-random", "random_random", "on">> \in FlagsF
    /\ <<"--int-size", "int_size", "num">> \in FlagsI
    /\ <<"--ptr-size", "pointer_size", "num">> \in FlagsI
<1>2. <<"--vol-struct-union-fields", "vol_struct_union_fields", "on">> \in FlagsH
    BY DEF FlagsH, Toggles
<1>3. <<"--const-struct-union-fields", "const_struct_union_fields", "on">> \in FlagsH
    BY DEF FlagsH, Toggles
<1> QED BY <1>2, <1>3 DEF FlagsA, FlagsB, FlagsC, FlagsF, FlagsG, FlagsI

LEMMA OptionOfRow ==
    ASSUME NEW r \in Table, r[2] # "kind", r[3] \in {"on", "off", "num", "str"}
    PROVE  r[2] \in OptionNames
BY DEF OptionNames, BoolOptions, NumOptions, StrOptions

LEMMA WatchedOptions == Watched \subseteq OptionNames
<1> SUFFICES ASSUME NEW x \in Watched PROVE x \in OptionNames OBVIOUS
<1>1. PICK r \in Table : r[2] = x /\ r[3] \in {"on", "off", "num", "str"}
    <2>1. \E r \in Table : r[2] = x /\ r[3] \in {"on", "off", "num", "str"}
        BY WatchedRows DEF Watched, Extensions, Table
    <2> QED BY <2>1
<1>2. x # "kind" BY DEF Watched, Extensions
<1> QED BY <1>1, <1>2, OptionOfRow

-----------------------------------------------------------------------------
(* The argument loop.                                                      *)

LEMMA RowsOf ==
    ASSUME NEW flag \in Flags
    PROVE  Rows[flag] = {r \in Table : r[1] = flag}
BY DEF Rows

\* An argument sets both options that choose the generator, or neither.
LEMMA AssignKeeps ==
    ASSUME OptionsAssumption, DOMAIN opts = OptionNames, Exclusive(opts),
           NEW flag \in Flags, NEW v, Assign(flag, v),
           (\E r \in Rows[flag] : r[2] = "kind") => v \in Kinds
    PROVE  DOMAIN opts' = OptionNames /\ Exclusive(opts)'
<1>1. \A r : r \in Rows[flag] <=> r \in Table /\ r[1] = flag
    BY ZenonT(30), RowsOf
<1>2. DOMAIN opts' = OptionNames BY DEF Assign
<1>3. {"dfs_exhaustive", "random_based"} \subseteq OptionNames
    BY WatchedOptions DEF Watched
<1>4. ASSUME NEW x \in {"dfs_exhaustive", "random_based"}
      PROVE  opts'[x] = IF \E r \in Rows[flag] : Target(r, v) = x
                        THEN NewValue(CHOOSE r \in Rows[flag] : Target(r, v) = x, v)
                        ELSE opts[x]
    BY <1>3 DEF Assign
<1>5. \A r \in Rows[flag] :
        /\ r[2] = "dfs_exhaustive" => flag = "--dfs-exhaustive" /\ r[3] = "on"
        /\ r[2] = "random_based" => flag = "--dfs-exhaustive" /\ r[3] = "off"
        /\ flag = "--dfs-exhaustive" => r[2] # "kind"
    BY <1>1, OnlyDfsTable DEF OnlyDfs
<1>6. CASE flag = "--dfs-exhaustive"
    <2>1. \A r \in Rows[flag] : Target(r, v) = r[2] BY <1>5, <1>6 DEF Target
    <2>2. /\ <<"--dfs-exhaustive", "dfs_exhaustive", "on">> \in Rows[flag]
          /\ <<"--dfs-exhaustive", "random_based", "off">> \in Rows[flag]
        BY <1>1, <1>6, WatchedRows DEF Table
    <2>3. ASSUME NEW x, \E r \in Rows[flag] : r[2] = x
          PROVE  /\ \E r \in Rows[flag] : Target(r, v) = x
                 /\ (CHOOSE r \in Rows[flag] : Target(r, v) = x) \in Rows[flag]
                 /\ (CHOOSE r \in Rows[flag] : Target(r, v) = x)[2] = x
        <3> DEFINE c == CHOOSE r \in Rows[flag] : Target(r, v) = x
        <3>1. \E r \in Rows[flag] : Target(r, v) = x BY <2>1, <2>3
        <3>2. c \in Rows[flag] /\ Target(c, v) = x BY <3>1
        <3>3. c[2] = x BY <2>1, <3>2
        <3> QED BY <3>1, <3>2, <3>3
    <2>4. opts'["dfs_exhaustive"] = TRUE
        <3> DEFINE c == CHOOSE r \in Rows[flag] : Target(r, v) = "dfs_exhaustive"
        <3>1. \E r \in Rows[flag] : r[2] = "dfs_exhaustive" BY <2>2
        <3>2. c[3] = "on" BY <1>5, <2>3, <3>1
        <3>3. NewValue(c, v) = TRUE
            <4> HIDE DEF c
            <4> QED BY <3>2 DEF NewValue
        <3>4. opts'["dfs_exhaustive"] = NewValue(c, v) BY <1>4, <2>3, <3>1
        <3> QED BY <3>3, <3>4
    <2>5. opts'["random_based"] = FALSE
        <3> DEFINE c == CHOOSE r \in Rows[flag] : Target(r, v) = "random_based"
        <3>1. \E r \in Rows[flag] : r[2] = "random_based" BY <2>2
        <3>2. c[3] = "off" BY <1>5, <2>3, <3>1
        <3>3. NewValue(c, v) = FALSE
            <4> HIDE DEF c
            <4> QED BY <3>2 DEF NewValue
        <3>4. opts'["random_based"] = NewValue(c, v) BY <1>4, <2>3, <3>1
        <3> QED BY <3>3, <3>4
    <2> QED BY <1>2, <2>4, <2>5 DEF Exclusive
<1>7. CASE flag # "--dfs-exhaustive"
    <2>1. ASSUME NEW x \in {"dfs_exhaustive", "random_based"}
          PROVE  opts'[x] = opts[x]
        <3>1. ASSUME NEW r \in Rows[flag] PROVE Target(r, v) # x
            <4>1. r[2] # x BY <1>5, <1>7
            <4>2. CASE r[2] # "kind" BY <4>1, <4>2 DEF Target
            <4>3. CASE r[2] = "kind"
                <5>1. v \in Kinds BY <4>3
                <5>2. /\ <<"--dfs-exhaustive", "dfs_exhaustive", "on">> \in Table
                      /\ <<"--dfs-exhaustive", "random_based", "off">> \in Table
                    BY WatchedRows DEF Table
                <5>3. PICK t \in Table : t[2] = x BY <5>2
                <5> QED BY <4>3, <5>1, <5>3 DEF Target, OptionsAssumption
            <4> QED BY <4>2, <4>3
        <3> QED BY <1>4, <3>1
    <2> QED BY <1>2, <2>1 DEF Exclusive
<1> QED BY <1>6, <1>7

-----------------------------------------------------------------------------
(* The actions.                                                            *)

LEMMA InitHolds == OptionsAssumption /\ Init => OInv
<1> SUFFICES ASSUME OptionsAssumption, Init PROVE OInv OBVIOUS
<1> DEFINE D == set_default_settings
<1>1. DOMAIN D = OptionNames BY DEF set_default_settings
<1>2. PICK sizes : opts = WithSizes(sizes) BY DEF Init, set_platform_specific_options
<1>3. DOMAIN opts = OptionNames BY <1>1, <1>2 DEF WithSizes
<1>4. {"dfs_exhaustive", "random_based"} \subseteq OptionNames
    BY WatchedOptions DEF Watched
<1>5. opts["dfs_exhaustive"] = D["dfs_exhaustive"] /\ opts["random_based"] = D["random_based"]
    BY <1>1, <1>2, <1>4 DEF WithSizes
<1>6. {"dfs_exhaustive", "random_based"} \cap DOMAIN DefaultNumbers = {} BY DEF DefaultNumbers
<1>7. D["random_based"] = TRUE BY <1>4, <1>6 DEF set_default_settings, DefaultOn
<1>8. D["dfs_exhaustive"] = StaticInit["dfs_exhaustive"]
    <2>1. "dfs_exhaustive" \notin DefaultOn \cup set_default_builtin_kinds
        BY DEF DefaultOn, set_default_builtin_kinds
    <2> QED BY <1>4, <1>6, <2>1 DEF set_default_settings
<1>9. StaticInit["dfs_exhaustive"] = FALSE
    <2>1. \A r \in Table : r[2] = "dfs_exhaustive" => r[3] = "on" BY OnlyDfsTable DEF OnlyDfs
    <2>2. "dfs_exhaustive" \notin NumOptions /\ "dfs_exhaustive" \notin StrOptions
              /\ "dfs_exhaustive" \notin SetOptions
        BY <2>1 DEF NumOptions, StrOptions, SetOptions
    <2> QED BY <1>4, <2>2 DEF StaticInit
<1>10. Exclusive(opts) BY <1>5, <1>7, <1>8, <1>9 DEF Exclusive
<1>11. status \in {"parse", "exit"} /\ gen = "none"
    BY DEF Init, set_platform_specific_options
<1> QED BY <1>3, <1>10, <1>11 DEF OInv

\* A flag with a kind of built-ins for its argument is none of the others.
LEMMA KindFlags ==
    ASSUME NEW flag \in Flags, \E r \in Rows[flag] : r[2] = "kind"
    PROVE  flag \in StrFlags /\ flag \notin NumFlags /\ flag \notin SetFlags
<1>1. \A r : r \in Rows[flag] <=> r \in Table /\ r[1] = flag BY RowsOf
<1>2. flag \in StrFlags BY DEF StrFlags
<1>3. \A r \in Rows[flag] : r[3] # "num" BY <1>1, OnlyDfsTable DEF OnlyDfs
<1>4. flag \notin NumFlags BY <1>3 DEF NumFlags, Effects
<1> QED BY <1>2, <1>4 DEF SetFlags

LEMMA ParseKeeps ==
    ASSUME OptionsAssumption, OInv, ParseSet \/ ParseNum \/ ParseStr
    PROVE  OInv'
<1>1. status = "parse" BY DEF ParseSet, ParseNum, ParseStr
<1>2. PICK flag \in Flags :
        \E v : Assign(flag, v) /\ ((\E r \in Rows[flag] : r[2] = "kind") => v \in Kinds)
    <2>1. CASE ParseSet
        <3>1. PICK flag \in SetFlags : Assign(flag, 0) BY <2>1 DEF ParseSet
        <3>2. flag \in Flags BY DEF SetFlags
        <3> QED BY <3>1, <3>2, KindFlags
    <2>2. CASE ParseNum
        <3>1. PICK flag \in NumFlags : \E n : Assign(flag, n) BY <2>2 DEF ParseNum
        <3>2. flag \in Flags BY DEF NumFlags
        <3> QED BY <3>1, <3>2, KindFlags
    <2>3. CASE ParseStr
        <3>1. PICK flag \in StrFlags : \E s \in parse_string_arg(flag) : Assign(flag, s)
            BY <2>3 DEF ParseStr
        <3>2. flag \in Flags BY DEF StrFlags
        <3> QED BY <3>1, <3>2 DEF parse_string_arg
    <2> QED BY <2>1, <2>2, <2>3
<1>3. DOMAIN opts' = OptionNames /\ Exclusive(opts)' BY <1>2, AssignKeeps DEF OInv
<1>4. status' = "parse" /\ gen' = "none" BY <1>1, <1>2 DEF Assign, OInv
<1> QED BY <1>3, <1>4 DEF OInv

LEMMA StopKeeps ==
    ASSUME OInv, status = "parse", NEW how \in {"done", "exit", "invalid"}, NEW what,
           Stop(how, what)
    PROVE  OInv'
BY DEF OInv, Stop

\* The checks accept no two extensions, no exhaustive mode out of bounds and no C++11 in C.
LEMMA ChecksSuffice ==
    ASSUME NEW o, DOMAIN o = OptionNames, Exclusive(o), NEW dir_ok, ~has_conflict(o, dir_ok),
           o.lang_cpp => /\ o.match_exact_qualifiers
                         /\ ~o.vol_struct_union_fields
                         /\ ~o.const_struct_union_fields
    PROVE  Accepted(Resolved(o)) /\ Exclusive(Resolved(o)) /\ DOMAIN Resolved(o) = OptionNames
<1> DEFINE q == Resolved(o)
<1>1. DOMAIN q = OptionNames BY DEF Resolved, FixedFields
<1>2. \A x \in Watched \ {"fixed_struct_fields", "split_files_dir"} : q[x] = o[x]
    BY WatchedOptions DEF Resolved, FixedFields
<1>3. q["fixed_struct_fields"] = (o["fixed_struct_fields"] \/ o["dfs_exhaustive"])
    BY WatchedOptions DEF Resolved, FixedFields, Watched
<1>4. ~has_random_based_conflict(o) /\ ~resolve_exhaustive_options(o)
        /\ ~has_extension_conflict(o) /\ ~(~o.lang_cpp /\ o.cpp11)
    BY DEF has_conflict
<1>5. OneExtension(o) BY <1>4 DEF has_extension_conflict, OneExtension, Extensions
<1>6. o.dfs_exhaustive => /\ \A x \in Extensions : ~o[x]
                          /\ ~(o.max_exhaustive_depth <= 0)
                          /\ ~(o.max_split_files > 0)
    BY <1>4 DEF Exclusive, has_random_based_conflict, resolve_exhaustive_options,
                has_extension_support, Extensions
<1> HIDE DEF q
<1>7. OneExtension(q) BY <1>2, <1>5 DEF OneExtension, Watched, Extensions
<1>8. Bounded(q) BY <1>2, <1>3, <1>6 DEF Bounded, Watched, Extensions
<1>9. ForCpp(q) BY <1>2, <1>4 DEF ForCpp, Watched
<1>10. Exclusive(q) BY <1>2 DEF Exclusive, Watched
<1> QED BY <1>1, <1>7, <1>8, <1>9, <1>10 DEF Accepted, q

LEMMA CheckKeeps ==
    ASSUME OInv, CheckConflicts
    PROVE  OInv'
<1> DEFINE fixed == IF opts.lang_cpp THEN fix_options_for_cpp(opts) ELSE opts
<1>1. DOMAIN fixed = OptionNames BY DEF OInv, fix_options_for_cpp
<1>2. \A x \in {"dfs_exhaustive", "random_based", "lang_cpp"} : fixed[x] = opts[x]
    BY WatchedOptions DEF OInv, Watched, fix_options_for_cpp
<1>3. fixed["lang_cpp"] => /\ fixed["match_exact_qualifiers"]
                           /\ ~fixed["vol_struct_union_fields"]
                           /\ ~fixed["const_struct_union_fields"]
    BY <1>2, WatchedOptions DEF OInv, Watched, fix_options_for_cpp
<1>4. Exclusive(fixed) BY <1>2 DEF OInv, Exclusive
<1>5. PICK dir_ok \in BOOLEAN :
        IF has_conflict(fixed, dir_ok)
        THEN status' = "conflict" /\ opts' = fixed
        ELSE status' = "create" /\ opts' = Resolved(fixed)
    BY DEF CheckConflicts
<1>6. gen' = "none" BY DEF CheckConflicts, OInv
<1> HIDE DEF fixed
<1>7. CASE has_conflict(fixed, dir_ok) BY <1>1, <1>4, <1>5, <1>6, <1>7 DEF OInv
<1>8. CASE ~has_conflict(fixed, dir_ok)
    <2>1. Accepted(opts') /\ Exclusive(opts') /\ DOMAIN opts' = OptionNames
        BY <1>1, <1>3, <1>4, <1>5, <1>8, ChecksSuffice
    <2> QED BY <1>5, <1>6, <1>8, <2>1 DEF OInv
<1> QED BY <1>7, <1>8

LEMMA CreateKeeps ==
    ASSUME OInv, CreateInstance
    PROVE  OInv'
<1>1. DOMAIN opts = OptionNames /\ Exclusive(opts) /\ Accepted(opts)
    BY DEF OInv, CreateInstance
<1>2. DOMAIN opts' = OptionNames /\ \A x \in Watched \ {"random_random"} : opts'[x] = opts[x]
    BY <1>1, WatchedOptions DEF CreateInstance
<1>3. Exclusive(opts') BY <1>1, <1>2 DEF Exclusive, Watched
<1>4. Bounded(opts') BY <1>1, <1>2 DEF Accepted, Bounded, Watched, Extensions
<1>5. status' \in {"done", "generate", "exit"} BY DEF CreateInstance
<1>6. gen' = "dfs" => opts'["dfs_exhaustive"] BY <1>2 DEF CreateInstance, Watched
<1>7. ASSUME status' = "generate" PROVE ExtensionsHonoured' /\ CppRestricted'
    <2>1. opts' = opts BY <1>7 DEF CreateInstance
    <2>2. extension' = IF opts.dfs_exhaustive THEN "none" ELSE CreateExtension(opts)
        BY DEF CreateInstance
    <2>3. ASSUME NEW x \in Extensions, opts[x] PROVE x = extension'
        <3>1. ~opts.dfs_exhaustive BY <1>1, <2>3 DEF Accepted, Bounded
        <3>2. CreateExtension(opts) \in Extensions /\ opts[CreateExtension(opts)]
            BY <2>3 DEF CreateExtension, Extensions
        <3>3. x = CreateExtension(opts) BY <1>1, <2>3, <3>2 DEF Accepted, OneExtension
        <3> QED BY <2>2, <3>1, <3>3
    <2>4. ExtensionsHonoured' BY <2>1, <2>3 DEF ExtensionsHonoured, Extensions
    <2>5. CppRestricted' BY <1>1, <2>1 DEF CppRestricted, Accepted, ForCpp
    <2> QED BY <2>4, <2>5
<1> QED BY <1>2, <1>3, <1>4, <1>5, <1>6, <1>7 DEF OInv

LEMMA NextKeeps == OptionsAssumption /\ OInv /\ [Next]_vars => OInv'
<1> SUFFICES ASSUME OptionsAssumption, OInv, [Next]_vars PROVE OInv' OBVIOUS
<1>1. CASE ParseHelp
    <2>1. status = "parse" /\ \E flag : Stop("done", flag) BY <1>1 DEF ParseHelp
    <2> QED BY <2>1, StopKeeps
<1>2. CASE ParseSet \/ ParseNum \/ ParseStr BY <1>2, ParseKeeps
<1>3. CASE BadArgument
    <2>1. status = "parse" /\ \E flag : Stop("exit", flag) BY <1>3 DEF BadArgument
    <2> QED BY <2>1, StopKeeps
<1>4. CASE InvalidOption
    <2>1. status = "parse" /\ \E flag : Stop("invalid", flag) BY <1>4 DEF InvalidOption
    <2> QED BY <2>1, StopKeeps
<1>5. CASE CheckConflicts BY <1>5, CheckKeeps
<1>6. CASE CreateInstance BY <1>6, CreateKeeps
<1>7. CASE UNCHANGED vars
    <2>1. UNCHANGED <<opts, status, gen, extension>> BY <1>7 DEF vars
    <2> QED BY <2>1 DEF OInv, ExtensionsHonoured, CppRestricted
<1> QED BY <1>1, <1>2, <1>3, <1>4, <1>5, <1>6, <1>7 DEF Next, Ended

\* No command line, however long, gets past the conflict checks with an extension that
\* is dropped, with C++ settings C++ cannot have, or with an unbounded exhaustive mode.
THEOREM ConflictsNeverPass == Spec => []ConflictsCaught
<1>1. OInv => ConflictsCaught
    <2> SUFFICES ASSUME OInv PROVE ConflictsCaught OBVIOUS
    <2>1. ExtensionsHonoured /\ CppRestricted
        <3>1. CASE status = "generate" BY <3>1 DEF OInv
        <3>2. CASE status # "generate" BY <3>2 DEF ExtensionsHonoured, CppRestricted
        <3> QED BY <3>1, <3>2
    <2>2. ExhaustiveBounded BY DEF OInv, ExhaustiveBounded, Exclusive, Bounded
    <2> QED BY <2>1, <2>2 DEF ConflictsCaught
<1> QED BY <1>1, InitHolds, NextKeeps, OptionsAssumption, PTL DEF Spec


-----------------------------------------------------------------------------
(* The sort of an option.                                                  *)

NumNames ==
    {"array_oob_prob", "builtin_function_prob", "coverage_test_size",
     "dead_pointer_dereference_prob", "func1_max_params", "inline_function_prob", "int_size",
     "max_array_dimensions", "max_array_length", "max_array_length_per_dimension",
     "max_blk_depth", "max_block_size", "max_exhaustive_depth", "max_expr_depth", "max_funcs",
     "max_indirect_level", "max_nested_struct_level", "max_params", "max_split_files",
     "max_struct_fields", "max_union_fields", "null_pointer_dereference_prob",
     "pointer_size", "seed", "stop_by_stmt"}

StrNames ==
    {"delta_input", "delta_monitor", "delta_output", "dfs_debug_sequence",
     "dump_default_probabilities", "dump_random_probabilities", "go_delta", "output_file",
     "partial_expand", "probability_configuration", "split_files_dir", "struct_output"}

SetNames == {"monitored_funcs", "safe_math_wrapper"}

\* The flags with a number for their argument.
NumFlagNames ==
    {"--array-oob-prob", "--builtin-function-prob", "--coverage-test-size",
     "--dangling-ptr-deref-prob", "--func1_max_params", "--inline-function-prob",
     "--int-size", "--max-array-dim", "--max-array-len-per-dim", "--max-block-depth",
     "--max-block-size", "--max-exhaustive-depth", "--max-expr-complexity", "--max-funcs",
     "--max-nested-struct-level", "--max-pointer-depth", "--max-split-files",
     "--max-struct-fields", "--max-struct-nested-level", "--max-union-fields",
     "--null-ptr-deref-prob", "--ptr-size", "--seed", "--stop-by-stmt", "-s"}

\* A row assigns its option a value of the option's sort.
Sorted(F) ==
    \A r \in F : /\ r[3] \in {"on", "off", "num", "five", "str", "add"}
                 /\ r[3] \in {"num", "five"} <=> r[2] \in NumNames
                 /\ r[3] = "str" <=> r[2] \in StrNames
                 /\ r[3] = "add" <=> r[2] \in SetNames
                 /\ r[3] = "num" <=> r[1] \in NumFlagNames

LEMMA SortedA == Sorted(FlagsA) BY DEF Sorted, NumNames, StrNames, SetNames, NumFlagNames, FlagsA, Toggles
LEMMA SortedB == Sorted(FlagsB) BY DEF Sorted, NumNames, StrNames, SetNames, NumFlagNames, FlagsB, Toggles
LEMMA SortedC == Sorted(FlagsC) BY DEF Sorted, NumNames, StrNames, SetNames, NumFlagNames, FlagsC, Toggles
LEMMA SortedD == Sorted(FlagsD) BY DEF Sorted, NumNames, StrNames, SetNames, NumFlagNames, FlagsD, Toggles
LEMMA SortedE == Sorted(FlagsE) BY DEF Sorted, NumNames, StrNames, SetNames, NumFlagNames, FlagsE, Toggles
LEMMA SortedF == Sorted(FlagsF) BY DEF Sorted, NumNames, StrNames, SetNames, NumFlagNames, FlagsF, Toggles
LEMMA SortedG == Sorted(FlagsG) BY DEF Sorted, NumNames, StrNames, SetNames, NumFlagNames, FlagsG, Toggles
LEMMA SortedH == Sorted(FlagsH) BY DEF Sorted, NumNames, StrNames, SetNames, NumFlagNames, FlagsH, Toggles
LEMMA SortedI == Sorted(FlagsI) BY DEF Sorted, NumNames, StrNames, SetNames, NumFlagNames, FlagsI, Toggles

LEMMA SortedTable == Sorted(Table)
BY SortedA, SortedB, SortedC, SortedD, SortedE, SortedF, SortedG, SortedH, SortedI
   DEF Sorted, Table

\* A value of the sort of option o.
Fits(o, w) ==
    /\ o \in NumOptions => w \in Int
    /\ o \in StrOptions => w \in Words \cup {"", "./output"}
    /\ o \in SetOptions => w \subseteq Words
    /\ o \in BoolOptions => w \in BOOLEAN

AllFit(p) == DOMAIN p = OptionNames /\ \A o \in OptionNames : Fits(o, p[o])

LEMMA NamesOfSorts ==
    /\ NumOptions \subseteq NumNames /\ StrOptions \subseteq StrNames
    /\ SetOptions \subseteq SetNames
    /\ (BoolOptions \ Kinds) \cap (NumNames \cup StrNames \cup SetNames) = {}
<1>1. {"max_params", "max_array_length"} \subseteq NumNames BY DEF NumNames
<1>2. NumOptions \subseteq NumNames BY <1>1, SortedTable DEF NumOptions, Sorted
<1>3. StrOptions \subseteq StrNames /\ SetOptions \subseteq SetNames
    BY SortedTable DEF StrOptions, SetOptions, Sorted
<1>4. (BoolOptions \ Kinds) \cap (NumNames \cup StrNames \cup SetNames) = {}
    BY SortedTable DEF BoolOptions, Sorted
<1> QED BY <1>2, <1>3, <1>4

LEMMA NamesApart ==
    NumNames \cap StrNames = {} /\ NumNames \cap SetNames = {} /\ StrNames \cap SetNames = {}
BY DEF NumNames, StrNames, SetNames

\* An option has one sort.
LEMMA SortsApart ==
    /\ NumOptions \cap (StrOptions \cup SetOptions \cup BoolOptions) = {}
    /\ StrOptions \cap (SetOptions \cup BoolOptions) = {}
    /\ SetOptions \cap BoolOptions = {}
<1>1. (NumOptions \cup StrOptions \cup SetOptions) \cap Kinds = {}
    BY OptionsAssumption DEF NumOptions, StrOptions, SetOptions
<1> QED BY <1>1, NamesOfSorts, NamesApart

LEMMA NumbersNoKinds == ASSUME NEW o \in NumOptions PROVE o \in NumNames /\ o \notin Kinds
BY NamesOfSorts, OptionsAssumption DEF NumOptions

LEMMA FitsTruth ==
    ASSUME NEW o, o \notin NumNames \cup StrNames \cup SetNames, NEW w \in BOOLEAN
    PROVE  Fits(o, w)
BY NamesOfSorts DEF Fits

LEMMA FitsNumber ==
    ASSUME NEW o \in NumNames, o \notin Kinds, NEW w \in Int
    PROVE  Fits(o, w)
BY NamesOfSorts, NamesApart DEF Fits

LEMMA FitsWord ==
    ASSUME NEW o \in StrNames, o \notin Kinds, NEW w \in Words \cup {"", "./output"}
    PROVE  Fits(o, w)
BY NamesOfSorts, NamesApart DEF Fits

LEMMA FitsWords ==
    ASSUME NEW o \in SetNames, o \notin Kinds, NEW w, w \subseteq Words
    PROVE  Fits(o, w)
BY NamesOfSorts, NamesApart DEF Fits

LEMMA NumbersByDefault ==
    ASSUME NEW o \in DOMAIN DefaultNumbers
    PROVE  o \in NumNames /\ DefaultNumbers[o] \in Int
<1>1. o \in NumNames BY DEF DefaultNumbers, NumNames
<1>2. \E x \in {10, 5, 4, 3, 256, -1, 500, 50} : DefaultNumbers[o] = x BY DEF DefaultNumbers
<1>3. DefaultNumbers[o] \in Int BY <1>2
<1> QED BY <1>1, <1>3

\* The options set_default_settings gives a number are numeric, and main has flags for all
\* of them but two.
LEMMA DefaultsTabled ==
    ASSUME NEW o \in DOMAIN DefaultNumbers
    PROVE  o \in NumNames /\ o \notin Kinds /\ DefaultNumbers[o] \in Int
<1>1. o \in NumNames /\ DefaultNumbers[o] \in Int BY NumbersByDefault
<1>2. o \in {"max_params", "max_array_length"} \/ \E r \in Table : r[2] = o
    <2>1. /\ <<"--max-funcs", "max_funcs", "num">> \in FlagsA
          /\ <<"--max-block-size", "max_block_size", "num">> \in FlagsA
          /\ <<"--func1_max_params", "func1_max_params", "num">> \in FlagsA
          /\ <<"--coverage-test-size", "coverage_test_size", "num">> \in FlagsA
          /\ <<"--max-struct-fields", "max_struct_fields", "num">> \in FlagsB
          /\ <<"--max-union-fields", "max_union_fields", "num">> \in FlagsB
          /\ <<"--max-nested-struct-level", "max_nested_struct_level", "num">> \in FlagsB
          /\ <<"--max-exhaustive-depth", "max_exhaustive_depth", "num">> \in FlagsC
          /\ <<"--max-pointer-depth", "max_indirect_level", "num">> \in FlagsC
        BY DEF FlagsA, FlagsB, FlagsC
    <2>2. /\ <<"--max-array-dim", "max_array_dimensions", "num">> \in FlagsD
          /\ <<"--max-array-len-per-dim", "max_array_length_per_dimension", "num">> \in FlagsD
          /\ <<"--stop-by-stmt", "stop_by_stmt", "num">> \in FlagsF
          /\ <<"--inline-function-prob", "inline_function_prob", "num">> \in FlagsG
          /\ <<"--builtin-function-prob", "builtin_function_prob", "num">> \in FlagsG
          /\ <<"--max-expr-complexity", "max_expr_depth", "num">> \in FlagsH
          /\ <<"--max-block-depth", "max_blk_depth", "num">> \in FlagsH
        BY DEF FlagsD, FlagsF, FlagsG, FlagsH
    <2>3. o \in {"max_params", "max_array_length"}
            \cup {"max_funcs", "max_block_size", "func1_max_params", "coverage_test_size",
                  "max_struct_fields", "max_union_fields", "max_nested_struct_level",
                  "max_exhaustive_depth", "max_indirect_level"}
            \cup {"max_array_dimensions", "max_array_length_per_dimension", "stop_by_stmt",
                  "inline_function_prob", "builtin_function_prob", "max_expr_depth",
                  "max_blk_depth"}
        BY DEF DefaultNumbers
    <2>4. FlagsA \subseteq Table /\ FlagsB \subseteq Table /\ FlagsC \subseteq Table
            /\ FlagsD \subseteq Table /\ FlagsF \subseteq Table /\ FlagsG \subseteq Table
            /\ FlagsH \subseteq Table
        BY DEF Table
    <2>5. CASE o \in {"max_funcs", "max_block_size", "func1_max_params", "coverage_test_size",
                      "max_struct_fields", "max_union_fields", "max_nested_struct_level",
                      "max_exhaustive_depth", "max_indirect_level"}
        BY <2>1, <2>4, <2>5
    <2>6. CASE o \in {"max_array_dimensions", "max_array_length_per_dimension", "stop_by_stmt",
                      "inline_function_prob", "builtin_function_prob", "max_expr_depth",
                      "max_blk_depth"}
        BY <2>2, <2>4, <2>6
    <2> QED BY <2>3, <2>5, <2>6
<1> QED BY <1>1, <1>2, OptionsAssumption

-----------------------------------------------------------------------------
(* The defaults.                                                           *)

LEMMA DefaultsFit ==
    AllFit(set_default_settings)
<1> DEFINE D == set_default_settings
<1>1. DOMAIN D = OptionNames BY DEF set_default_settings
<1>2. ASSUME NEW o \in OptionNames PROVE Fits(o, D[o])
    <2>1. CASE o \in DOMAIN DefaultNumbers
        <3>1. D[o] = DefaultNumbers[o] BY <2>1 DEF set_default_settings
        <3> QED BY <2>1, <3>1, DefaultsTabled, FitsNumber
    <2>2. CASE o \notin DOMAIN DefaultNumbers /\ o \in DefaultOn \cup set_default_builtin_kinds
        <3>1. D[o] = TRUE BY <2>2 DEF set_default_settings
        <3>2. o \notin NumNames \cup StrNames \cup SetNames
            BY <2>2 DEF DefaultOn, set_default_builtin_kinds, NumNames, StrNames, SetNames
        <3> QED BY <3>1, <3>2, FitsTruth
    <2>3. CASE o \notin DOMAIN DefaultNumbers /\ o \notin DefaultOn \cup set_default_builtin_kinds
        <3>1. D[o] = StaticInit[o] BY <2>3 DEF set_default_settings
        <3>2. StaticInit[o] = IF o \in NumOptions THEN 0
                              ELSE IF o \in StrOptions THEN ""
                              ELSE IF o \in SetOptions THEN {} ELSE FALSE
            BY DEF StaticInit
        <3>3. CASE o \in NumOptions
            <4>1. D[o] = 0 BY <3>1, <3>2, <3>3
            <4>2. o \in NumNames /\ o \notin Kinds BY <3>3, NumbersNoKinds
            <4> HIDE DEF D
            <4> QED BY <4>1, <4>2, FitsNumber
        <3>4. CASE o \in StrOptions BY <3>1, <3>2, <3>4, SortsApart DEF Fits
        <3>5. CASE o \in SetOptions BY <3>1, <3>2, <3>5, SortsApart DEF Fits
        <3>6. CASE o \notin NumOptions \cup StrOptions \cup SetOptions
            BY <3>1, <3>2, <3>6 DEF Fits
        <3> QED BY <3>3, <3>4, <3>5, <3>6
    <2> QED BY <2>1, <2>2, <2>3
<1> QED BY <1>1, <1>2 DEF AllFit

\* A set of words starts empty.
LEMMA SetsEmpty ==
    ASSUME NEW o \in SetOptions
    PROVE  set_default_settings[o] = {} /\ o \notin {"int_size", "pointer_size"}
<1>1. o \in SetNames BY NamesOfSorts
<1>2. o \notin DOMAIN DefaultNumbers /\ o \notin DefaultOn \cup set_default_builtin_kinds
    BY <1>1 DEF SetNames, DefaultNumbers, DefaultOn, set_default_builtin_kinds
<1>3. o \in OptionNames BY DEF OptionNames
<1>4. StaticInit[o] = {} BY <1>3, SortsApart DEF StaticInit
<1>5. set_default_settings[o] = StaticInit[o] BY <1>2, <1>3 DEF set_default_settings
<1>6. o \notin {"int_size", "pointer_size"} BY <1>1 DEF SetNames
<1> QED BY <1>4, <1>5, <1>6

LEMMA WatchedTabled == \A o \in Watched : \E r \in Table : r[2] = o
BY WatchedRows DEF Watched, Extensions, Table

LEMMA SizesFit ==
    ASSUME NEW sizes, sizes.int_size \in Int, sizes.pointer_size \in Int
    PROVE  AllFit(WithSizes(sizes))
<1> DEFINE D == set_default_settings
           S == WithSizes(sizes)
           two == {"int_size", "pointer_size"}
<1>1. AllFit(D) BY DefaultsFit
<1>2. DOMAIN S = OptionNames BY <1>1 DEF AllFit, WithSizes
<1>3. two \subseteq OptionNames /\ two \subseteq NumNames /\ two \cap Kinds = {}
    <2>1. two \subseteq OptionNames BY WatchedOptions DEF Watched
    <2>2. two \subseteq NumNames BY DEF NumNames
    <2>3. two \cap Kinds = {} BY WatchedTabled, OptionsAssumption DEF Watched
    <2> QED BY <2>1, <2>2, <2>3
<1>4. S["int_size"] = sizes.int_size /\ S["pointer_size"] = sizes.pointer_size
    BY <1>1, <1>3 DEF AllFit, WithSizes
<1>5. \A o \in OptionNames \ two : S[o] = D[o] BY <1>1 DEF AllFit, WithSizes
<1>6. ASSUME NEW o \in OptionNames PROVE Fits(o, S[o])
    <2>1. CASE o \in two
        <3>1. S[o] \in Int BY <1>4, <2>1
        <3> QED BY <1>3, <2>1, <3>1, FitsNumber
    <2>2. CASE o \notin two BY <1>1, <1>5, <2>2 DEF AllFit
    <2> QED BY <2>1, <2>2
<1> QED BY <1>2, <1>6 DEF AllFit

-----------------------------------------------------------------------------
(* The rows of a flag and its argument.                                    *)

Values == Int \cup Words \cup Kinds

\* The argument main reads for a flag.
ArgFits(flag, v) ==
    /\ flag \in Flags /\ v \in Values
    /\ flag \in NumFlags => v \in Int
    /\ flag \in StrFlags => v \in parse_string_arg(flag)

LEMMA RowSorts ==
    ASSUME NEW flag \in Flags, NEW r \in Rows[flag]
    PROVE  /\ r \in Table /\ r[1] = flag
           /\ r[3] = "num" => flag \in NumFlags
           /\ r[3] \in {"str", "add"} \/ r[2] = "kind" => flag \in StrFlags
           /\ flag \in NumFlags => r[3] = "num" /\ r[2] # "kind"
           /\ r[3] \in {"str", "add"} => \A q \in Rows[flag] : q[2] # "kind"
           /\ r[2] = "kind" => r[3] \in {"on", "off"}
<1>1. \A q : q \in Rows[flag] <=> q \in Table /\ q[1] = flag BY RowsOf
<1>2. Effects[flag] = {q[3] : q \in Rows[flag]} BY DEF Effects
<1>3. r[3] = "num" => flag \in NumFlags BY <1>2 DEF NumFlags
<1>4. r[3] \in {"str", "add"} \/ r[2] = "kind" => flag \in StrFlags BY <1>2 DEF StrFlags
<1>5. r[2] = "kind" => r[3] \in {"on", "off"} BY <1>1, OnlyDfsTable DEF OnlyDfs
<1>6. flag \in NumFlags => r[3] = "num"
    <2>1. SUFFICES ASSUME flag \in NumFlags PROVE r[3] = "num" OBVIOUS
    <2>2. PICK q \in Rows[flag] : q[3] = "num" BY <1>2, <2>1 DEF NumFlags
    <2>3. flag \in NumFlagNames BY <1>1, <2>2, SortedTable DEF Sorted
    <2> QED BY <1>1, <2>3, SortedTable DEF Sorted
<1>7. ASSUME r[3] \in {"str", "add"}, NEW q \in Rows[flag] PROVE q[2] # "kind"
    <2>1. SUFFICES ASSUME q[2] = "kind" PROVE FALSE OBVIOUS
    <2>2. flag \in {"--enable-builtin-kinds", "--disable-builtin-kinds"}
        BY <1>1, <2>1, OnlyDfsTable DEF OnlyDfs
    <2>3. r[3] \in {"on", "off"} BY <1>1, <2>2, OnlyDfsTable DEF OnlyDfs
    <2> QED BY <1>7, <2>3
<1> QED BY <1>1, <1>3, <1>4, <1>5, <1>6, <1>7

LEMMA TabledNoKind ==
    ASSUME NEW r \in Table
    PROVE  r[2] \notin Kinds
<1>1. r[2] \in {q[2] : q \in Table} OBVIOUS
<1> QED BY <1>1, OptionsAssumption

LEMMA StatedNumbers == \A d \in DocumentedNumbers : d[2] \in Int
<1>1. \A d \in HelpA.number : d[2] \in Int BY DEF HelpA
<1>2. \A d \in HelpB.number : d[2] \in Int BY DEF HelpB
<1>3. \A d \in HelpC.number : d[2] \in Int BY DEF HelpC
<1>4. \A d \in HelpD.number : d[2] \in Int BY DEF HelpD
<1>5. ASSUME NEW d \in DocumentedNumbers
      PROVE  d \in HelpA.number \/ d \in HelpB.number \/ d \in HelpC.number \/ d \in HelpD.number
    BY DEF DocumentedNumbers, Helps
<1> QED BY <1>1, <1>2, <1>3, <1>4, <1>5

LEMMA SeedTabled == \E r \in Table : r[2] = "seed" /\ r[3] = "num"
<1>1. <<"--seed", "seed", "num">> \in Table BY DEF FlagsA, Table
<1> QED BY <1>1

LEMMA SeedNumber ==
    ASSUME AllFit(opts)
    PROVE  opts.seed \in Int
<1>1. "seed" \in NumOptions BY SeedTabled DEF NumOptions
<1> QED BY <1>1 DEF AllFit, Fits, OptionNames

LEMMA NumArgs ==
    ASSUME AllFit(opts), NEW flag \in NumFlags, NEW n \in parse_int_arg(flag)
    PROVE  ArgFits(flag, n)
<1>1. flag \in Flags BY DEF NumFlags
<1>2. EmptyValues(flag) \subseteq Int BY SeedNumber, OptionsAssumption DEF EmptyValues
<1>3. n \in Int
    <2>1. \/ n \in Numbers
          \/ \E d \in DocumentedNumbers : n = d[2]
          \/ n \in EmptyValues(flag)
        BY DEF parse_int_arg
    <2> QED BY <1>2, <2>1, StatedNumbers, OptionsAssumption
<1>4. flag \notin StrFlags
    <2>1. \A r \in Rows[flag] : r[3] = "num" /\ r[2] # "kind" BY <1>1, RowSorts
    <2>2. Effects[flag] = {q[3] : q \in Rows[flag]} BY <1>1 DEF Effects
    <2> QED BY <2>1, <2>2 DEF StrFlags
<1> QED BY <1>1, <1>3, <1>4 DEF ArgFits, Values

LEMMA StrArgs ==
    ASSUME NEW flag \in StrFlags, NEW v \in parse_string_arg(flag)
    PROVE  ArgFits(flag, v)
<1>1. flag \in Flags BY DEF StrFlags
<1>2. flag \notin NumFlags
    <2>1. flag \in NumFlags => \A r \in Rows[flag] : r[3] = "num" /\ r[2] # "kind"
        BY <1>1, RowSorts
    <2>2. Effects[flag] = {q[3] : q \in Rows[flag]} BY <1>1 DEF Effects
    <2> QED BY <2>1, <2>2 DEF StrFlags
<1>3. v \in Values BY DEF parse_string_arg, Values
<1> QED BY <1>1, <1>2, <1>3 DEF ArgFits

LEMMA SetArgs ==
    ASSUME NEW flag \in SetFlags
    PROVE  ArgFits(flag, 0)
BY DEF SetFlags, ArgFits, Values

LEMMA NumberAssigned ==
    ASSUME NEW r, NEW v, r[3] \in {"num", "five"}, r[3] = "num" => v \in Int
    PROVE  NewValue(r, v) \in Int
<1>1. CASE r[3] = "num" BY <1>1 DEF NewValue
<1>2. CASE r[3] = "five" BY <1>2 DEF NewValue
<1> QED BY <1>1, <1>2

\* A row assigns a value of its option's sort.
LEMMA NewFits ==
    ASSUME AllFit(opts), NEW flag, NEW v, ArgFits(flag, v),
           NEW r \in Rows[flag]
    PROVE  Fits(Target(r, v), NewValue(r, v))
<1> DEFINE o == Target(r, v)
<1>1. /\ r \in Table /\ r[1] = flag
      /\ r[3] = "num" => flag \in NumFlags
      /\ r[3] \in {"str", "add"} \/ r[2] = "kind" => flag \in StrFlags
      /\ r[3] \in {"str", "add"} => \A q \in Rows[flag] : q[2] # "kind"
      /\ r[2] = "kind" => r[3] \in {"on", "off"}
    BY RowSorts DEF ArgFits
<1>2. r[2] \notin Kinds BY <1>1, TabledNoKind
<1>3. /\ r[3] \in {"on", "off", "num", "five", "str", "add"}
      /\ r[3] \in {"num", "five"} <=> r[2] \in NumNames
      /\ r[3] = "str" <=> r[2] \in StrNames
      /\ r[3] = "add" <=> r[2] \in SetNames
    BY <1>1, SortedTable DEF Sorted
<1>4. r[2] # "kind" => o = r[2] BY DEF Target
<1>5. CASE r[2] = "kind"
    <2>1. o \in Kinds BY <1>1, <1>5 DEF ArgFits, parse_string_arg, Target
    <2>2. NewValue(r, v) \in BOOLEAN BY <1>1, <1>5 DEF NewValue
    <2>3. o \notin NumOptions \cup StrOptions \cup SetOptions
        BY <2>1, OptionsAssumption DEF NumOptions, StrOptions, SetOptions
    <2> QED BY <2>2, <2>3 DEF Fits
<1>6. CASE r[2] # "kind" /\ r[3] \in {"on", "off"}
    <2>1. NewValue(r, v) \in BOOLEAN BY <1>6 DEF NewValue
    <2>2. r[2] \notin NumNames \cup StrNames \cup SetNames BY <1>3, <1>6
    <2> QED BY <1>4, <1>6, <2>1, <2>2, FitsTruth
<1>7. CASE r[3] \in {"num", "five"}
    <2>1. r[3] = "num" => v \in Int BY <1>1 DEF ArgFits
    <2>3. NewValue(r, v) \in Int BY <1>7, <2>1, NumberAssigned
    <2>2. o = r[2] /\ r[2] \in NumNames BY <1>1, <1>3, <1>4, <1>7
    <2> QED BY <1>2, <2>2, <2>3, FitsNumber
<1>8. CASE r[3] = "str"
    <2>1. NewValue(r, v) = v BY <1>8 DEF NewValue
    <2>2. v \in Words BY <1>1, <1>8 DEF ArgFits, parse_string_arg
    <2>3. o = r[2] /\ r[2] \in StrNames BY <1>1, <1>3, <1>4, <1>8
    <2> QED BY <1>2, <2>1, <2>2, <2>3, FitsWord
<1>9. CASE r[3] = "add"
    <2>1. NewValue(r, v) = opts[r[2]] \cup {v} BY <1>9 DEF NewValue
    <2>2. v \in Words BY <1>1, <1>9 DEF ArgFits, parse_string_arg
    <2>3. o = r[2] /\ r[2] \in SetNames BY <1>1, <1>3, <1>4, <1>9
    <2>4. r[2] \in SetOptions BY <1>1, <1>9 DEF SetOptions
    <2>5. opts[r[2]] \subseteq Words BY <2>4 DEF AllFit, Fits, OptionNames
    <2>6. NewValue(r, v) \subseteq Words BY <2>1, <2>2, <2>5
    <2> QED BY <1>2, <2>3, <2>6, FitsWords
<1> QED BY <1>3, <1>5, <1>6, <1>7, <1>8, <1>9

LEMMA AssignFits ==
    ASSUME AllFit(opts), NEW flag, NEW v, ArgFits(flag, v), Assign(flag, v)
    PROVE  AllFit(opts')
<1>1. DOMAIN opts' = OptionNames BY DEF Assign
<1>2. ASSUME NEW o \in OptionNames PROVE Fits(o, opts'[o])
    <2>1. CASE \E r \in Rows[flag] : Target(r, v) = o
        <3> DEFINE c == CHOOSE r \in Rows[flag] : Target(r, v) = o
        <3>1. c \in Rows[flag] /\ Target(c, v) = o BY <2>1
        <3>2. opts'[o] = NewValue(c, v) BY <2>1 DEF Assign
        <3> HIDE DEF c
        <3> QED BY <3>1, <3>2, NewFits
    <2>2. CASE ~\E r \in Rows[flag] : Target(r, v) = o
        <3>1. opts'[o] = opts[o] BY <2>2 DEF Assign
        <3> QED BY <3>1 DEF AllFit
    <2> QED BY <2>1, <2>2
<1> QED BY <1>1, <1>2 DEF AllFit

-----------------------------------------------------------------------------
(* What the arguments read so far ask for.                                 *)

Given == [flag : Flags, val : Values]

Hits(x, o) == \E r \in Rows[x.flag] : Target(r, x.val) = o

NamingIn(g, o) == {i \in 1..Len(g) : Hits(g[i], o)}

Last(N) == CHOOSE i \in N : \A j \in N : j <= i

HasLast(N) == N = {} \/ \E i \in N : \A j \in N : j <= i

\* The value a row assigns an option that is no set.
Plain(r, v) ==
    CASE r[3] = "on" -> TRUE
      [] r[3] = "off" -> FALSE
      [] r[3] = "five" -> 5
      [] OTHER -> v

Deciding(x, o) == CHOOSE r \in Rows[x.flag] : Target(r, x.val) = o

AskedBy(x, o) == Plain(Deciding(x, o), x.val)

AskedIn(g, o) ==
    IF o \in SetOptions THEN {g[i].val : i \in NamingIn(g, o)}
    ELSE IF NamingIn(g, o) = {} THEN WithSizes(HostSizes)[o]
    ELSE AskedBy(g[Last(NamingIn(g, o))], o)

LEMMA LastIn ==
    ASSUME NEW N, HasLast(N), N # {}
    PROVE  Last(N) \in N /\ \A j \in N : j <= Last(N)
BY DEF HasLast, Last

\* The last of two positions is one position.
LEMMA LastUnique ==
    ASSUME NEW N \in SUBSET Nat, NEW i \in N, \A j \in N : j <= i
    PROVE  Last(N) = i
<1>1. Last(N) \in N /\ \A j \in N : j <= Last(N) BY DEF Last
<1>2. Last(N) \in Nat /\ i \in Nat /\ Last(N) <= i /\ i <= Last(N) BY <1>1
<1>3. \A a, b \in Nat : a <= b /\ b <= a => a = b OBVIOUS
<1> QED BY <1>2, <1>3

LEMMA AppendNaming ==
    ASSUME NEW g \in Seq(Given), NEW x \in Given, NEW o
    PROVE  NamingIn(Append(g, x), o)
             = NamingIn(g, o) \cup (IF Hits(x, o) THEN {Len(g) + 1} ELSE {})
<1> DEFINE h == Append(g, x)
<1>1. Len(g) \in Nat /\ Len(h) = Len(g) + 1 BY LenProperties, AppendProperties
<1>2. h[Len(g) + 1] = x BY AppendProperties
<1>3. \A i \in 1..Len(g) : h[i] = g[i] BY AppendProperties
<1> HIDE DEF h
<1>4. ASSUME NEW i \in 1..Len(h)
      PROVE  Hits(h[i], o) <=> (i \in 1..Len(g) /\ Hits(g[i], o)) \/ (i = Len(g) + 1 /\ Hits(x, o))
    <2>1. i \in 1..Len(g) \/ i = Len(g) + 1 BY <1>1
    <2>2. Len(g) + 1 \notin 1..Len(g) BY <1>1
    <2>3. CASE i \in 1..Len(g)
        <3>1. i # Len(g) + 1 BY <2>2, <2>3
        <3>2. h[i] = g[i] BY <1>3, <2>3
        <3> QED BY <2>3, <3>1, <3>2
    <2>4. CASE i = Len(g) + 1
        <3>1. i \notin 1..Len(g) BY <2>2, <2>4
        <3>2. h[i] = x BY <1>2, <2>4
        <3> QED BY <2>4, <3>1, <3>2
    <2> QED BY <2>1, <2>3, <2>4
<1>5. 1..Len(g) \subseteq 1..Len(h) /\ Len(g) + 1 \in 1..Len(h) BY <1>1
<1> QED BY <1>4, <1>5 DEF NamingIn, h

LEMMA NamingPositions ==
    ASSUME NEW g \in Seq(Given), NEW o
    PROVE  /\ Len(g) \in Nat /\ NamingIn(g, o) \in SUBSET Nat
           /\ \A i \in NamingIn(g, o) : i \in 1..Len(g) /\ i <= Len(g)
BY LenProperties DEF NamingIn

LEMMA AppendHasLast ==
    ASSUME NEW g \in Seq(Given), NEW x \in Given, NEW o, HasLast(NamingIn(g, o))
    PROVE  /\ HasLast(NamingIn(Append(g, x), o))
           /\ Hits(x, o) => Last(NamingIn(Append(g, x), o)) = Len(g) + 1
<1> DEFINE n == Len(g) + 1
           M == NamingIn(Append(g, x), o)
<1>1. CASE Hits(x, o)
    <2>1. M = NamingIn(g, o) \cup {n} BY <1>1, AppendNaming
    <2>2. n \in M BY <2>1
    <2>3. \A j \in M : j <= n BY <2>1, NamingPositions
    <2>4. M \in SUBSET Nat BY <2>1, NamingPositions
    <2> HIDE DEF M, n
    <2>5. Last(M) = n BY <2>2, <2>3, <2>4, LastUnique
    <2> QED BY <2>2, <2>3, <2>5 DEF HasLast, M, n
<1>2. CASE ~Hits(x, o) BY <1>2, AppendNaming
<1> QED BY <1>1, <1>2

\* The last flag that names an option decides it.
LEMMA AppendAsked ==
    ASSUME NEW g \in Seq(Given), NEW x \in Given, NEW o, o \notin SetOptions,
           HasLast(NamingIn(g, o))
    PROVE  AskedIn(Append(g, x), o) = IF Hits(x, o) THEN AskedBy(x, o) ELSE AskedIn(g, o)
<1> DEFINE n == Len(g) + 1
           h == Append(g, x)
           M == NamingIn(h, o)
           N == NamingIn(g, o)
<1>1. CASE Hits(x, o)
    <2>1. M # {} BY <1>1, AppendNaming
    <2>2. Last(M) = n BY <1>1, AppendHasLast
    <2>3. h[n] = x BY AppendProperties
    <2> QED BY <1>1, <2>1, <2>2, <2>3 DEF AskedIn
<1>2. CASE ~Hits(x, o)
    <2>1. M = N BY <1>2, AppendNaming
    <2>2. CASE N = {} BY <1>2, <2>1, <2>2 DEF AskedIn
    <2>3. CASE N # {}
        <3>1. Last(N) \in 1..Len(g) BY <2>3, LastIn, NamingPositions
        <3>2. h[Last(N)] = g[Last(N)] BY <3>1, AppendProperties
        <3> QED BY <1>2, <2>1, <2>3, <3>2 DEF AskedIn
    <2> QED BY <2>2, <2>3
<1> QED BY <1>1, <1>2

\* The listing flags add up.
LEMMA AppendAdded ==
    ASSUME NEW g \in Seq(Given), NEW x \in Given, NEW o \in SetOptions
    PROVE  AskedIn(Append(g, x), o)
             = AskedIn(g, o) \cup (IF Hits(x, o) THEN {x.val} ELSE {})
<1> DEFINE n == Len(g) + 1
           h == Append(g, x)
           M == NamingIn(h, o)
           N == NamingIn(g, o)
<1>1. M = N \cup (IF Hits(x, o) THEN {n} ELSE {}) BY AppendNaming
<1>2. h[n] = x BY AppendProperties
<1>3. \A i \in N : h[i] = g[i] BY NamingPositions, AppendProperties
<1>4. AskedIn(h, o) = {h[i].val : i \in M} /\ AskedIn(g, o) = {g[i].val : i \in N}
    BY DEF AskedIn
<1> HIDE DEF h, M, N, n
<1>5. {h[i].val : i \in N} = {g[i].val : i \in N} BY <1>3
<1>6. CASE Hits(x, o)
    <2>1. M = N \cup {n} BY <1>1, <1>6
    <2>2. {h[i].val : i \in M} = {h[i].val : i \in N} \cup {h[n].val} BY <2>1
    <2> QED BY <1>2, <1>4, <1>5, <1>6, <2>2 DEF h
<1>7. CASE ~Hits(x, o)
    <2>1. M = N BY <1>1, <1>7
    <2> QED BY <1>4, <1>5, <1>7, <2>1 DEF h
<1> QED BY <1>6, <1>7

\* The row that decides an option read from the command line.
LEMMA DecidingRow ==
    ASSUME NEW x \in Given, ArgFits(x.flag, x.val), NEW o \in OptionNames, Hits(x, o)
    PROVE  /\ Deciding(x, o) \in Rows[x.flag] /\ Target(Deciding(x, o), x.val) = o
           /\ o \notin SetOptions => NewValue(Deciding(x, o), x.val) = Plain(Deciding(x, o), x.val)
           /\ o \in SetOptions => NewValue(Deciding(x, o), x.val) = opts[o] \cup {x.val}
<1> DEFINE r == Deciding(x, o)
<1>1. r \in Rows[x.flag] /\ Target(r, x.val) = o BY DEF Hits, Deciding
<1>2. x.flag \in Flags BY DEF Given
<1> HIDE DEF r
<1>3. /\ r \in Table
      /\ r[2] = "kind" => x.flag \in StrFlags
      /\ r[2] = "kind" => r[3] \in {"on", "off"}
    BY <1>1, <1>2, RowSorts
<1>4. r[2] # "kind" => o = r[2] BY <1>1 DEF Target
<1>5. ASSUME o \notin SetOptions PROVE NewValue(r, x.val) = Plain(r, x.val)
    <2>1. r[3] # "add"
        <3>1. SUFFICES ASSUME r[3] = "add" PROVE FALSE OBVIOUS
        <3>2. r[2] # "kind" BY <1>3, <3>1
        <3>3. r[2] \in SetOptions BY <1>3, <3>1 DEF SetOptions
        <3> QED BY <1>4, <1>5, <3>2, <3>3
    <2> QED BY <2>1 DEF NewValue, Plain
<1>6. ASSUME o \in SetOptions PROVE NewValue(r, x.val) = opts[o] \cup {x.val}
    <2>1. r[2] # "kind"
        <3>1. SUFFICES ASSUME r[2] = "kind" PROVE FALSE OBVIOUS
        <3>2. \E q \in Rows[x.flag] : q[2] = "kind" BY <1>1, <3>1
        <3>3. x.val \in Kinds BY <1>3, <3>1, <3>2 DEF ArgFits, parse_string_arg
        <3>4. o = x.val BY <1>1, <3>1 DEF Target
        <3>5. PICK q \in Table : q[2] = o BY <1>6 DEF SetOptions
        <3> QED BY <3>3, <3>4, <3>5, TabledNoKind
    <2>2. r[3] = "add"
        <3>1. r[2] \in SetNames BY <1>4, <1>6, <2>1, NamesOfSorts
        <3> QED BY <1>3, <3>1, SortedTable DEF Sorted
    <2> QED BY <1>4, <2>1, <2>2 DEF NewValue
<1> QED BY <1>1, <1>5, <1>6 DEF r

LEMMA AssignAsked ==
    ASSUME NEW flag, NEW v, ArgFits(flag, v), Assign(flag, v), given \in Seq(Given),
           NEW o \in OptionNames, HasLast(NamingIn(given, o)), opts[o] = AskedIn(given, o)
    PROVE  HasLast(NamingIn(given', o)) /\ opts'[o] = AskedIn(given', o)
<1> DEFINE x == [flag |-> flag, val |-> v]
           r == Deciding(x, o)
<1>1. x \in Given /\ x.flag = flag /\ x.val = v BY DEF ArgFits, Given
<1>2. given' = Append(given, x) BY DEF Assign
<1>3. Hits(x, o) <=> \E q \in Rows[flag] : Target(q, v) = o BY <1>1 DEF Hits
<1>4. opts'[o] = IF Hits(x, o) THEN NewValue(r, v) ELSE opts[o] 
    BY <1>1, <1>3 DEF Assign, Deciding
<1>5. Hits(x, o) => /\ o \notin SetOptions => NewValue(r, v) = Plain(r, v)
                    /\ o \in SetOptions => NewValue(r, v) = opts[o] \cup {v}
    BY <1>1, DecidingRow
<1>6. AskedBy(x, o) = Plain(r, v) BY <1>1 DEF AskedBy
<1> HIDE DEF x, r
<1>7. HasLast(NamingIn(given', o)) BY <1>1, <1>2, AppendHasLast
<1>8. CASE o \in SetOptions
    <2>1. AskedIn(given', o) = AskedIn(given, o) \cup (IF Hits(x, o) THEN {v} ELSE {})
        BY <1>1, <1>2, <1>8, AppendAdded
    <2> QED BY <1>4, <1>5, <1>7, <1>8, <2>1
<1>9. CASE o \notin SetOptions
    <2>1. AskedIn(given', o) = IF Hits(x, o) THEN AskedBy(x, o) ELSE AskedIn(given, o)
        BY <1>1, <1>2, <1>9, AppendAsked
    <2> QED BY <1>4, <1>5, <1>6, <1>7, <1>9, <2>1
<1> QED BY <1>8, <1>9

-----------------------------------------------------------------------------
(* The invariant.                                                          *)

\* Flags read, their last positions, and the options they leave, until C++, the exhaustive
\* mode or the dump of the probabilities changes some.
AInv ==
    /\ AllFit(opts) /\ given \in Seq(Given)
    /\ \A o \in OptionNames : HasLast(NamingIn(given, o))
    /\ status \in {"parse", "create", "generate", "done", "exit", "invalid", "conflict"}
    /\ gen \in {"none", "dfs", "default"}
    /\ extension \in {"none", "klee", "crest", "coverage_test"}
    /\ status = "parse" => \A o \in OptionNames : opts[o] = AskedIn(given, o)
    /\ status \in {"create", "generate"} =>
          \A o \in OptionNames \ Forced : opts[o] = AskedIn(given, o)

LEMMA InitAsked == Init => AInv
<1> SUFFICES ASSUME Init PROVE AInv OBVIOUS
<1>1. PICK sizes : /\ opts = WithSizes(sizes)
                   /\ sizes.int_size \in Int /\ sizes.pointer_size \in Int
                   /\ status \in {"parse", "exit"}
                   /\ status = "parse" => opts = WithSizes(HostSizes)
    <2>1. CASE opts = WithSizes(HostSizes) /\ status = "parse"
        BY <2>1 DEF HostSizes
    <2>2. CASE \E file \in PlatformFiles :
                 /\ opts = WithSizes(file)
                 /\ status = IF 0 \in {file.int_size, file.pointer_size} THEN "exit" ELSE "parse"
        <3>1. PICK file \in PlatformFiles :
                 /\ opts = WithSizes(file)
                 /\ status = IF 0 \in {file.int_size, file.pointer_size} THEN "exit" ELSE "parse"
            BY <2>2
        <3>2. file.int_size \in {0, 4} /\ file.pointer_size \in {0, 8} BY DEF PlatformFiles
        <3>3. ASSUME status = "parse" PROVE WithSizes(file) = WithSizes(HostSizes)
            <4>1. file.int_size = 4 /\ file.pointer_size = 8 BY <3>1, <3>2, <3>3
            <4>2. HostSizes.int_size = 4 /\ HostSizes.pointer_size = 8 BY DEF HostSizes
            <4> QED BY <4>1, <4>2 DEF WithSizes
        <3>4. file.int_size \in Int /\ file.pointer_size \in Int BY <3>2
        <3>5. status \in {"parse", "exit"} BY <3>1
        <3> QED BY <3>1, <3>3, <3>4, <3>5
    <2> QED BY <2>1, <2>2 DEF Init, set_platform_specific_options
<1>2. AllFit(opts) BY <1>1, SizesFit
<1>3. given = << >> /\ given \in Seq(Given)
    <2>1. given = << >> BY DEF Init
    <2> QED BY <2>1, EmptySeq
<1>4. \A o : NamingIn(given, o) = {} BY <1>3 DEF NamingIn
<1>5. ASSUME NEW o \in OptionNames, status = "parse" PROVE opts[o] = AskedIn(given, o)
    <2>1. CASE o \notin SetOptions BY <1>1, <1>4, <1>5, <2>1 DEF AskedIn
    <2>2. CASE o \in SetOptions
        <3>1. set_default_settings[o] = {} /\ o \notin {"int_size", "pointer_size"}
            BY <2>2, SetsEmpty
        <3>2. opts[o] = set_default_settings[o]
            BY <1>1, <3>1, DefaultsFit DEF WithSizes, AllFit
        <3>3. AskedIn(given, o) = {} BY <1>4, <2>2 DEF AskedIn
        <3> QED BY <3>1, <3>2, <3>3
    <2> QED BY <2>1, <2>2
<1>6. gen = "none" /\ extension = "none" BY DEF Init
<1> QED BY <1>1, <1>2, <1>3, <1>4, <1>5, <1>6 DEF AInv, HasLast

LEMMA ParseAsked ==
    ASSUME AInv, ParseSet \/ ParseNum \/ ParseStr
    PROVE  AInv'
<1>1. status = "parse" BY DEF ParseSet, ParseNum, ParseStr
<1>2. PICK flag, v : ArgFits(flag, v) /\ Assign(flag, v)
    <2>1. CASE ParseSet BY <2>1, SetArgs DEF ParseSet
    <2>2. CASE ParseNum BY <2>2, NumArgs DEF ParseNum, AInv
    <2>3. CASE ParseStr BY <2>3, StrArgs DEF ParseStr
    <2> QED BY <2>1, <2>2, <2>3
<1>3. AllFit(opts') BY <1>2, AssignFits DEF AInv
<1>4. given' \in Seq(Given)
    <2>1. [flag |-> flag, val |-> v] \in Given BY <1>2 DEF ArgFits, Given
    <2> QED BY <1>2, <2>1, AppendProperties DEF Assign, AInv
<1>5. ASSUME NEW o \in OptionNames
      PROVE  HasLast(NamingIn(given', o)) /\ opts'[o] = AskedIn(given', o)
    BY <1>1, <1>2, AssignAsked DEF AInv
<1>6. UNCHANGED <<status, gen, extension>> BY <1>2 DEF Assign
<1> QED BY <1>1, <1>3, <1>4, <1>5, <1>6 DEF AInv

LEMMA StopAsked ==
    ASSUME AInv, status = "parse", NEW how \in {"done", "exit", "invalid"}, NEW what,
           Stop(how, what)
    PROVE  AInv'
<1>1. UNCHANGED <<opts, given, gen, extension>> /\ status' = how BY DEF Stop
<1> QED BY <1>1 DEF AInv

LEMMA UpdateFits ==
    ASSUME NEW p, AllFit(p), NEW x \in OptionNames, NEW w, Fits(x, w)
    PROVE  AllFit([p EXCEPT ![x] = w])
BY DEF AllFit

CppNames == {"match_exact_qualifiers", "vol_struct_union_fields", "const_struct_union_fields"}

LEMMA CppFits ==
    ASSUME NEW p, AllFit(p)
    PROVE  /\ AllFit(fix_options_for_cpp(p))
           /\ \A o \in OptionNames \ CppNames : fix_options_for_cpp(p)[o] = p[o]
<1> DEFINE q == fix_options_for_cpp(p)
<1>1. CppNames \subseteq OptionNames BY WatchedOptions DEF Watched, CppNames
<1>2. CppNames \cap (NumNames \cup StrNames \cup SetNames) = {}
    BY DEF CppNames, NumNames, StrNames, SetNames
<1>3. DOMAIN q = OptionNames /\ \A o \in OptionNames \ CppNames : q[o] = p[o]
    BY DEF fix_options_for_cpp, AllFit, CppNames
<1>4. \A o \in CppNames : q[o] \in BOOLEAN
    BY <1>1 DEF fix_options_for_cpp, AllFit, CppNames
<1> HIDE DEF q
<1>5. ASSUME NEW o \in OptionNames PROVE Fits(o, q[o])
    <2>1. CASE o \in CppNames
        <3>1. o \notin NumNames \cup StrNames \cup SetNames /\ q[o] \in BOOLEAN
            BY <1>2, <1>4, <2>1
        <3> QED BY <3>1, FitsTruth
    <2>2. CASE o \notin CppNames BY <1>3, <2>2 DEF AllFit
    <2> QED BY <2>1, <2>2
<1> QED BY <1>3, <1>5 DEF AllFit, q

LEMMA TruthNames ==
    ASSUME NEW o \in {"fixed_struct_fields", "random_random"}, NEW w \in BOOLEAN
    PROVE  o \in OptionNames /\ Fits(o, w)
<1>1. o \in OptionNames BY WatchedOptions DEF Watched
<1>2. o \notin NumNames \cup StrNames \cup SetNames BY DEF NumNames, StrNames, SetNames
<1> QED BY <1>1, <1>2, FitsTruth

LEMMA ResolvedFits ==
    ASSUME NEW p, AllFit(p), p.dfs_exhaustive \in BOOLEAN
    PROVE  /\ AllFit(Resolved(p))
           /\ \A o \in OptionNames \ {"fixed_struct_fields", "split_files_dir"} :
                 Resolved(p)[o] = p[o]
           /\ ~p.dfs_exhaustive => Resolved(p)["fixed_struct_fields"] = p["fixed_struct_fields"]
<1> DEFINE fixed == p["fixed_struct_fields"] \/ p["dfs_exhaustive"]
           q == [p EXCEPT !["fixed_struct_fields"] = fixed]
           dir == IF q["split_files_dir"] = "" THEN "./output" ELSE q["split_files_dir"]
<1>1. /\ "fixed_struct_fields" \in OptionNames /\ "split_files_dir" \in OptionNames
      /\ "dfs_exhaustive" \in OptionNames
    BY WatchedOptions DEF Watched
<1>2. p["fixed_struct_fields"] \in BOOLEAN
    <2>1. PICK r \in Table : r[2] = "fixed_struct_fields" /\ r[3] = "on"
        <3>1. <<"--fixed-struct-fields", "fixed_struct_fields", "on">> \in Table
            BY WatchedRows DEF Table
        <3> QED BY <3>1
    <2>2. "fixed_struct_fields" \in BoolOptions BY <2>1 DEF BoolOptions
    <2> QED BY <1>1, <2>2 DEF AllFit, Fits
<1>3. fixed \in BOOLEAN OBVIOUS
<1>4. AllFit(q) BY <1>1, <1>3, TruthNames, UpdateFits
<1>5. FixedFields(p) = q BY <1>1 DEF FixedFields, AllFit
<1>6. Resolved(p) = [q EXCEPT !["split_files_dir"] = dir] BY <1>1, <1>5 DEF Resolved
<1>7. Fits("split_files_dir", dir)
    <2>1. "split_files_dir" \in StrNames BY DEF StrNames
    <2>2. PICK r \in Table : r[2] = "split_files_dir" /\ r[3] = "str"
        <3>1. <<"--split-files-dir", "split_files_dir", "str">> \in Table
            BY WatchedRows DEF Table
        <3> QED BY <3>1
    <2>3. "split_files_dir" \notin Kinds BY <2>2, TabledNoKind
    <2>4. "split_files_dir" \in StrOptions BY <2>2 DEF StrOptions
    <2>5. q["split_files_dir"] \in Words \cup {"", "./output"}
        BY <1>1, <1>4, <2>4 DEF AllFit, Fits
    <2>6. dir \in Words \cup {"", "./output"} BY <2>5
    <2> QED BY <2>1, <2>3, <2>6, FitsWord
<1>8. DOMAIN q = OptionNames /\ DOMAIN p = OptionNames BY <1>4 DEF AllFit
<1>9. \A o \in OptionNames \ {"fixed_struct_fields"} : q[o] = p[o] BY <1>8
<1>10. ~p["dfs_exhaustive"] => q["fixed_struct_fields"] = p["fixed_struct_fields"]
    BY <1>1, <1>2, <1>8
<1> HIDE DEF q, dir
<1>11. AllFit(Resolved(p))
    <2>1. AllFit([q EXCEPT !["split_files_dir"] = dir])
        BY <1>1, <1>4, <1>7, UpdateFits, Zenon
    <2> QED BY <1>6, <2>1, Zenon
<1>12. \A o \in OptionNames \ {"split_files_dir"} : Resolved(p)[o] = q[o] BY <1>6, <1>8
<1> QED BY <1>1, <1>9, <1>10, <1>11, <1>12

LEMMA CheckAsked ==
    ASSUME AInv, OInv, CheckConflicts
    PROVE  AInv'
<1> DEFINE fixed == IF opts.lang_cpp THEN fix_options_for_cpp(opts) ELSE opts
           cpp == IF opts.lang_cpp THEN CppNames ELSE {}
           late == IF opts.dfs_exhaustive THEN {"fixed_struct_fields"} ELSE {}
<1>1. status = "parse" /\ UNCHANGED <<given, gen, extension>> BY DEF CheckConflicts
<1>2. AllFit(fixed) /\ \A o \in OptionNames \ cpp : fixed[o] = opts[o]
    BY CppFits DEF AInv
<1>3. {"lang_cpp", "dfs_exhaustive"} \subseteq OptionNames \ CppNames
    BY WatchedOptions DEF Watched, CppNames
<1>4. fixed["lang_cpp"] = opts["lang_cpp"] /\ fixed["dfs_exhaustive"] = opts["dfs_exhaustive"]
    BY <1>2, <1>3
<1>5. opts.dfs_exhaustive \in BOOLEAN BY DEF OInv, Exclusive
<1>6. \E dir_ok \in BOOLEAN :
        IF has_conflict(fixed, dir_ok)
        THEN status' = "conflict" /\ opts' = fixed
        ELSE status' = "create" /\ opts' = Resolved(fixed)
    BY DEF CheckConflicts
<1> HIDE DEF fixed
<1>7. CASE status' = "conflict" /\ opts' = fixed BY <1>1, <1>2, <1>7 DEF AInv
<1>8. CASE status' = "create" /\ opts' = Resolved(fixed)
    <2>1. /\ AllFit(opts')
          /\ \A o \in OptionNames \ {"fixed_struct_fields", "split_files_dir"} :
                opts'[o] = fixed[o]
          /\ ~fixed.dfs_exhaustive => opts'["fixed_struct_fields"] = fixed["fixed_struct_fields"]
        BY <1>2, <1>4, <1>5, <1>8, ResolvedFits
    <2>2. opts'["lang_cpp"] = opts["lang_cpp"] /\ opts'["dfs_exhaustive"] = opts["dfs_exhaustive"]
        BY <1>3, <1>4, <2>1
    <2>3. Forced' = cpp \cup late \cup {"split_files_dir", "random_random"}
        BY <2>2 DEF Forced, CppNames
    <2>4. ASSUME NEW o \in OptionNames, o \notin Forced' PROVE opts'[o] = opts[o]
        <3>1. fixed[o] = opts[o] BY <1>2, <2>3, <2>4
        <3>2. opts'[o] = fixed[o]
            <4>1. CASE o = "fixed_struct_fields" BY <1>4, <2>1, <2>3, <2>4, <4>1
            <4>2. CASE o # "fixed_struct_fields" BY <2>1, <2>3, <2>4, <4>2
            <4> QED BY <4>1, <4>2
        <3> QED BY <3>1, <3>2
    <2>5. \A o \in OptionNames \ Forced' : opts'[o] = AskedIn(given', o)
        BY <1>1, <2>4 DEF AInv
    <2> QED BY <1>1, <1>8, <2>1, <2>5 DEF AInv
<1> QED BY <1>6, <1>7, <1>8

LEMMA CreateAsked ==
    ASSUME AInv, CreateInstance
    PROVE  AInv'
<1>1. status = "create" /\ given' = given BY DEF CreateInstance
<1>2. status' \in {"done", "generate", "exit"} BY DEF CreateInstance
<1>3. status' = "generate" => opts' = opts BY DEF CreateInstance
<1>4. AllFit(opts')
    <2>1. \E w \in BOOLEAN : opts' = [opts EXCEPT !["random_random"] = w] \/ opts' = opts
        BY DEF CreateInstance
    <2> QED BY <2>1, TruthNames, UpdateFits DEF AInv
<1>5. gen' \in {"none", "dfs", "default"} BY DEF CreateInstance
<1>6. extension' \in {"none", "klee", "crest", "coverage_test"}
    BY DEF CreateInstance, CreateExtension
<1>7. ASSUME status' = "generate"
      PROVE  \A o \in OptionNames \ Forced' : opts'[o] = AskedIn(given', o)
    <2>1. opts' = opts BY <1>3, <1>7
    <2>2. Forced' = Forced BY <2>1 DEF Forced
    <2> QED BY <1>1, <2>1, <2>2 DEF AInv
<1> QED BY <1>1, <1>2, <1>4, <1>5, <1>6, <1>7 DEF AInv

LEMMA NextAsked == AInv /\ OInv /\ [Next]_vars => AInv'
<1> SUFFICES ASSUME AInv, OInv, [Next]_vars PROVE AInv' OBVIOUS
<1>1. CASE ParseHelp
    <2>1. status = "parse" /\ \E flag : Stop("done", flag) BY <1>1 DEF ParseHelp
    <2> QED BY <2>1, StopAsked
<1>2. CASE ParseSet \/ ParseNum \/ ParseStr BY <1>2, ParseAsked
<1>3. CASE BadArgument
    <2>1. status = "parse" /\ \E flag : Stop("exit", flag) BY <1>3 DEF BadArgument
    <2> QED BY <2>1, StopAsked
<1>4. CASE InvalidOption
    <2>1. status = "parse" /\ \E flag : Stop("invalid", flag) BY <1>4 DEF InvalidOption
    <2> QED BY <2>1, StopAsked
<1>5. CASE CheckConflicts BY <1>5, CheckAsked
<1>6. CASE CreateInstance BY <1>6, CreateAsked
<1>7. CASE UNCHANGED vars
    <2>1. UNCHANGED <<opts, given, status, gen, extension>> BY <1>7 DEF vars
    <2> QED BY <2>1 DEF AInv, Forced
<1> QED BY <1>1, <1>2, <1>3, <1>4, <1>5, <1>6, <1>7 DEF Next, Ended

\* Asked reads the flags as the invariant does.
LEMMA AskedSame ==
    ASSUME AInv, NEW o \in OptionNames
    PROVE  Asked(o) = AskedIn(given, o)
<1>1. Naming(o) = NamingIn(given, o) BY DEF Naming, NamingIn, Hits
<1>2. CASE o \in SetOptions BY <1>1, <1>2 DEF Asked, AskedIn
<1>3. CASE o \notin SetOptions /\ Naming(o) = {} BY <1>1, <1>3 DEF Asked, AskedIn
<1>4. CASE o \notin SetOptions /\ Naming(o) # {}
    <2> DEFINE l == Last(NamingIn(given, o))
               x == given[l]
               r == Deciding(x, o)
    <2>1. l \in NamingIn(given, o) /\ l \in 1..Len(given)
        BY <1>1, <1>4, LastIn, NamingPositions DEF AInv
    <2>2. x \in Given /\ Hits(x, o) BY <2>1, ElementOfSeq DEF AInv, NamingIn
    <2>3. r \in Rows[x.flag] /\ Target(r, x.val) = o BY <2>2 DEF Hits, Deciding
    <2>4. NewValue(r, x.val) = Plain(r, x.val)
        <3>1. r \in Table /\ (r[2] = "kind" => r[3] \in {"on", "off"})
            BY <2>2, <2>3, RowSorts DEF Given
        <3>2. r[3] # "add"
            <4>1. SUFFICES ASSUME r[3] = "add" PROVE FALSE OBVIOUS
            <4>2. r[2] # "kind" BY <3>1, <4>1
            <4>3. r[2] \in SetOptions BY <3>1, <4>1 DEF SetOptions
            <4>4. o = r[2] BY <2>3, <4>2 DEF Target
            <4> QED BY <1>4, <4>3, <4>4
        <3> HIDE DEF r, x
        <3> QED BY <3>2 DEF NewValue, Plain
    <2>5. l = CHOOSE i \in Naming(o) : \A j \in Naming(o) : j <= i BY <1>1 DEF Last
    <2>6. r = CHOOSE r_1 \in Rows[x.flag] : Target(r_1, x.val) = o BY DEF Deciding
    <2>7. Asked(o) = NewValue(r, x.val) BY <1>4, <2>5, <2>6 DEF Asked
    <2>8. AskedIn(given, o) = Plain(r, x.val) BY <1>1, <1>4 DEF AskedIn, AskedBy
    <2> QED BY <2>4, <2>7, <2>8
<1> QED BY <1>2, <1>3, <1>4

\* The generator starts with the options the command line asks for, whatever the order,
\* number and arguments of its flags: for each option the last flag that names it decides.
THEOREM AsAskedHolds == Spec => []AsAsked
<1>1. AInv => AsAsked
    <2> SUFFICES ASSUME AInv PROVE AsAsked OBVIOUS
    <2>1. TypeOK
        <3>1. \A o \in OptionNames : Fits(o, opts[o]) BY DEF AInv, AllFit
        <3> QED BY <3>1 DEF TypeOK, Fits, OptionNames, AInv
    <2>2. ASSUME status = "parse", NEW o \in OptionNames PROVE opts[o] = Asked(o)
        BY <2>2, AskedSame DEF AInv
    <2>3. ASSUME status = "generate", NEW o \in OptionNames \ Forced PROVE opts[o] = Asked(o)
        BY <2>3, AskedSame DEF AInv
    <2> QED BY <2>1, <2>2, <2>3 DEF AsAsked
<1>2. Init => AInv /\ OInv BY InitAsked, InitHolds, OptionsAssumption
<1>3. AInv /\ OInv /\ [Next]_vars => AInv' /\ OInv'
    BY NextAsked, NextKeeps, OptionsAssumption
<1> QED BY <1>1, <1>2, <1>3, PTL DEF Spec


-----------------------------------------------------------------------------
(* The defaults and the help text.                                         *)

\* The flags the help text calls the default.
DefaultFlags ==
    {"--argc", "--arrays", "--bitfields", "--checksum", "--comma-operators",
     "--compound-assignment", "--consts", "--divs", "--embedded-assigns", "--pre-incr-operator",
     "--pre-decr-operator", "--post-incr-operator", "--post-decr-operator",
     "--unary-plus-operator", "--jumps", "--longlong", "--int8", "--uint8", "--no-float",
     "--main", "--math64"}
    \cup
    {"--muls", "--safe-math", "--packed-struct", "--no-paranoid", "--pointers", "--structs",
     "--unions", "--volatiles", "--volatile-pointers", "--const-pointers", "--global-variables",
     "--no-builtins", "--no-func-attributes", "--no-type-attributes", "--no-label-attributes",
     "--no-variable-attributes", "--no-compiler-attributes", "--no-int128", "--no-uint128",
     "--no-binary-constant"}
    \cup
    {"--return-structs", "--arg-structs", "--return-unions", "--arg-unions",
     "--take-union-field-addr", "--vol-struct-union-fields", "--const-struct-union-fields"}
    \cup
    {"--addr-taken-of-locals", "--dangling-global-pointers", "--no-return-dead-pointer",
     "--force-globals-static", "--force-non-uniform-arrays"}

LEMMA DefaultFlagsListed == DocumentedDefaultFlags \subseteq DefaultFlags
<1>1. \A t \in HelpA.toggle : t[1] \in DefaultFlags BY DEF HelpA, DefaultFlags
<1>2. \A t \in HelpB.toggle : t[1] \in DefaultFlags BY DEF HelpB, DefaultFlags
<1>3. \A t \in HelpC.toggle : t[1] \in DefaultFlags BY DEF HelpC, DefaultFlags
<1>4. \A t \in HelpD.toggle : t[1] \in DefaultFlags BY DEF HelpD, DefaultFlags
<1>5. ASSUME NEW x \in DocumentedDefaultFlags
      PROVE  \/ \E t \in HelpA.toggle : x = t[1]
             \/ \E t \in HelpB.toggle : x = t[1]
             \/ \E t \in HelpC.toggle : x = t[1]
             \/ \E t \in HelpD.toggle : x = t[1]
    BY DEF DocumentedDefaultFlags, Helps
<1> QED BY <1>1, <1>2, <1>3, <1>4, <1>5

\* A row of such a flag turns on what is on by default, or off what is off.
Restating(F) ==
    \A r \in F : r[1] \in DefaultFlags =>
        /\ r[2] # "kind"
        /\ \/ r[3] = "on" /\ r[2] \in DefaultOn
           \/ r[3] = "off" /\ r[2] \notin DefaultOn

LEMMA RestatingA == Restating(FlagsA) BY DEF Restating, DefaultFlags, DefaultOn, FlagsA, Toggles
LEMMA RestatingB == Restating(FlagsB) BY DEF Restating, DefaultFlags, DefaultOn, FlagsB, Toggles
LEMMA RestatingC == Restating(FlagsC) BY DEF Restating, DefaultFlags, DefaultOn, FlagsC, Toggles
LEMMA RestatingD == Restating(FlagsD) BY DEF Restating, DefaultFlags, DefaultOn, FlagsD, Toggles
LEMMA RestatingE == Restating(FlagsE) BY DEF Restating, DefaultFlags, DefaultOn, FlagsE, Toggles
LEMMA RestatingF == Restating(FlagsF) BY DEF Restating, DefaultFlags, DefaultOn, FlagsF, Toggles
LEMMA RestatingG == Restating(FlagsG) BY DEF Restating, DefaultFlags, DefaultOn, FlagsG, Toggles
LEMMA RestatingH == Restating(FlagsH) BY DEF Restating, DefaultFlags, DefaultOn, FlagsH, Toggles
LEMMA RestatingI == Restating(FlagsI) BY DEF Restating, DefaultFlags, DefaultOn, FlagsI, Toggles

LEMMA RestatingTable == Restating(Table)
BY RestatingA, RestatingB, RestatingC, RestatingD, RestatingE, RestatingF, RestatingG,
   RestatingH, RestatingI
   DEF Restating, Table

\* The numbers the help text gives rightly, with their options.
Stated ==
    {<<"--inline-function-prob", "inline_function_prob", 50>>,
     <<"--array-oob-prob", "array_oob_prob", 0>>,
     <<"--max-array-dim", "max_array_dimensions", 3>>,
     <<"--max-array-len-per-dim", "max_array_length_per_dimension", 10>>,
     <<"--max-block-depth", "max_blk_depth", 5>>, <<"--max-block-size", "max_block_size", 4>>,
     <<"--max-expr-complexity", "max_expr_depth", 10>>, <<"--max-funcs", "max_funcs", 10>>,
     <<"--max-struct-fields", "max_struct_fields", 10>>,
     <<"--max-union-fields", "max_union_fields", 5>>,
     <<"--max-split-files", "max_split_files", 0>>,
     <<"--coverage-test-size", "coverage_test_size", 500>>,
     <<"--func1_max_params", "func1_max_params", 3>>,
     <<"--null-ptr-deref-prob", "null_pointer_dereference_prob", 0>>,
     <<"--dangling-ptr-deref-prob", "dead_pointer_dereference_prob", 0>>,
     <<"--max-struct-nested-level", "max_nested_struct_level", 3>>}

LEMMA StatedListed ==
    ASSUME NEW d \in DocumentedNumbers, d[1] \notin Misstated
    PROVE  \E s \in Stated : s[1] = d[1] /\ s[3] = d[2]
<1> DEFINE Listed(D) == \A e \in D : e[1] \notin Misstated => \E s \in Stated : s[1] = e[1] /\ s[3] = e[2]
<1>1. Listed(HelpA.number) BY DEF HelpA, Stated, Misstated
<1>2. Listed(HelpB.number) BY DEF HelpB, Stated, Misstated
<1>3. Listed(HelpC.number) BY DEF HelpC, Stated, Misstated
<1>4. Listed(HelpD.number) BY DEF HelpD, Stated, Misstated
<1>5. d \in HelpA.number \/ d \in HelpB.number \/ d \in HelpC.number \/ d \in HelpD.number
    BY DEF DocumentedNumbers, Helps
<1> QED BY <1>1, <1>2, <1>3, <1>4, <1>5

\* A row of a flag with such a number assigns it to that option.
Numbering(F) ==
    \A r \in F : \A s \in Stated : r[1] = s[1] => r[2] = s[2] /\ r[3] = "num"

LEMMA NumberingA == Numbering(FlagsA) BY DEF Numbering, Stated, FlagsA, Toggles
LEMMA NumberingB == Numbering(FlagsB) BY DEF Numbering, Stated, FlagsB, Toggles
LEMMA NumberingC == Numbering(FlagsC) BY DEF Numbering, Stated, FlagsC, Toggles
LEMMA NumberingD == Numbering(FlagsD) BY DEF Numbering, Stated, FlagsD, Toggles
LEMMA NumberingE == Numbering(FlagsE) BY DEF Numbering, Stated, FlagsE, Toggles
LEMMA NumberingF == Numbering(FlagsF) BY DEF Numbering, Stated, FlagsF, Toggles
LEMMA NumberingG == Numbering(FlagsG) BY DEF Numbering, Stated, FlagsG, Toggles
LEMMA NumberingH == Numbering(FlagsH) BY DEF Numbering, Stated, FlagsH, Toggles
LEMMA NumberingI == Numbering(FlagsI) BY DEF Numbering, Stated, FlagsI, Toggles

LEMMA NumberingTable == Numbering(Table)
BY NumberingA, NumberingB, NumberingC, NumberingD, NumberingE, NumberingF, NumberingG,
   NumberingH, NumberingI
   DEF Numbering, Table

LEMMA StatedDefault ==
    ASSUME NEW s \in Stated, s[2] \in NumOptions
    PROVE  WithSizes(HostSizes)[s[2]] = s[3]
<1>1. /\ s[2] \notin {"int_size", "pointer_size"}
      /\ s[2] \in DOMAIN DefaultNumbers => DefaultNumbers[s[2]] = s[3]
      /\ s[2] \notin DOMAIN DefaultNumbers => s[3] = 0
    BY DEF Stated, DefaultNumbers
<1>2. s[2] \in NumNames /\ s[2] \notin Kinds BY NumbersNoKinds
<1>3. s[2] \notin DefaultOn \cup set_default_builtin_kinds
    BY <1>2 DEF NumNames, DefaultOn, set_default_builtin_kinds
<1>4. s[2] \in OptionNames BY DEF OptionNames
<1>5. StaticInit[s[2]] = 0 BY <1>4 DEF StaticInit
<1>6. set_default_settings[s[2]] = s[3] BY <1>1, <1>3, <1>4, <1>5 DEF set_default_settings
<1> QED BY <1>1, <1>4, <1>6, DefaultsFit DEF WithSizes, AllFit

\* What is on by default.
LEMMA TruthDefault ==
    ASSUME NEW o \in OptionNames, o \notin NumNames \cup StrNames \cup SetNames, o \notin Kinds
    PROVE  /\ o \in DefaultOn => WithSizes(HostSizes)[o] = TRUE
           /\ o \notin DefaultOn => WithSizes(HostSizes)[o] = FALSE
<1>1. o \notin DOMAIN DefaultNumbers BY NumbersByDefault
<1>2. o \notin {"int_size", "pointer_size"} BY DEF NumNames
<1>3. o \notin set_default_builtin_kinds BY OptionsAssumption DEF set_default_builtin_kinds
<1>4. StaticInit[o] = FALSE BY NamesOfSorts DEF StaticInit
<1>5. /\ o \in DefaultOn => set_default_settings[o] = TRUE
      /\ o \notin DefaultOn => set_default_settings[o] = FALSE
    BY <1>1, <1>3, <1>4 DEF set_default_settings
<1> QED BY <1>2, <1>5, DefaultsFit DEF WithSizes, AllFit

\* The members of CGOptions are those of set_default_settings as long as arguments are read.
FInv == status = "parse" => opts = [o \in OptionNames |-> opts[o]]

LEMMA NextFunction == AInv /\ FInv /\ [Next]_vars => FInv'
<1> SUFFICES ASSUME AInv, FInv, [Next]_vars, status' = "parse"
             PROVE  opts' = [o \in OptionNames |-> opts'[o]]
    BY DEF FInv
<1>1. CASE ParseSet \/ ParseNum \/ ParseStr
    <2>1. \E flag, v : Assign(flag, v) BY <1>1 DEF ParseSet, ParseNum, ParseStr
    <2>2. \E G : opts' = G /\ G = [o \in OptionNames |-> G[o]] BY <2>1 DEF Assign
    <2> QED BY <2>2
<1>2. CASE ParseHelp \/ BadArgument \/ InvalidOption
    BY <1>2 DEF ParseHelp, BadArgument, InvalidOption, Stop
<1>3. CASE CheckConflicts \/ CreateInstance
    BY <1>3 DEF CheckConflicts, CreateInstance
<1>4. CASE UNCHANGED vars BY <1>4 DEF vars, FInv
<1> QED BY <1>1, <1>2, <1>3, <1>4 DEF Next, Ended

LEMMA DefaultsStay ==
    ASSUME AInv, status = "parse", Len(given) = 1,
           \/ given[1].flag \in DocumentedDefaultFlags
           \/ /\ <<given[1].flag, given[1].val>> \in DocumentedNumbers
              /\ given[1].flag \notin Misstated,
           NEW o \in OptionNames
    PROVE  opts[o] = WithSizes(HostSizes)[o]
<1> DEFINE x == given[1]
           W == WithSizes(HostSizes)
           r == Deciding(x, o)
<1>1. x \in Given /\ x.flag \in Flags /\ x.val \in Values
    <2>1. x \in Given BY ElementOfSeq DEF AInv
    <2> QED BY <2>1 DEF Given
<1>2. NamingIn(given, o) = {i \in {1} : Hits(given[i], o)} BY DEF NamingIn
<1>3. opts[o] = AskedIn(given, o) BY DEF AInv
<1>4. CASE ~Hits(x, o)
    <2>1. NamingIn(given, o) = {} BY <1>2, <1>4
    <2>2. CASE o \in SetOptions
        <3>1. AskedIn(given, o) = {} BY <2>1, <2>2 DEF AskedIn
        <3>2. W[o] = {} BY <2>2, SetsEmpty, DefaultsFit DEF WithSizes, AllFit
        <3> QED BY <1>3, <3>1, <3>2
    <2>3. CASE o \notin SetOptions BY <1>3, <2>1, <2>3 DEF AskedIn
    <2> QED BY <2>2, <2>3
<1>5. CASE Hits(x, o)
    <2>1. r \in Rows[x.flag] /\ Target(r, x.val) = o BY <1>5 DEF Hits, Deciding
    <2>2. NamingIn(given, o) = {1} BY <1>2, <1>5
    <2>3. Last(NamingIn(given, o)) = 1 BY <2>2 DEF Last
    <2>4. o \notin SetOptions => opts[o] = Plain(r, x.val)
        BY <1>3, <2>2, <2>3 DEF AskedIn, AskedBy
    <2> HIDE DEF r, x, W
    <2>5. r \in Table /\ r[1] = x.flag BY <1>1, <2>1, RowSorts
    <2>6. r[2] \notin Kinds BY <2>5, TabledNoKind
    <2>7. CASE x.flag \in DocumentedDefaultFlags
        <3>1. /\ r[2] # "kind"
              /\ \/ r[3] = "on" /\ r[2] \in DefaultOn
                 \/ r[3] = "off" /\ r[2] \notin DefaultOn
            BY <2>5, <2>7, DefaultFlagsListed, RestatingTable DEF Restating
        <3>2. r[2] = o BY <2>1, <3>1 DEF Target
        <3>3. o \notin NumNames \cup StrNames \cup SetNames
            BY <2>5, <3>1, <3>2, SortedTable DEF Sorted
        <3>4. /\ o \in DefaultOn => Plain(r, x.val) = TRUE
              /\ o \notin DefaultOn => Plain(r, x.val) = FALSE
            BY <3>1, <3>2 DEF Plain
        <3>5. o \notin SetOptions BY <3>3, NamesOfSorts
        <3> QED BY <2>4, <2>6, <3>2, <3>3, <3>4, <3>5, TruthDefault DEF W
    <2>8. CASE <<x.flag, x.val>> \in DocumentedNumbers /\ x.flag \notin Misstated
        <3>1. PICK s \in Stated : s[1] = x.flag /\ s[3] = x.val BY <2>8, StatedListed
        <3>2. r[2] = s[2] /\ r[3] = "num" BY <2>5, <3>1, NumberingTable DEF Numbering
        <3>3. r[2] \in NumOptions BY <2>5, <3>2 DEF NumOptions
        <3>4. r[2] # "kind" BY <3>3, NumbersNoKinds DEF NumNames
        <3>5. r[2] = o BY <2>1, <3>4 DEF Target
        <3>6. Plain(r, x.val) = x.val BY <3>2 DEF Plain
        <3>7. o \notin SetOptions BY <3>3, <3>5, SortsApart
        <3>8. W[o] = s[3] BY <3>2, <3>3, <3>5, StatedDefault DEF W
        <3> QED BY <2>4, <3>1, <3>6, <3>7, <3>8 DEF W
    <2> QED BY <2>7, <2>8 DEF x
<1> QED BY <1>4, <1>5

\* A flag the help text calls the default, or a number it calls the default, changes none of
\* the options main starts with, when it stands alone: set_default_settings and the help text
\* agree on all of them but the three in Misstated.
THEOREM DefaultsAsDocumented == Spec => []DefaultFlagsIdle
<1> DEFINE W == WithSizes(HostSizes)
<1>1. AInv /\ FInv => DefaultFlagsIdle
    <2> SUFFICES ASSUME AInv, FInv, status = "parse", Len(given) = 1,
                        \/ given[1].flag \in DocumentedDefaultFlags
                        \/ /\ <<given[1].flag, given[1].val>> \in DocumentedNumbers
                           /\ given[1].flag \notin Misstated
                 PROVE  opts = W
        BY DEF DefaultFlagsIdle
    <2>1. \A o \in OptionNames : opts[o] = W[o] BY DefaultsStay
    <2>2. W = [o \in OptionNames |-> W[o]] BY DEF WithSizes, set_default_settings
    <2>3. opts = [o \in OptionNames |-> opts[o]] BY DEF FInv
    <2> HIDE DEF W
    <2> QED BY <2>1, <2>2, <2>3
<1>2. Init => AInv /\ OInv /\ FInv
    <2>1. ASSUME NEW sizes
          PROVE  WithSizes(sizes) = [o \in OptionNames |-> WithSizes(sizes)[o]]
        BY DEF WithSizes, set_default_settings
    <2>2. ASSUME Init PROVE \E sizes : opts = WithSizes(sizes)
        BY <2>2 DEF Init, set_platform_specific_options
    <2>3. Init => FInv BY <2>1, <2>2 DEF FInv
    <2> QED BY <2>3, InitAsked, InitHolds, OptionsAssumption
<1>3. AInv /\ OInv /\ FInv /\ [Next]_vars => AInv' /\ OInv' /\ FInv'
    BY NextAsked, NextKeeps, NextFunction, OptionsAssumption
<1> QED BY <1>1, <1>2, <1>3, PTL DEF Spec

=============================================================================
