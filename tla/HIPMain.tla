------------------------------ MODULE HIPMain ------------------------------
(***************************************************************************)
(* The hipsmith process (HIPRandomProgramGenerator.cpp, HIPOptions.cpp,    *)
(* HIPProgramGenerator.cpp): defaults, command line, creation of the random*)
(* source, and the stages that generate a program.  What a stage generates *)
(* is reduced to the names it takes from gensym.                           *)
(***************************************************************************)
EXTENDS Integers, Sequences

CONSTANTS
    Words,      \* what an argument may be
    Strtoll,    \* strtoll on each of them: the number, and whether all was read
    ClockSeeds, \* what platform_gen_seed may return
    Width,      \* bits of unsigned long
    MaxArgs,    \* bound: arguments
    MaxNames    \* bound: names per kind of variable, and in functions

ASSUME MainAssumption ==
    /\ Width \in Nat \ {0} /\ MaxArgs \in Nat /\ MaxNames \in Nat
    /\ 2^Width = 2 * 2^(Width - 1) /\ 2^(Width - 1) \in Nat \ {0}
    /\ ClockSeeds \subseteq 0..2^Width - 1
    /\ Strtoll \in [Words -> [value: -(2^(Width - 1))..2^(Width - 1) - 1, whole: BOOLEAN]]

\* The arguments that only set an option, and the field of HIPOptions they set.
SwitchTable ==
    {<<"--vectors", "vectors">>, <<"--hip-consts", "hip_consts">>,
     <<"--hip-shared", "hip_shared">>, <<"--hip-managed", "hip_managed">>,
     <<"--no-hip-shared-safe-static-init", "hip_shared_safe_static_init">>,
     <<"--no-hip-managed-safe-static-init", "hip_managed_safe_static_init">>,
     <<"--hip-device", "hip_device">>, <<"--hip-builtins", "hip_builtins">>,
     <<"--hip-sync", "hip_sync">>, <<"--hip-warp", "hip_warp">>,
     <<"--hip-warp-match", "hip_warp_match">>,
     <<"--hip-warp-shuffle", "hip_warp_shuffle">>,
     <<"--hip-warp-reduce", "hip_warp_reduce">>, <<"--atomics", "hip_atomic">>,
     <<"--small", "small">>}

Switches ==
    [w \in {t[1] : t \in SwitchTable} |-> (CHOOSE t \in SwitchTable : t[1] = w)[2]]

SwitchesOff == {"--no-hip-shared-safe-static-init", "--no-hip-managed-safe-static-init"}
OptionNames == {Switches[w] : w \in DOMAIN Switches}

\* The members of CGOptions that HIPOptions::ResolveCGOptions may set.
SmallSettings == {"max_funcs", "max_blk_depth", "max_expr_depth", "max_block_size",
                  "max_array_dimensions", "max_array_length_per_dimension",
                  "max_array_length"}
HipSettings == {"force_globals_static", "packed_struct", "hash_value_printf", "consts",
                "volatiles", "lang_cpp", "cpp11", "force_non_uniform_array_init"}

VARIABLES
    argv,       \* the arguments, without the program's name
    phase,      \* where main is
    idx,        \* the next argument
    options,    \* HIPOptions that are true
    cg,         \* CGOptions: who set each member last
    g_Seed,
    rng,        \* the seed of the random source; -1 before it exists
    header,     \* the seed written to the program; -1 before
    gensym_count,
    names,      \* names given out, in order
    status      \* the exit status; 1 while running

mvars == <<argv, phase, idx, options, cg, g_Seed, rng, header, gensym_count, names, status>>

\* Mutant of Prefix: the constants' prefix, copied to the device variables.
Prefix_Copied == [hip_consts |-> "hip_const_", hip_managed |-> "hip_managed_",
                  hip_device |-> "hip_const_"]

Prefix == [hip_consts |-> "hip_const_", hip_managed |-> "hip_managed_",
           hip_device |-> "hip_device_"]

BodyPrefixes == {"func_", "g_", "lbl_"}

GlobalPhases == {"hip_consts", "hip_managed", "hip_device"}
Phases == {"start", "parse", "create", "header", "first", "bodies", "finalize", "exit"}
          \cup GlobalPhases

Names == [prefix: {Prefix[k] : k \in GlobalPhases} \cup BodyPrefixes, number: Nat]
Seeds == 0..2^Width - 1

MainTypeOK ==
    /\ argv \in Seq(Words) /\ idx \in 1..Len(argv) + 1
    /\ phase \in Phases /\ status \in {-1, 0, 1}
    /\ options \subseteq OptionNames
    /\ cg \in [SmallSettings \cup HipSettings -> {"unset", "default", "hip", "small"}]
    /\ g_Seed \in Seeds /\ rng \in Seeds \cup {-1} /\ header \in Seeds \cup {-1}
    /\ gensym_count \in Nat /\ names \in Seq(Names)

-----------------------------------------------------------------------------

\* Static initialisation: the two guards are on.
MainInit ==
    /\ argv \in UNION {[1..n -> Words] : n \in 0..MaxArgs}
    /\ phase = "start" /\ idx = 1 /\ status = 1
    /\ options = {Switches[w] : w \in SwitchesOff}
    /\ cg = [s \in SmallSettings \cup HipSettings |-> "unset"]
    /\ g_Seed = 0 /\ rng = -1 /\ header = -1
    /\ gensym_count = 0 /\ names = << >>

\* CGOptions::set_default_settings
DefaultSettings == [s \in SmallSettings \cup HipSettings |-> "default"]

\* Mutant of ResolveCGOptions: set_default_settings runs after it and undoes it.
ResolveCGOptions_Undone(c) == c

\* HIPOptions::ResolveCGOptions
ResolveCGOptions(c) ==
    [s \in DOMAIN c |-> IF s \in HipSettings THEN "hip"
                        ELSE IF "small" \in options THEN "small" ELSE c[s]]

\* The first lines of main.
Start ==
    /\ phase = "start"
    /\ g_Seed' \in ClockSeeds
    /\ cg' = ResolveCGOptions(DefaultSettings)
    /\ phase' = "parse"
    /\ UNCHANGED <<argv, idx, options, rng, header, gensym_count, names, status>>

Exit(code) == phase' = "exit" /\ status' = code

Parsing == phase = "parse" /\ idx <= Len(argv)

ParseSwitch ==
    /\ Parsing /\ argv[idx] \in DOMAIN Switches
    /\ options' = IF argv[idx] \in SwitchesOff THEN options \ {Switches[argv[idx]]}
                  ELSE options \cup {Switches[argv[idx]]}
    /\ idx' = idx + 1
    /\ UNCHANGED <<argv, phase, cg, g_Seed, rng, header, gensym_count, names, status>>

\* Mutant of SeedAccepted: *endptr is not looked at.
SeedAccepted_Prefix(w) == w \in Words

\* *endptr == '\0' after strtoll
SeedAccepted(w) == Strtoll[w].whole

\* --seed and its value, which idx++ skips.
SeedWords == 2

\* Mutant of SeedOf: the number is read into a narrower type.
SeedOf_Narrow(w) == Strtoll[w].value % 2^(Width - 1)

\* long long to unsigned long.
SeedOf(w) == Strtoll[w].value % 2^Width

ParseSeed ==
    /\ Parsing /\ argv[idx] = "--seed" /\ idx < Len(argv)
    /\ g_Seed' = SeedOf(argv[idx + 1])
    /\ IF SeedAccepted(argv[idx + 1])
       THEN idx' = idx + SeedWords /\ UNCHANGED <<phase, status>>
       ELSE Exit(-1) /\ UNCHANGED idx
    /\ UNCHANGED <<argv, options, cg, rng, header, gensym_count, names>>

\* No value after --seed, or an argument that is none of the above.
RefuseArgument ==
    /\ Parsing /\ argv[idx] \notin DOMAIN Switches
    /\ argv[idx] = "--seed" => idx = Len(argv)
    /\ Exit(-1)
    /\ UNCHANGED <<argv, idx, options, cg, g_Seed, rng, header, gensym_count, names>>

EndParsing ==
    /\ phase = "parse" /\ idx > Len(argv)
    /\ phase' = "create"
    /\ UNCHANGED <<argv, idx, options, cg, g_Seed, rng, header, gensym_count, names, status>>

\* AbsProgramGenerator::CreateInstance; none of the options that would make it fail
\* or generate exhaustively has an argument of its own here.
CreateInstance ==
    /\ phase = "create"
    /\ rng' = g_Seed
    /\ phase' = "header"
    /\ UNCHANGED <<argv, idx, options, cg, g_Seed, header, gensym_count, names, status>>

\* goGenerator: OutputHeader, then the probability tables and the types, which take
\* no names.
OutputHeader ==
    /\ phase = "header"
    /\ header' = g_Seed
    /\ phase' = "hip_consts"
    /\ UNCHANGED <<argv, idx, options, cg, g_Seed, rng, gensym_count, names, status>>

-----------------------------------------------------------------------------

gensym(basename) ==
    /\ gensym_count' = gensym_count + 1
    /\ names' = Append(names, [prefix |-> basename, number |-> gensym_count'])

\* GenerateHIPConstant, GenerateHIPManaged or GenerateHIPDeviceVar, once.
GenerateHIPGlobal ==
    /\ phase \in GlobalPhases /\ phase \in options
    /\ gensym_count < MaxNames
    /\ gensym(Prefix[phase])
    /\ UNCHANGED <<argv, phase, idx, options, cg, g_Seed, rng, header, status>>

AfterKind == [hip_consts |-> "hip_managed", hip_managed |-> "hip_device",
              hip_device |-> "first"]

\* Mutant of CountAfter: reset_gensym is left out after the device variables.
CountAfter_Keep(kind) == IF kind \in options /\ kind # "hip_device" THEN 0 ELSE gensym_count

\* reset_gensym, inside the if of each kind.  The built-ins that follow the last
\* kind have fixed names.
CountAfter(kind) == IF kind \in options THEN 0 ELSE gensym_count

FinishKind ==
    /\ phase \in GlobalPhases
    /\ gensym_count' = CountAfter(phase)
    /\ phase' = AfterKind[phase]
    /\ UNCHANGED <<argv, idx, options, cg, g_Seed, rng, header, names, status>>

\* Function::make_first
MakeFirst ==
    /\ phase = "first"
    /\ gensym("func_")
    /\ phase' = "bodies"
    /\ UNCHANGED <<argv, idx, options, cg, g_Seed, rng, header, status>>

\* A function, variable or label that some body needs.
MakeName ==
    /\ phase = "bodies" /\ gensym_count <= MaxNames
    /\ \E basename \in BodyPrefixes : gensym(basename)
    /\ UNCHANGED <<argv, phase, idx, options, cg, g_Seed, rng, header, status>>

\* output_mgr_->Output(): the kernel calls func_1.
Output ==
    /\ phase = "bodies"
    /\ phase' = "finalize"
    /\ UNCHANGED <<argv, idx, options, cg, g_Seed, rng, header, gensym_count, names, status>>

\* delete generator, return 0; the random source is gone.
Finalize ==
    /\ phase = "finalize"
    /\ rng' = -1
    /\ Exit(0)
    /\ UNCHANGED <<argv, idx, options, cg, g_Seed, header, gensym_count, names>>

MainNext ==
    \/ Start \/ ParseSwitch \/ ParseSeed \/ RefuseArgument \/ EndParsing
    \/ CreateInstance \/ OutputHeader \/ GenerateHIPGlobal \/ FinishKind
    \/ MakeFirst \/ MakeName \/ Output \/ Finalize

MainSpec == MainInit /\ [][MainNext]_mvars

-----------------------------------------------------------------------------

\* The arguments that are options: all but the values of --seed.
OptionAt ==
    CHOOSE S \in SUBSET (1..Len(argv)) :
        \A i \in 1..Len(argv) : i \in S <=> ~(i - 1 \in S /\ argv[i - 1] = "--seed")

SeedAt == {i \in OptionAt : argv[i] = "--seed"}

WellFormed ==
    /\ \A i \in OptionAt \ SeedAt : argv[i] \in DOMAIN Switches
    /\ \A i \in SeedAt : i < Len(argv) /\ Strtoll[argv[i + 1]].whole

\* What the line asks for: the two guards are on unless switched off, all other
\* options are off unless switched on.
Asked ==
    LET given == {Switches[argv[i]] : i \in OptionAt \ SeedAt}
        guards == {"hip_shared_safe_static_init", "hip_managed_safe_static_init"}
    IN  (given \ guards) \cup (guards \ given)

\* The process writes a program exactly when the line is well-formed, an argument
\* being read as an option or as the value of --seed but never both; and then the
\* members of HIPOptions are the ones of the line.  That is all it says of an option:
\* of --small, that the member small is set, and nothing of the smaller program that
\* src/README.md:57 promises (SettingsOfMain says what becomes of that).
LineDecides ==
    /\ phase = "exit" => (status = 0 <=> WellFormed)
    /\ header # -1 => options = Asked

\* "Fix the random seed for reproducible output": the seed in the program's header
\* is the one the choices were made with, and it is the last one on the line or the
\* clock's, as a 64-bit number.
SeedAsGiven ==
    phase \in {"first", "bodies", "finalize"} =>
        /\ header = rng
        /\ IF SeedAt = {} THEN rng \in ClockSeeds
           ELSE \E i \in SeedAt :
                   /\ \A j \in SeedAt : j <= i
                   /\ \E k \in {0, 1} : rng = Strtoll[argv[i + 1]].value + k * 2^Width

\* The kernel calls func_1 by name (OutputEntryFunction); that is the name make_first
\* gave out, whatever HIP variables were named before it.
EntryIsFunc1 ==
    phase = "finalize" =>
        \E i \in 1..Len(names) :
            /\ names[i] = [prefix |-> "func_", number |-> 1]
            /\ \A j \in 1..i - 1 : names[j].prefix # "func_"

\* No two things have one name although the counter starts again several times.
NamesDistinct ==
    \A i, j \in 1..Len(names) : i # j => names[i] # names[j]

\* The settings of csmith's generator are those of every HIP program over csmith's
\* defaults, whatever the line says and from the first argument to the end:
\* ResolveCGOptions runs before the arguments are read (main, line 21), so that the
\* limits it sets for --small are never set and max_funcs and the others keep their
\* defaults, against src/README.md:57.
SettingsOfMain ==
    phase # "start" =>
        cg = [s \in SmallSettings \cup HipSettings |-> IF s \in HipSettings THEN "hip" ELSE "default"]

\* What a command line reaches and what it does not: it is accepted as it should be
\* and decides every member of HIPOptions, the seed printed is the one given, and no
\* word of it reaches the settings of CGOptions (main, lines 18-129).
LineObeyed == LineDecides /\ SeedAsGiven /\ SettingsOfMain

\* The names of the program: the kernel's entry is func_1, and no name is given
\* out twice although every kind of variable resets the counter.
NamesFit == MainTypeOK /\ EntryIsFunc1 /\ NamesDistinct

=============================================================================
