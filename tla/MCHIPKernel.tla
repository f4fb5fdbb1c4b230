---------------------------- MODULE MCHIPKernel ----------------------------
EXTENDS HIPKernel

CONSTANT MaxOps     \* bound: statements of func_1

MCPrograms == UNION {[1..n -> Kinds] : n \in 0..MaxOps}

\* No option, each one that adds memory or control alone, and the mixtures in
\* which the conditions of OutputEntryFunction differ.
MCFlagSets ==
    {{}} \cup {{o} : o \in {"hip_consts", "hip_shared", "hip_managed",
                            "hip_device", "hip_builtins", "hip_sync"}}
    \cup {{"hip_consts", "hip_device"},
          {"hip_builtins", "hip_sync"}, {"hip_shared", "hip_sync"},
          {"hip_managed", "hip_builtins"}}
=============================================================================
