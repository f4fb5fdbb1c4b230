----------------------------- MODULE MCOptions -----------------------------
\* The instance TLC checks: every flag in lists of up to MaxFlags flags, and the flags the
\* conflict checks and the C++ settings read in lists of up to MaxDeep.
EXTENDS Options

MCNumbers == {-1, 0, 3, 10, 101}

MCInteracting ==
    {"--dfs-exhaustive", "--max-exhaustive-depth", "--klee", "--crest", "--coverage-test",
     "--no-structs", "--expand-struct", "--lang-cpp", "--fast-execution",
     "--const-struct-union-fields", "--max-split-files"}
============================================================================
