-------------------------- MODULE MCEffectContext --------------------------
(***************************************************************************)
(* EffectContext for TLC: a variable of each kind.                          *)
(***************************************************************************)
EXTENDS EffectContext

CONSTANTS
    g,  \* g_1
    m,  \* hip_managed_1
    l   \* l_1

=============================================================================
