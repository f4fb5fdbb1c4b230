\* HIP expressions whose operands are generated in one context.
SPECIFICATION Spec
CONSTANTS
    g = g
    l = l
    m = m
    Globals = {g}
    Managed = {}
    Locals = {l}
    Flags = {"hip_warp_shuffle", "vectors"}
    MaxExprDepth = 3
    MaxDepth = 3
INVARIANTS NoUnsequencedConflict
