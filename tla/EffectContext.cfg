\* csmith's operators and the HIP expressions that have operands.
SPECIFICATION Spec
CONSTANTS
    g = g
    l = l
    m = m
    Globals = {g}
    Managed = {}
    Locals = {l}
    Flags = {"vectors", "hip_warp_shuffle", "hip_atomic"}
    MaxExprDepth = 4
    MaxDepth = 3
INVARIANTS TypeOK OperandsApart Recorded ContextKept
