CONSTANTS
    Vars <- InnerVars
    Level <- InnerLevel
    Locals = {}
    GlobalInit <- InnerInit
    Assigns <- InnerAssigns
    FieldUses = {}
    Kinds = {"if", "forward", "inner"}
    Entries = {}
    MaxStms = 4
    MaxPerBlock = 3
    MaxDepth = 1
    MaxForward = 2
    MaxCalls = 0
SPECIFICATION Spec
INVARIANTS NoBadAccess
