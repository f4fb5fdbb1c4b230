CONSTANTS
    Vars <- MCVars
    Level <- MCLevel
    Locals <- MCLocals
    GlobalInit <- MCGlobalInit
    Assigns <- MCAssigns
    FieldUses <- MCFieldUses
    Kinds = {"if", "for", "break", "continue", "return", "goto", "forward"}
    Entries <- MCEntries
    MaxStms = 3
    MaxPerBlock = 3
    MaxDepth = 1
    MaxForward = 1
    MaxCalls = 1
SPECIFICATION Spec
INVARIANTS
    TextFits
    FactsSound
    NoBadAccess
    AlwaysReturns
