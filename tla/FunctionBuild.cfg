\* A built-in beside generated functions, every order of calls, statements and
\* removals, and a second round on an emptied FuncList.
SPECIFICATION FairSpec
CONSTANTS
    Builtins = 1
    MaxFuncs = 3
    Rounds = 2
    MaxParams = 1
    MaxOps = 2
    FuncCap = 4
INVARIANTS
    IInv
    NoRecursion
    WorklistIdle
    SkippedCallsStatic
PROPERTIES
    BuiltIsFrozen
    EveryBodyFinished
