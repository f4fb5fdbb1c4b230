SPECIFICATION FairSpec
CONSTANTS
    MaxDepth = 3
    Asks <- MCAsks
INVARIANTS
    StatesFit
    Exhaustive
PROPERTIES
    Ascending
    Finishes
