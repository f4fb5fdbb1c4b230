SPECIFICATION Spec
CONSTANTS
  Options <- MCOptions
  BitLengths <- MCBitLengths
INVARIANTS
    AggregatesFit
    ConversionsLegal
    AccessesAllowed
    DeclaredBeforeUse
