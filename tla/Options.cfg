SPECIFICATION Spec
CONSTANTS
    Words = {"if-else", "word"}
    Numbers <- MCNumbers
    Kinds = {"generic", "x86", "msp430"}
    Interacting <- MCInteracting
    MaxFlags = 2
    MaxDeep = 4
INVARIANTS
    AsAsked
    ConflictsCaught
    DefaultFlagsIdle
