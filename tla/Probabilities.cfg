SPECIFICATION Spec
CONSTANTS
    Options <- MCOptions
    Modes <- MCModes
    Configs <- MCConfigs
    Few = 1
INVARIANTS
    Accepted
    RoundTrip
    OffStaysOff
PROPERTIES
    RejectionEnds
CHECK_DEADLOCK FALSE
