SPECIFICATION Spec
CONSTANTS
    Bits <- MCBits
    ArgsOf <- MCArgsOf
    LanesOf <- MCLanesOf
    Options <- MCOptions
    Requests <- MCRequests
    MaxCalls <- MCMaxCalls
INVARIANTS
    NeverUndefined
    WrapperMeaning
    LanesExact
    PrintedFits
CHECK_DEADLOCK FALSE
