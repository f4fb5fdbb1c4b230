SPECIFICATION FairSpec
CONSTANTS
    Argc = 1
    Modulus = 8
    MaxOps = 2
    Programs <- MCPrograms
    FlagSets <- MCFlagSets
INVARIANTS TypeOK RaceFree ResultsInBounds
PROPERTIES ReportDeterminate ProgramEnds
