CONSTANTS
    IntBits = 8
    Inputs <- MCInputsDiverge
    PatternCases <- MCPatternCases
    CmpverArgs <- MCCmpverArgs
SPECIFICATION Spec
INVARIANT
    CmpMatchesReference
CHECK_DEADLOCK FALSE
