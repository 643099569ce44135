CONSTANTS
    IntBits = 16
    Inputs <- MCInputs
    PatternCases <- MCPatternCases
    CmpverArgs <- MCCmpverArgs
SPECIFICATION Spec
INVARIANTS
    TypeOK
    PatternMatchesSpec
    CmpverMatchesSpec
PROPERTIES
    ImplementsVersionOrder
    Termination
CHECK_DEADLOCK FALSE
