CONSTANTS
    A = A
    B = B
    C = C
    Pkgs = {A, B, C}
    Missing = Missing
    NULL = NULL
    Universes <- MCUniverses
    MaxCalls = 1
SPECIFICATION Spec
INVARIANTS
    TypeOK
    ResultIsLinearised
    MissingDependencyFatal
PROPERTY
    Termination
CHECK_DEADLOCK FALSE
