CONSTANTS
    A = A
    B = B
    C = C
    Pkgs = {A, B, C}
    Missing = Missing
    NULL = NULL
    Universes <- MCUniverses
    MaxCalls = 1
SPECIFICATION Spec
INVARIANT
    Completeness
CHECK_DEADLOCK FALSE
