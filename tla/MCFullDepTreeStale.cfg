CONSTANTS
    A = A
    B = B
    C = C
    Pkgs = {A, B, C}
    Missing = Missing
    NULL = NULL
    Universes <- MCStale
    MaxCalls = 2
SPECIFICATION Spec
INVARIANT
    MissingDependencyFatal
CHECK_DEADLOCK FALSE
