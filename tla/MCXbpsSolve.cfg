CONSTANTS
    A = A
    B = B
    C = C
    Pkgs = {A, B, C}
    Vers = {1, 2}
    Root = Root
    RootV = 0
    NoVer = NoVer
    Universes <- LiveUniverses
    ConstraintsBuilt = TRUE
    MaxTerms = 40
    Argvs <- MCArgvs
SPECIFICATION ProgramSpec
INVARIANT
    MainTypeOK
PROPERTY
    ProgramEnds
CHECK_DEADLOCK FALSE
