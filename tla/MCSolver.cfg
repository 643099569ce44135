CONSTANTS
    A = A
    B = B
    C = C
    Pkgs = {A, B, C}
    Vers = {1, 2}
    Root = Root
    RootV = 0
    NoVer = NoVer
    Universes <- MCUniverses
    ConstraintsBuilt = TRUE
    MaxTerms = 40
SPECIFICATION Spec
INVARIANTS
    TypeOK
    PropagationFixpoint
    TermsMatchAssignments
    SolvedSound
CHECK_DEADLOCK FALSE
