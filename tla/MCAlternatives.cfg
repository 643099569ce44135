CONSTANTS
    P = P
    Q = Q
    NoRegistry = NoRegistry
    Pkgname <- P
    Universes <- MCUniverses
SPECIFICATION Spec
INVARIANT ZeroMeansLinksIntact
CHECK_DEADLOCK FALSE
