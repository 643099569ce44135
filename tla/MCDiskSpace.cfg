CONSTANTS
    NoPackages = NoPackages
    MountTables <- MCMountTables
    Transactions <- MCTransactions
SPECIFICATION Spec
INVARIANTS
    TypeOK
    NoOverrun
    DeepestFirst
CHECK_DEADLOCK FALSE
