CONSTANTS
    NoPackages = NoPackages
    MountTables <- MCMountTables
    Transactions <- MCTransactions
SPECIFICATION Spec
INVARIANTS
    EnospcOnlyOnDeficit
CHECK_DEADLOCK FALSE
