\* Two concurrent searches through the one buffer.
SPECIFICATION Spec
CONSTANTS
    t1 = t1
    t2 = t2
    Tasks <- TwoTasks
    Environments <- UpToTwo
    ENV_CELLS = 4
    ATOL_DIGITS = 2
    INT_MOD = 16
SYMMETRY TaskSymmetry
INVARIANTS
    TypeOK
    UndisturbedSearchIsRight
    ZoneNumberAsWritten
