\* Every search through every small function.
SPECIFICATION Spec
CONSTANTS
    Codes <- UpToFour
    Prologues <- Usual
    NEAR = 4
    FORK_WINDOW = 8
    MAX_OFFSET = 5
    DISP = 2
INVARIANTS
    CountedCallHooked
    CallAfterGetnameHooked
    OnlyFirstPlacesTried
CHECK_DEADLOCK FALSE
