\* Two tasks in execve at a time, through the one buffer: the one founds a job
\* that its environment does not ask for.
SPECIFICATION Spec
CONSTANTS
    t1 = t1
    t2 = t2
    Tasks <- TwoTasks
    Environments <- UpToTwo
    ENV_CELLS = 4
    ATOL_DIGITS = 2
    INT_MOD = 16
INVARIANT
    FoundsOnlyIfAsked
