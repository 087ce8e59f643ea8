\* Jobs exist while the hooks go in and out one by one.
SPECIFICATION SpecHooked
CONSTANTS
    j1 = j1
    NoJob = NoJob
    Tasks <- TwoTasks
    InitTasks <- OneRunning
    Jobs <- OneJob
    THREAD_TABLE_SIZE = 2
    MaxJid = 0
    AllocMayFail = FALSE
    ThreadExec = FALSE
    ThreadedRoots = FALSE
INVARIANT MemberSafeOnTheFly
CHECK_DEADLOCK FALSE
