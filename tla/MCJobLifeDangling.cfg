\* A task in do_exit past the hook keeps its link to the deleted job.
SPECIFICATION Spec
CONSTANTS
    j1 = j1
    j2 = j2
    NoJob = NoJob
    Tasks <- ThreeTasks
    InitTasks <- TwoRunning
    Jobs <- TwoJobs
    THREAD_TABLE_SIZE = 2
    MaxJid = 1
    AllocMayFail = FALSE
    ThreadExec = FALSE
    ThreadedRoots = FALSE
INVARIANT NoDanglingLink
CHECK_DEADLOCK FALSE
