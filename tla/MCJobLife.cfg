\* Safety and the end of jobs, with every failure of the environment the design must survive.
SPECIFICATION FairSpec
CONSTANTS
    j1 = j1
    j2 = j2
    NoJob = NoJob
    Tasks <- ThreeTasks
    InitTasks <- TwoRunning
    Jobs <- TwoJobs
    THREAD_TABLE_SIZE = 2
    MaxJid = 2
    AllocMayFail = TRUE
    ThreadExec = TRUE
    ThreadedRoots = FALSE
INVARIANTS
    TypeOK
    MemberJobAllocated
    EntryJobAllocated
    JobListWellFormed
    ForkPutNotLast
    ProcfsTree
    SingleDeleter
    CountNeverShort
    FileLeftOnlyByRename
PROPERTIES
    NoResurrection
    ImplementsMembership
    CountLostOnlyWithoutEntry
    AbandonedJobFreed
CHECK_DEADLOCK FALSE
