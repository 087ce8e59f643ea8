\* Loading and unloading with every failure, and agents that die.
SPECIFICATION FairSpec
CONSTANTS
    t1 = t1
    t2 = t2
    t3 = t3
    Tasks <- ThreeTasks
    SearchMayFail = TRUE
    AgentsMayDie = TRUE
INVARIANTS
    TypeOK
    KernelTextClean
    CountedChildrenCanLeave
    NothingLeft
    RemovalWaitsForAgents
PROPERTY RemovalEndsUnlessOopsed
CHECK_DEADLOCK FALSE
