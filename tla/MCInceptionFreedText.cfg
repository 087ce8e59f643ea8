\* rmmod and one task, when all switch points are found and no agent dies.
SPECIFICATION Spec
CONSTANTS
    t1 = t1
    t2 = t2
    t3 = t3
    Tasks <- OneTask
    SearchMayFail = FALSE
    AgentsMayDie = FALSE
INVARIANT NobodyInFreedText
CHECK_DEADLOCK FALSE
