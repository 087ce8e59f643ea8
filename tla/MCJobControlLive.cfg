\* Commands take effect on a thread.
SPECIFICATION FairSpec
CONSTANTS
    t1 = t1
    t2 = t2
    Threads <- OneThread
    BareWaiters = {}
    Signalled <- OneThread
PROPERTIES
    SuspendTakesEffect
    KillTakesEffect
CHECK_DEADLOCK FALSE
