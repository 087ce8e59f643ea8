\* An event between saving and restoring the task state.
SPECIFICATION Spec
CONSTANTS
    t1 = t1
    t2 = t2
    Threads <- OneThread
    BareWaiters = {}
    Signalled = {}
INVARIANT NoLostEvent
CHECK_DEADLOCK FALSE
