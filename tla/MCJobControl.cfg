\* Every interleaving of two threads' hooks with the commands; one of them may
\* wait bare, the other one gets signals.
SPECIFICATION Spec
CONSTANTS
    t1 = t1
    t2 = t2
    Threads <- TwoThreads
    BareWaiters <- OneThread
    Signalled <- TheOther
INVARIANTS
    TypeOK
    NoSleeperLeftBehind
    NotQueuedOutside
    SleepHasReason
    RunsRunnable
CHECK_DEADLOCK FALSE
