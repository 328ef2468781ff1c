CONSTANTS
    t1 = t1
    t2 = t2
    t3 = t3
    Threads <- MCThreads
    Forgetful <- MCThreads
    PoolSize = 2
    MaxRequests = 2
SPECIFICATION FairSpec
INVARIANTS TypeOK OnePlace NoLostWakeup
PROPERTIES LeaseSpec EveryCallAnswered
\* Workers with no packet left have nothing to do.
CHECK_DEADLOCK FALSE
