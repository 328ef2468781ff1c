CONSTANTS
    w1 = w1
    w2 = w2
    w3 = w3
    Workers <- MCWorkers
    MaxItems = 4
SPECIFICATION FairSpec
INVARIANTS TypeOK NoLostWakeup DrainedOnExit
PROPERTIES DispatchSpec EveryPacketHandled StopCompletes
\* After the join nothing is left to do.
CHECK_DEADLOCK FALSE
