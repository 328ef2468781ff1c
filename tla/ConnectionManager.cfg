CONSTANTS
    w1 = w1
    w2 = w2
    f1 = f1
    u1 = u1
    u2 = u2
    Workers <- MCWorkers
    Fds <- MCFds
    Users <- MCUsers
    Ops <- MCAllOps
    MaxConns = 3
    MaxRequests = 2
    DbFails = TRUE
SPECIFICATION FairSpec
INVARIANTS TypeOK NumbersMeanClients
PROPERTY EventsAreSeen
\* When the bounded connections and requests are used up nothing is left to do.
CHECK_DEADLOCK FALSE
