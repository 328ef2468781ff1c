CONSTANTS
    w1 = w1
    w2 = w2
    f1 = f1
    u1 = u1
    u2 = u2
    Workers <- MCWorkers
    Fds <- MCFds
    Users <- MCUsers
    Ops <- MCBanOps
    MaxConns = 2
    MaxRequests = 2
    DbFails = FALSE
SPECIFICATION Spec
SYMMETRY MCSymmetry
INVARIANT BannedIsKicked
\* When the bounded connections and requests are used up nothing is left to do.
CHECK_DEADLOCK FALSE
