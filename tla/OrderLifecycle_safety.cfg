CONSTANTS
    w1 = w1
    w2 = w2
    r1 = r1
    r2 = r2
    o1 = o1
    NoRider = NoRider
    Workers <- MCWorkers
    Riders <- MCRiders
    Orders <- MCOrders
    Ops <- MCAllOps
    MaxRequests = 4
    MaxFailures = 1
SPECIFICATION Spec
SYMMETRY MCSymmetry
INVARIANTS TypeOK SuccessIsEarned EveryChangeAnnounced RiderIsInformed
\* When the bounded requests are answered nothing is left to do.
CHECK_DEADLOCK FALSE
