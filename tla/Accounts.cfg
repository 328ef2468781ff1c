CONSTANTS
    w1 = w1
    w2 = w2
    u1 = u1
    p1 = p1
    p2 = p2
    NoPassword = NoPassword
    Nobody = Nobody
    Workers <- MCWorkers
    Logins <- MCLogins
    Passwords <- MCOnePassword
    Ops <- MCOps
    PoolSize = 3
    MaxRequests = 3
    MaxFailures = 1
SPECIFICATION FairSpec
INVARIANTS TypeOK MailedCodeWorks OwnerIsComplete
PROPERTIES CodeUsedOnce EveryRequestAnswered
\* When the bounded requests are answered nothing is left to do.
CHECK_DEADLOCK FALSE
