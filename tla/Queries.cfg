CONSTANTS
    w1 = w1
    w2 = w2
    c1 = c1
    c2 = c2
    NoConn = NoConn
    Workers <- MCWorkers
    Conns <- MCConns
    OldTables <- MCOldTables
    QueryOps <- MCQueryOps
    NewRows <- MCNewRows
    Sizes <- MCSizes
    Unmatched <- MCUnmatched
    MaxItems = 2
    MaxRequests = 2
    MaxFailures = 2
    MaxThrows = 1
SPECIFICATION QueriesFairSpec
INVARIANTS QueriesTypeOK WholeOrders CleanSessions AnswersAreTrue 
PROPERTY EveryRequestEnds
\* When the bounded requests are answered nothing is left to do.
CHECK_DEADLOCK FALSE
