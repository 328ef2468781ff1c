CONSTANTS
    s1 = s1
    s2 = s2
    f1 = f1
    Senders <- MCSenders
    Fds <- MCFds
    MaxConns = 2
    MaxSends = 2
    MaxFull = 1
SPECIFICATION Spec
SYMMETRY MCSymmetry
INVARIANT NothingAfterPiece
\* When the bounded connections and calls are used up nothing is left to do.
CHECK_DEADLOCK FALSE
