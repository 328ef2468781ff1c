CONSTANTS
    f1 = f1
    Fds <- MCFds
    Lengths <- MCLengths
    Ops <- MCOps
    Casts <- MCCasts
    HeaderSize = 2
    MaxPayload = 3
    MaxConns = 2
    MaxFrames = 2
    MaxKicks = 1
    MaxNotices = 1
SPECIFICATION FairSpec
INVARIANTS TypeOK BelievesRightly
PROPERTIES ChannelSpec FramesArrive ExitEnds
\* When the bounded connections and frames are used up nothing is left to do.
CHECK_DEADLOCK FALSE
