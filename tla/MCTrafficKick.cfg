CONSTANTS
    Sockets = {k1, k2}
    Sessions = {s1, s2}
    QueueMax = 2
    MaxFailures = 2
SPECIFICATION FairSpec
PROPERTY KickedIsClosed
CHECK_DEADLOCK FALSE
