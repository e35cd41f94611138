CONSTANTS
    Logins = {l1, l2, l3}
    Tasks = {t1, t2}
    Callers = {c1, c2, c3}
    Ttl = 2
    MaxTime = 4
    NoTask = NoTask
SPECIFICATION FairSpec
ACTION_CONSTRAINT OnePart
INVARIANT LifespanTypeOK
INVARIANT Owned
INVARIANT SweptFirst
INVARIANT ProbesSpaced
PROPERTY ShutdownCloses
PROPERTY AnswersFresh
PROPERTY AskerAnswered
CHECK_DEADLOCK FALSE
