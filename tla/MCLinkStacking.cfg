CONSTANTS
    Tasks = {t1, t2, t3}
    Sessions = {s1, s2}
    Ops = {o1, o2}
    NoTask = NoTask
SPECIFICATION Spec
INVARIANT NoStacking
CHECK_DEADLOCK FALSE
