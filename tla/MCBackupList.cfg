CONSTANTS
    Configs = {c1, c2}
    Threads = {t1, t2}
    Seconds = 2
    MaxSuffix = 1
    MaxSaves = 2
SPECIFICATION Spec
INVARIANT ListIsResilient
CHECK_DEADLOCK FALSE
