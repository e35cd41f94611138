CONSTANTS
    Handlers = {h1, h2}
    Sessions = {s1, s2}
    NoHandler = NoHandler
    Seed = Seed
    MaxRestarts = 0
SPECIFICATION Spec
INVARIANT RestoreRollbackPoint
CHECK_DEADLOCK FALSE
