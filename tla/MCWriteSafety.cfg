CONSTANTS
    Handlers = {h1, h2}
    Sessions = {s1, s2}
    NoHandler = NoHandler
    Seed = Seed
    MaxRestarts = 1
SPECIFICATION Spec
SYMMETRY Symmetry
INVARIANT TypeOK
INVARIANT GatesHold
INVARIANT RollbackIsReal
INVARIANT AtMostOnce
INVARIANT AckIsSettled
PROPERTY GuardSpec
CHECK_DEADLOCK FALSE
