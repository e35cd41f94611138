SPECIFICATION LiveSpec
CONSTANTS
    Sockets = {k1, k2}
    NoSocket = NoSocket
INVARIANT ButtonIsAccurate
