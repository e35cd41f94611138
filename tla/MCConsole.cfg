SPECIFICATION TabFairSpec
CONSTANTS
    Writes = {w1, w2}
    Sockets = {k1, k2, k3}
    NoSocket = NoSocket
    Keys <- MCKeys
    Mutations <- MCMutations
    Routes <- MCRoutes
INVARIANTS TabTypeOK ReadYourWrites OneLiveSocket PillIsBacked
PROPERTY ExpiryNoticed
