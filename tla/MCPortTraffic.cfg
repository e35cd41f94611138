CONSTANTS
    Sockets = {k1, k2}
    Sessions = {s1, s2}
    QueueMax = 2
    MaxFailures = 2
SPECIFICATION FairSpec
INVARIANT TypeOK
INVARIANT PollsWhenSubscribed
INVARIANT OneLateFrame
PROPERTY DownSwitchLeftAlone
PROPERTY HangUpNoticed
PROPERTY SubscriberServed
CHECK_DEADLOCK FALSE
