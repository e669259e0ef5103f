SPECIFICATION FairSpec
CONSTANTS
    p1 = p1
    p2 = p2
    p3 = p3
    Addresses = {p1, p2, p3}
    PoolSize = 3
    MaxPeers = 2
    MaxFailures = 1
INVARIANTS
    TypeOK
    PoolSound
    SwarmSound
PROPERTIES
    ForgottenOnlyThus
    EveryPeerTried
CHECK_DEADLOCK FALSE
