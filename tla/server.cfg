SPECIFICATION FairSpec
CONSTANTS
    Peer = {p1, p2}
    Caller = {"election", "heartbeat"}
    Fd = {1, 2, 3}
    None = None
    MAX_CONNECTIONS_PER_PEER = 5
    Signal = {SIGINT, SIGTERM}
INVARIANTS
    TypeOK
    DescriptorsOwned
    OneConnectionPerPeer
    CleanEnd
PROPERTIES
    StopCompletes
CHECK_DEADLOCK FALSE
