SPECIFICATION FairSpec
CONSTANTS
    HEAP = 5
    KEEPALIVE = 5
INVARIANTS FewAttempts LeavesConnections
PROPERTIES Settles
CHECK_DEADLOCK FALSE
