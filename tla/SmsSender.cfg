SPECIFICATION SmsFairSpec
CONSTANTS
    G = 2
    MaxRequests = 3
    MaxCredits = 1
INVARIANTS ConnectionsBalance NoMixing HeaderAnnouncesBody
PROPERTY ThreadsEnd
CHECK_DEADLOCK FALSE
