SPECIFICATION MCSpec
CONSTANTS
    c1 = c1
    c2 = c2
    c3 = c3
    Clients = {c1, c2, c3}
    FeedOf <- MCFeedOf
    QueueSize = 2
    Debug = TRUE
    LogKinds <- MCLogKinds
    MaxLogs = 3
INVARIANTS NothingMissed
PROPERTIES InOrder StreamsServed
CHECK_DEADLOCK FALSE
