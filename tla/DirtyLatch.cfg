SPECIFICATION FairSpec
CONSTANTS
    s1 = s1
    s2 = s2
    io = io
    reconnect = reconnect
    Reconnector = reconnect
    p1 = p1
    p2 = p2
    Subs <- MCSubs
    Routers <- MCRouters
    Panes <- MCOnePane
    QueueCapacity = 1
    MaxNotes = 2
    MaxBroadcasts = 1
INVARIANTS DirtyIsKept ReliableInOrder
PROPERTIES ReliableArrives
CHECK_DEADLOCK FALSE
