SPECIFICATION FairSpec
CONSTANTS
    s1 = s1
    s2 = s2
    io = io
    reconnect = reconnect
    Reconnector = reconnect
    p1 = p1
    p2 = p2
    Subs <- MCOneSub
    Routers <- MCOneRouter
    Panes <- MCOnePane
    QueueCapacity = 1
    MaxNotes = 2
    MaxBroadcasts = 0
PROPERTIES LatchIsDelivered
CHECK_DEADLOCK FALSE
