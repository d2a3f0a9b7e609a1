SPECIFICATION FairSpec
CONSTANTS
    HasFd = TRUE
INVARIANTS HeldBackOnlyInSync PutOffIsRemembered
PROPERTIES LastFrameIsSignalled QuietSyncEnds
CHECK_DEADLOCK FALSE
