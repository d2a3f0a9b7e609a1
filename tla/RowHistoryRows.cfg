SPECIFICATION Spec
CONSTANTS
    Rows = 3
    Capacities <- MCCapacities
    Headroom = 1
    Input <- MCInput
    MaxInput = 4
    MaxMarkers = 2
INVARIANTS RaisedLimitIsTemporary FloorIsReal MarkerIsRight CacheBelowCapacityIsExact
CHECK_DEADLOCK FALSE
