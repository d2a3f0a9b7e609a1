SPECIFICATION Spec
CONSTANTS
    MaxSeq = 2
    MaxFiles = 3
    MaxCrashes = 2
    FaultSets = {{"rename", "create"},
                 {"flush", "fsync", "rename", "create", "create_fsync", "remove"},
                 {"power", "flush", "fsync", "row", "rename", "create", "remove"}}
INVARIANTS NothingDiscarded LogKeepsFrames LogSurvives CommittedIsRecovered SeqAboveCommitted
PROPERTIES ImplementsLog
CHECK_DEADLOCK FALSE
