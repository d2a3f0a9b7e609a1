SPECIFICATION Spec
CONSTANTS
    None = None
    Contents = {a, b, x}
    Binary = {x}
    K = 1
    Window = 1
    Ttl = 2
    CircuitWindow = 1
    CircuitSuspend = 2
    MaxEdits = 2
    MaxRequests = 1
    MaxFaults = 1
INVARIANTS QuietIsRecorded
PROPERTIES EventuallyRecorded RequestIsAnswered StopEnds
