SPECIFICATION Spec
CONSTANTS
  Paths = {p}
  Contents = {a, b}
  Binary = {}
  OnDisk = {}
  OnDiskDelta = {}
  D_MAX = 1
  MaxBytes = 1
  GC_INTERVAL = 1
  MaxSeq = 4
  MaxCrashes = 1
  MaxFaults = 0
INVARIANT
  HeadAlwaysReadable
CHECK_DEADLOCK FALSE
