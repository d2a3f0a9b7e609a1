SPECIFICATION Spec
CONSTANTS
  Paths = {p}
  Contents = {a, b}
  Binary = {}
  OnDisk = {b}
  OnDiskDelta = {b}
  D_MAX = 2
  MaxBytes = 1
  GC_INTERVAL = 1
  MaxSeq = 4
  MaxCrashes = 1
  MaxFaults = 1
INVARIANTS
  NeverWrongContent
  
  HeadIsReadable
  RefsCoverNodes
  OpenSucceeds
  QuietFileIsHead
CHECK_DEADLOCK FALSE
