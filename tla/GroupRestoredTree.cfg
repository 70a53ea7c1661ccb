SPECIFICATION Spec
CONSTANTS
  MaxTiles = 2
  ReportStatuses = {}
  RestoredTiles = 1
  RestoredOverflow = 2
  MaxPanes = 2
  MaxOverflow = 2
  MaxTerminals = 3
  MaxExternal = 0
  MaxRestarts = 0
  MaxHeld = 0
  Nested = FALSE
INVARIANTS
  EveryWorkerInTree
CHECK_DEADLOCK FALSE
