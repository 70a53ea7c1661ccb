SPECIFICATION FairSpec
CONSTANTS
  MaxTiles = 2
  ReportStatuses = {}
  RestoredTiles = 2
  RestoredOverflow = 0
  MaxPanes = 2
  MaxOverflow = 1
  MaxTerminals = 3
  MaxExternal = 0
  MaxRestarts = 1
  MaxHeld = 0
  Nested = FALSE
INVARIANTS
  TypeOK
  WorkersAnnounced
  OneShellPerTile
PROPERTIES
  DeferredFinishes
CHECK_DEADLOCK FALSE
