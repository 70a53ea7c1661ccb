SPECIFICATION Spec
CONSTANTS
  MaxTiles = 2
  ReportStatuses = {}
  RestoredTiles = 0
  RestoredOverflow = 0
  MaxPanes = 3
  MaxOverflow = 1
  MaxTerminals = 2
  MaxExternal = 1
  MaxRestarts = 1
  MaxHeld = 1
  Nested = TRUE
INVARIANTS
  OneHome
  WorkerHome
  FocusInGrid
  OneTerminalPerTile
  CapHolds
  NeverForeign
  TreeShowsAll
PROPERTIES
  KeepsTerminal
VIEW InGrid
CHECK_DEADLOCK FALSE
