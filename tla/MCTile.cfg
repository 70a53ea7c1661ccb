SPECIFICATION Spec
CONSTANTS
  Unit = 48
  Step = 12
  MaxPanes = 3
  MaxTiles = 3
  MaxResizes = 1
  MaxDrags = 1
INVARIANTS
  FlexesInBounds
PROPERTIES
  ImplementsOrder
  SplitKeepsOthers
  SwapKeepsSizes
