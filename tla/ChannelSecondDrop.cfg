SPECIFICATION Spec
CONSTANTS
  ClientKinds = {"Msg"}
  ServerKinds = {"Msg"}
  StreamLength = 1
  MaxSends = 1
  MaxDrops = 2
INVARIANT
  NothingLost
CHECK_DEADLOCK FALSE
