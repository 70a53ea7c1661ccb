SPECIFICATION FairSpec
CONSTANTS
  Clients = {w1}
  MAX_MISSED_HEARTBEATS = 2
  MAX_RECONNECT_ATTEMPTS = 2
  MaxFaults = 1
  Connections = {1, 2, 3, 4}
PROPERTY
  SilenceNoticed
CHECK_DEADLOCK FALSE
