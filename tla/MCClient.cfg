SPECIFICATION FairSpec
CONSTANTS
  Clients = {w1, w2}
  MAX_MISSED_HEARTBEATS = 2
  MAX_RECONNECT_ATTEMPTS = 2
  MaxFaults = 1
  Connections = {1, 2, 3, 4, 5, 6}
INVARIANTS
  OneConnection
  EntryKept
  BeatsAgree
  ToldOnce
PROPERTIES
  FinalIsFinal
  ReconnectSettles
  BeatsLeadOn
CHECK_DEADLOCK FALSE
