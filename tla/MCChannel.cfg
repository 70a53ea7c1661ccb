SPECIFICATION FairSpec
CONSTANTS
  ClientKinds = {"Request", "Stream"}
  ServerKinds = {"Msg"}
  StreamLength = 1
  MaxSends = 1
  MaxDrops = 1
INVARIANTS
  NothingLost
  CopiesBounded
  AnswersFit
PROPERTIES
  AllHeard
CHECK_DEADLOCK FALSE
