SPECIFICATION FairSpec
CONSTANTS
  Receivers = {r1, r2}
  Values = {a}
  VersionModulus = 3
  MaxSends = 4
  MaxWakerId = 4
INVARIANTS
  TypeOK
  NoLostWakeup
  NoLeakedWaker
  UpdateIsNoticed
PROPERTIES
  ChangeIsDelivered
CHECK_DEADLOCK FALSE
