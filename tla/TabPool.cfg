SPECIFICATION FairSpec
CONSTANTS
  u1 = u1
  u2 = u2
  u3 = u3
  Users <- Contenders
  Size = 1
  None = None
INVARIANTS
  Accounting
  NoLostWakeup
  FreeTabsAreBlank
PROPERTIES
  LendingSpec
  EveryUserFinishes
CHECK_DEADLOCK FALSE
