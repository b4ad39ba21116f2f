SPECIFICATION FairSpec
CONSTANTS
  s1 = s1
  s2 = s2
  p1 = p1
  l1 = l1
  Shots <- MCShots
  Pages <- MCPages
  Leases <- MCLeases
  Size = 1
  Slots = 1
  Retries = 1
  MaxChrome = 2
  None = None
INVARIANTS
  OnlyAttachedTabsLive
  GenerationsAccount
  IdleTabsAreReset
  NoStaleAssist
PROPERTIES
  GenerationsAdvance
  EveryCallReturns
CHECK_DEADLOCK FALSE
