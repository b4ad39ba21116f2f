SPECIFICATION Spec
CONSTANTS
  a1 = a1
  a2 = a2
  Opens = {s1}
  Held = {}
  Acts = {a1}
  Plans <- Clicks
  Tabs = {t1}
  MaxSessions = 1
  MaxIdle = 1
  AssertTTL = 1
  MaxLog = 1
  None = None
INVARIANT FreeTabsAreBlank
