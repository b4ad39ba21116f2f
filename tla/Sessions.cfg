SPECIFICATION FairSpec
CONSTANTS
  a1 = a1
  a2 = a2
  Opens = {s1, s2}
  Held = {s1}
  Acts = {a1, a2}
  Plans <- Pairs
  Tabs = {t1}
  MaxSessions = 1
  MaxIdle = 0
  AssertTTL = 2
  MaxLog = 1
  None = None
INVARIANTS
  OneSessionPerTab
  EvidenceIsComplete
PROPERTIES
  TypingIsGated
  TabsComeBack
