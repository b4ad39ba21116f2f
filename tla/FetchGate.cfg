SPECIFICATION GateSpec
CONSTANTS
  r1 = r1
  r2 = r2
  r3 = r3
  page = page
  big = big
  Reqs = {r1, r2, r3}
  Asks <- ThreeRequests
  Works = {page, big}
  SizeOf <- Sizes
  TTL = 1
  MaxCaptures = 2
  MaxStoreBytes = 3
  DebugRing = 2
  Ends = {"canceled", "expired"}
  Results = {"ok", "late", "lost"}
  Nil = Nil
INVARIANTS
  ReadableExactly
  StoreAccounts
  ToldWhatHappened
  RecentIsTheLast
PROPERTIES
  FullOnlyOfTheLiving
